# A TLA+ verification project for aeo-geo-optimization

The repository measures how AI answer engines talk about a customer (runs of
questions against LLM providers, judged and aggregated into reports), generates
content, and publishes that content off-site under strict rules. It is one
Node.js code base with PostgreSQL (Kysely) as its only shared state and pg-boss
as its job queue. Everything that is hard to get right happens where several
job handlers, cron ticks, operator commands and crashes meet in the same tables.

Paths below are relative to the repository root.

## 1. Inventory

| Component | State it keeps | Operations | Hard behaviour | What makes it correct |
|---|---|---|---|---|
| Publish units (`src/deploy/publishUnit.ts`) | `content_deploy_queue.status`, `url_registry.publish_status` | `publishUnit`, `claimUrlRegistry`, `markUrlRegistryPublished/Failed`, `markDeployStatus` | redelivered jobs, crash between side effect and record, swallowed writes | an asset is published at most once; both tables agree; every claim and lease ends |
| Publish dispatch and throttle (`src/deploy/dispatch.ts`, `throttle.ts`, `src/db/repo.ts` 2246-2820) | `channel_throttle`, `channel_throttle_state`, leases | `handlePublishDispatch`, `reapStaleLeases`, `claimNextDeployBatchForCustomer`, `canPublishNow` | two dispatchers, day and week roll-over, batches | daily and weekly caps, spacing, no starvation |
| Job queue (`src/scheduler/queue.ts`, pg-boss) | jobs | send, fetch, complete, fail, expire | redelivery, lost enqueue, dead letters | a job ends; what it did twice counts once |
| Scheduler worker (`src/scheduler/worker.ts`) | cron schedules | registers handlers, boot catch-up, publish cron | crash and restart | nothing is forgotten after a restart |
| Measurement cycle (`src/pipeline/runCycle.ts`, `runResponse.ts`) | `run`, `work_unit`, `response_raw`, `mention_judgment` | `cycle.plan`, `response.run`, `cycle.aggregate`; inline baseline runs that are killed and resumed | a deadline racing retries, non-transactional writes, plans that change between a kill and a resume | a cell is counted once against a frozen denominator; a run that ends is complete |
| Report delivery (`src/report/deliver.ts`, `src/metrics/aggregate.ts`; its handler is not passed to the worker in `src/index.ts`) | `report_snapshot`, `report_delivery`, report tokens | assemble, snapshot, check, send, record; catch-up at boot | reads that other processes overtake, crash between send and record, catch-up beside a retry | a completed run is reported, each e-mail is accounted for, the figures add up |
| Billing close (`src/billing`) | `invoice`, `invoice_line` | close a month, repeat it | failure between invoice and lines, late ledger rows | the invoice is what the ledger says, and its lines explain its total |
| Cost budget (`src/cost`) | `llm_call`, `response_cache` | preflight, check before a unit, record after it, cache | concurrent checks of one rolling sum, deaths between call and record, one cache row for many samples | the cap is overshot by what was in flight at most; samples stay distinct |
| Sampling and rotation (`src/sampling`) | `rotation_state` | choose languages, models, questions and samples of a cycle, advance the cursors | off-by-one in slices, cycles that fail half-way | every question is measured in each turn |
| Indexing verification (`src/deploy/verifyIndexing.ts`) | `url_registry.indexing_status` | `publish.verify` | an attempt number that is never passed, rows not yet marked | a verification ends |
| Owned-net connector (`src/deploy/connectors/ownedNet.ts`, `scripts/gen-hub-index.mts`) | pages, `sitemap.xml`, the hub's index | write a page, merge its entry, rebuild the index | unlocked read-modify-write, truncation before the fill | nothing that is listed is missing on disk |
| Content generation and gates (`src/content`, `src/cli/genContent.ts`, `gateContent.ts`, `reviewClaims.ts`) | `content_asset`, `claim_source` | generate per language, extract and verify claims, gate, insert, gate again, sign, queue | two processes that gate from rows they read long ago, budgets checked before a call | a passed asset is backed by signed sources and is nobody's twin |
| Question templates (`src/generate`, `src/config/loadTemplate.ts`, `src/cli/genTemplate.ts`, `reviewTemplate.ts`) | `industry_template`, YAML files, `question` | generate a draft, review, activate, edit | an activation writes a table, a file and a table again | only reviewed questions are asked; there is one active version |
| Judge, guardrails, metrics (`src/judge`, `src/guardrails`, `src/metrics`) | `mention_judgment`, monitors | judge an answer, verify its evidence, fall back on a scan, aggregate | model output that contradicts itself, offsets into normalised text | a stored mention is one the answer contains |
| Providers and surfaces (`src/providers`, `src/surfaces`) | the cursor over the Gemini keys | call a model, classify what came back, choose the judge, parse a page of results | concurrent calls that share a cursor, errors told apart by phrases | a call waits only when every key was refused; a forbidden surface is never scraped |
| Brief and diagnosis (`src/generate/diagnose.ts`, `urlFetch.ts`, `extractPage.ts`, `materialize.ts`) | - | fetch a page, read it, make a brief and drafts, materialise them | redirects to internal addresses, robots rules, half-closed tags | nothing internal is fetched; every draft field arrives |
| Authentication, report links, audit chain (`src/auth`, `src/security`, `src/report/reportToken.ts`) | `auth_session`, `security_audit_log` | log in and out, check a scope, open a report, append to and verify the chain | appends that overlap, a session that outlives its logout | a changed or removed row is noticed; a link opens its own report only |
| HTTP API, web console, wiring (`src/api`, `apps/web`, `src/index.ts`) | - | answer a request, start a run, pass the dependencies of a run | the same run wired in three ways | a customer sees its own rows; a run is started with guards |
| Database access (`src/db/repo.ts`, `src/db/schema.ts`) | every table | the statements | upserts that overwrite, reads keyed by id alone | a repeated statement settles; a customer's read returns its rows |
| Stub connectors and channel registry | - | constant answers | none | see `PROJECT.json` |

The components talk through tables and jobs: content gates write
`content_asset.gate_status`; people approve rows of `content_deploy_queue` in
the web console or the CLI; the dispatcher leases approved rows and enqueues
`publish.unit` jobs; each job re-reads its row, takes the `url_registry` slot of
the asset, calls the connector, and records the outcome in two tables, one
statement each, without a transaction around them. A measurement is planned by
`cycle.plan`, which freezes the plan in `run.n_total` and `work_unit` and enqueues
one `response.run` job per cell; the handlers and the polling `cycle.aggregate`
handler meet in these two tables only. Weekly baselines do the same inline, in a
process that is killed after two hours and resumed a week later. What a run
measured is aggregated, kept as a snapshot and e-mailed by `report.deliver`; what its
calls cost is a row each of `llm_call`, which the budget gate sums before the next
call and the monthly close sums for the invoice.

`PROJECT.json` lists the hazards of this code, each at its line.

## 2. Modules

| Module | Models | Role |
|---|---|---|
| `PublishOnce` | the promise of `src/deploy` for each asset | abstract specification |
| `DeployPipeline` | `publishUnit`, the dispatcher as far as leases go, pg-boss, crashes | detailed specification, refines `PublishOnce` |
| `DeployPipelineProofs` | - | TLAPS proofs about `DeployPipeline` |
| `MCDeployPipeline` | - | instances for TLC |
| `Throttle` | `throttle.ts` and the arithmetic of the claim transaction | operators |
| `PublishDispatch` | concurrent dispatchers spending one channel's budget | detailed specification |
| `PublishDispatchProofs` | - | TLAPS proofs about `PublishDispatch` |
| `MCPublishDispatch` | - | instances for TLC |
| `Responses` | `runResponse.ts`: one work unit, statement by statement | shared by the two run modules |
| `MeasureOnce` | the promise of `src/pipeline` for each run | abstract specification |
| `OperatingCycle` | `runCycle.ts` PATH B, `runCycleAggregate`, the three measurement workers | detailed specification, extends `Responses`, refines `MeasureOnce` |
| `OperatingCycleProofs` | - | TLAPS proofs about `OperatingCycle` and `Responses` |
| `MCOperatingCycle` | - | instances for TLC |
| `BaselineRun` | `runCycle.ts` PATH A with kills and resumes | detailed specification, extends `Responses` |
| `BaselineRunProofs` | - | TLAPS proofs about `BaselineRun` and `Responses` |
| `RotationPlan` | `plan.ts`, `rotation.ts` and the cursors of `repo.ts` | detailed specification |
| `RunMetrics` | `aggregate.ts`: the figures of a report | operators |
| `ReportDelivery` | the end of a run, `deliver.ts`, its worker and the catch-up | detailed specification, extends `RunMetrics` |
| `ReportDeliveryProofs` | - | TLAPS proofs about `ReportDelivery` |
| `MCReportDelivery` | - | instances for TLC |
| `BillingClose` | `llm_call` and the sums that are taken over it, `pricing.ts`, `close.ts` and its job | operators, shared state and actions |
| `SpendAndBill` | `runResponse.ts` steps 2 to 10 as far as money goes, `budget.ts`, `cache.ts`; composes them with the close | detailed specification, extends `BillingClose` |
| `SpendAndBillProofs` | - | TLAPS proofs about `SpendAndBill` and `BillingClose` |
| `MCSpendAndBill` | - | instance for TLC |
| `ContentGates` | `claimExtract.ts`, `claimVerify.ts`, `numericDetect.ts`, `src/content/gates` and their fold | operators |
| `ContentPipeline` | `contentMatrix.ts`, `channelContentMatrix.ts`, `genContent.ts`, `gateContent.ts`, `reviewClaims.ts`, the console's sign-off | detailed specification, extends `ContentGates` |
| `ContentPipelineProofs` | - | TLAPS proofs about `ContentPipeline` |
| `MCContentPipeline` | - | instance for TLC |
| `QuestionPlan` | the question matrix, dedup, guards, density | operators |
| `Templates` | `genTemplate.ts`, `reviewTemplate.ts`, `loadTemplate.ts`, the console's template actions | detailed specification, extends `QuestionPlan` |
| `OwnedSite` | `ownedNet.ts`, `verifyIndexing.ts`, the hub index | detailed specification |
| `KeyRotation` | the `_call` loop of `gemini.ts` over its API keys | detailed specification |
| `IndependentParts` | - | composes `RotationPlan`, `OwnedSite`, `Templates` and `KeyRotation`, which share no state, so that a behaviour is one of the four |
| `IndependentPartsProofs` | - | TLAPS proofs about the four, and about operators of `Access` and `Records` |
| `MCIndependentParts` | - | instances for TLC; extends `PureChecks` |
| `SamplingPlan` | `plan.ts`, `languageWeight.ts`, the shape caps of `budget.ts` | operators |
| `Judge` | `extractMention.ts`, `llmJudge.ts`, `recommendation.ts`, `src/guardrails` | operators |
| `Surfaces` | `src/surfaces`: registry, selection, parsers | operators |
| `Providers` | `registry.ts`, `openaiCompat.ts`, result classes, choice of the judge, prices | operators |
| `Instruments` | the secondary metrics and monitors of `src/metrics`, and the agreement of judges | operators |
| `Intake` | `urlFetch.ts`, `extractPage.ts`, `diagnose.ts`, `materialize.ts` | operators |
| `ContentBuild` | `generateContentForLanguage.ts`, `types.ts`, `wordCount.ts`, `jsonld.ts` | operators |
| `Pages` | `render.ts`, the pure parts of `ownedNet.ts`, the feeds and robots files | operators |
| `Records` | the rows of `schema.ts`, the statements of `repo.ts` | operators |
| `Access` | the audit chain, sessions, scopes, report links, routes, wiring of a run, queues | operators |
| `PureChecks` | - | the named assumptions about the ten modules of operators above |

### DeployPipeline: state and code

| Variable | Code |
|---|---|
| `passed`, `approved` | `content_asset.gate_status = 'passed'`; `content_deploy_queue.approved_by` is not null |
| `queue`, `aged` | `content_deploy_queue.status`; its `leased_at` is older than `DEPLOY_LEASE_TIMEOUT_MS` |
| `registry` | the row of the asset under the partial unique index `uq_url_registry_live`; `failed`, `dry_run` and no row at all are all "free" because nothing in the pipeline reads such a row again |
| `jobs` | `publish.unit` jobs of pg-boss: created or active, with retries left |
| `dispatch`, `worker` | local variables of `handlePublishDispatch` and `publishUnit` |
| `accepted` | history: ok answers of the connector that `publishUnit` accepted |
| `disclosed` | assets whose `disclosure_tag` is the one their channel requires, chosen at the start: no statement of the code changes the tag or the channel of an asset |

An action is what runs between two points where another process may act, in
practice one database statement or one external call. `LoadUnit` is the read of
the row with the two checks that follow it without another await; `WinClaim` and
`LoseClaim` are `claimUrlRegistry`; `ConnectorReturns` is the connector's answer
with the branch on it; `RecordRegistry` and `RecordQueue` are the two updates of
steps 9a to 9e, in the order of the code; `FinishUnit` is the end of the
handler, when pg-boss completes or fails the job. `WorkerCrash` may happen
before any of them.

Faults are switched by the constant `Faults`: `"crash"` (a process dies),
`"db"` (a write or read fails and the code's `.catch` swallows it), `"enqueue"`
(`queue.enqueue` throws), `"expire"` (pg-boss delivers a job again while its
handler still runs). `LeaseOutlivesJob` is the assumption that no lease grows
stale while somebody still works on the row.

A `singletonKey` on a standard queue of pg-boss may or may not stop a second
job for the same asset, depending on the state of the first; `EnqueueUnit`
allows both.

### PublishDispatch: state and code

`throttle` is `channel_throttle_state`, `lock` its row lock, `disp` the local
variables of `handlePublishDispatch`, `backlog` the number of leasable rows per
customer (which rows they are does not matter to the caps), and `granted`,
`weekly`, `lastGrant` a ledger kept by the model of what was really leased, by the
true day and week. `BeginClaim` is the read under `FOR UPDATE`, `CommitClaim` the
lease and the upsert; they are two actions because another transaction can run
between them when the counter row does not exist yet and nothing is locked.
Instants are ticks, days and weeks are numbered.

### Responses: state and code

`unit` is `work_unit.status`; `judged` counts the current `mention_judgment` rows of
a cell, each of which counts as a hit, so that it bounds what the cell can add to
the numerator of the SMR; `exec` is a call of `runResponse`. `BeginResponse` is the
read of the units with the skip of one that is done; `Generate` is the budget gate,
the cache and the provider, which end in an answer or in an error;
`MarkWorkUnitError`, `InsertJudgment` and `MarkWorkUnitDone` are the writes; `Throw`
is any other exception, which `runResponse` does not catch. Nothing puts two of the
writes into one transaction, so a step of another process fits between any two.
`cut` is a history variable: calls that ended between `InsertJudgment` and
`MarkWorkUnitDone`. Ok, cached and NOT_CONFIGURED answers take the same path and are
one value.

### OperatingCycle: state and code

`run` and `nTotal` are `run.status` and `run.n_total`, `advanced` the tiers whose
`rotation_state` has moved, `planner` the local state of `runCycle` (its `pc` names
the step it is at), `jobs` the `response.run` job of each cell, `agg` the
`cycle.aggregate` job with the local state of its handler. The poll loop is
`EndPoll` (a poll finds no pending unit) or `Deadline`; `CheckCounts` is the second
read of the counts with the choice of the final status; `AssembleReport` may throw.
`FinishRun` is the commit, after which the worker still has to ask for the kind of the run
and to enqueue its report (`EnqueueDelivery`): a crash or a throw there delivers the
aggregation again, on a run that has ended (`AggregateDies`, `RetriedAggregate`).
`FinishResponse` is the worker's handler: it rethrows `RetryableJobError` and
swallows everything else, so only the former is retried. `ExpireResponse` is
pg-boss giving up on a handler, which may still run for the units in `Slow` when its job is
delivered again. A `cycle.plan` job that dies is retried with a run
of its own, so one run has one planner. `agg.late` and `beside`, deliveries beside a handler
that still ran, are history variables.

`MeasureOnce` knows nothing of jobs and handlers. Its `plan` is the planner's once `n_total`
is written (`FrozenPlan`), `state` the unit's status with everything that is neither done
nor in error as open (`CellState`), `live` the judgments of a cell but for those of handlers
that were cut off (`Standing`), and `complete` a run completed by an aggregation that did
not give up waiting (`CompletedInTime`). A cell two handlers of which have run at once is `void`,
and nothing is promised of it; a complete run may be withdrawn (`Withdraw`), which is what an
aggregation does that is delivered again and fails. `ImplementsMeasureOnce` therefore
contains several promises at once: a done cell is never touched again, no second judgment is
written while one stands, nothing is measured outside the frozen plan, and after a report in
time only errors are made good, even if the report is withdrawn.

### BaselineRun: state and code

`proc` is one call of `runCycle` in a CI job, `todo` its remaining units, `stale`
whether `started_at` is older than `staleBeforeMs`. A process creates the run
(`CreateRun` to `StartRun`) or resumes it (`ResumeRun`, `SelectUnits`: the pending
units that the regenerated plan contains); then it takes its units one by one
(`SkipUnit`, `CarryForward`, `RunUnit`, in any order) and finishes. `Kill` stops it
anywhere; an exception that escapes `runCycle` leaves the same state behind.
`Regenerated` are the plans a later process may build from the then active questions: they
may keep, extend, overlap or replace the frozen one. `beyond` is what was pending when a
process resumed and is not in its own plan, `stranded` what was so in the process that
completed the run; both are history.

### RotationPlan: state and code

`cursor` is `rotation_state.last_cycle_index`, `cycles` the run count. `Scheduled` are
the tiers that are due, `Slice` the slice of a tier's questions that is measured.
`FailedCycle` is a cycle refused by preflight, or one whose handler dies after some
of the cursors have moved. `waiting` is a history variable: cycles since a question
was planned.

### RunMetrics and ReportDelivery: state and code

`Judgment` is a row of `current_judgment`, `SmrOverall` the view `run_smr_overall`, the
`...Evidence` operators the queries that list the rows behind a share. A share is its
numerator and its denominator; `VerifiableShare` is the gate that drops a figure that is
not one.

`aggregating` is the `cycle.aggregate` handler between its commit and its enqueue of
`report.deliver`, the gap of `worker.ts:541`; the query of the run's kind or the enqueue may
throw there (`EnqueueDelivery`, `ThrowAggregate`), as may the assembly of the report, which
fails the run (`AggregateFails`), and the job is delivered again or is dead (`FailAggregate`).
The planner ends a run itself when the budget refuses it or when it has no questions
(`PlanRun`), and then there is no aggregation. `Boot` finds any part of the missed runs,
since its errors are swallowed run by run and as a whole (`worker.ts:1049-1064`). `overlooked`
is history: deliveries given up by a process that stayed up, or by the catch-up. `pc` and `job` are the handler of
`report.deliver`: it reads the counts, the rows and the run it compares with by separate
queries (`counts`, `rows`, `against`), writes `snapshot`, looks for a `sent` row, sends,
and records. `emails` is what left, `lost` what left without a row, `raced` what passed
the check while another was sending; they are history, as is `stale`.

### BillingClose and SpendAndBill: state and code

`costDaily` is the view `cost_daily`, the only way the ledger is read; `SumOrNull` keeps
the difference between nothing and zero, on which the preflight turns; a sum is counted
cent by cent (`Total`), so that what is proved of it needs no induction over days. `close` is the
`billing.close` job with the local state of its handler; an invoice and its lines are
written one statement at a time. `work` is a handler of `response.run` between the gate,
the cache, the call and the two records; `seen` is `seenInRun` of its cache object and
`cache` the one row of `response_cache` that the samples of a question share. `torn`,
`collapsed`, `refused` and `blind` are history.

### ContentGates and ContentPipeline: state and code

A text is a set of significant words with a polarity, a body a set of spans that each
state one thing; what patterns and schemas find in a text is given with the draft
(`flaws`). The spans are what the gates' own `extractBodyText` returns; the metrics of a case
study are only in the text given to the extractor (`Prompted`). With that the gates are the code's own rules: what covers a number, a
superlative or a signal, when a claim is verified, what is a twin, and the fold into
`passed`, `needs_human` and `blocked`. `asset` holds the `content_asset` rows, `gen` the
generating process, `editor` the processes that gate again: `Program` lists the steps of
each kind in the order of the code, so that the rows, the sources and the verdict of one
of them can be of different times. `disturbed` is history.

### QuestionPlan and Templates: state and code

`QuestionPlan` is the arithmetic: Hamilton rounding over languages, stages and intents,
exact and near duplicates, guards, the core cap. `rows` is `industry_template`, `yaml` the
files, `asked` the active `question` rows, `gen` a `gen-template` process, `op` the command
of a member of staff in the CLI or the console. An activation is the transaction of two
updates (`ActionActive`, `TransactionFails`), the re-read, the file, its load and the
upserts, with a step of somebody else possible between any two. The file is that of the slug
given to the command, which may be any of `SlugArgs`, else of the customer of the row, else
of the industry (`ContextSlug`); `given` is history: the slug of the last activation.

### OwnedSite: state and code

`files` and `sitemap` are the disk; writing the sitemap is a truncation and a fill, as
`writeFile` does it. `call` is the connector call of a `publish.unit` handler up to the
registry mark and the enqueue of `publish.verify`; `verify` is that job with its retries;
`hub` the rebuild of the index page, which reads the published rows first and scans the
disk for others. `overlapped` is history: two calls were under way at once.

### KeyRotation: state and code

`_cursor` is the field of the adapter, `pc`, `round`, `attempt` and `idx` the local
variables of a call of `_call`: `AskFirst` begins a round, and the answer of a key is an
action of its own, since every `await` lets another call move the cursor. `tried` and
`overtaken` are history.

### The modules of operators

`SamplingPlan`, `Judge`, `Surfaces`, `Providers`, `Instruments`, `Intake`, `ContentBuild`,
`Pages`, `Records` and `Access` model code without interleavings of its own: a function of
its inputs, or a statement as a function from the rows before to the rows after. A text is
a sequence of the few kinds of words, lines or characters that the code tells apart; a
table is a set of rows with the columns that some statement looks at; a digest is what was
digested. `PureChecks` states what each algorithm promises, and where it does not keep what
a comment says, over all inputs of a small size.

## 3. Runs

| Run | Shows | Bounds |
|---|---|---|
| `DeployPipelineSafety` | at most one accepted publish per asset and no call after it, exclusive claims, the two tables agree, refinement of `PublishOnce` | 1 asset, 2 handlers, 2 jobs, 1 dispatcher, 1 retry, crashes, failed writes, redelivery, leases of any age, answers ok, permanent, released and thrown, dry and real |
| `DeployPipelineLeases` | no claim is left without a holder, no unapproved or undisclosed asset reaches a connector, every lease ends and an approved row is tried until it is settled, with lost enqueues, redelivered jobs and retryable answers but no crash of a handler | as above, real runs, answers ok and retryable |
| `PublishDispatchCaps` | daily and weekly cap, spacing, counters equal to the ledger | 1 customer, 2 dispatchers, 8 ticks over 3 days and 2 weeks, caps of 2 and 3 |
| `OperatingCycle` | a cell is counted once, jobs run under a frozen plan only, a run that ends in time is complete, what may still change afterwards, refinement of `MeasureOnce`, the aggregate job ends the run | 2 cells, none, or 1 whose handler outlasts its job, 2 handlers, 1 retry of each job, every fault |
| `BaselineRun` | the plan is executed in the end, and `completed` leaves nothing pending but what the resuming process's own plan no longer names | 2 planned cells and a third that appears later, regenerated plans equal, larger, overlapping and disjoint, 2 processes, 2 kills, every outcome of a unit |
| `IndependentParts` | rotation: every question is measured in each turn of its tier, a failed cycle costs one turn at most. Site: nothing listed dangles, calls that do not overlap list everything, verifications end. Templates: only reviewed questions are asked, the core cap, one active version, which is the one that is served. Keys: a call waits only once every key was limited, unless another call overtook it. It also evaluates the assumptions below | 1, 3 and 6 questions, 52 cycles, 2 failures; 2 publishes and 2 faults; 2 versions, 1 generation, 2 members of staff, activations with and without a slug, 1 death; 2 calls, 3 keys, 2 retries |
| `ReportDelivery` | e-mails are accounted for by jobs, crashes and races; shares agree with the rows listed under them; a completed run is reported | 1 run of one cell, 2 processes, 2 jobs, 1 retry of the aggregation, 2 crashes |
| `SpendAndBill` | caps are overshot by calls in flight at most; samples are distinct; the invoice is the ledger's month; its lines explain its total | 1 customer, 2 handlers, 3 days of which 2 make a month, 2 runs of 2 samples, 1 fault of the close |
| `ContentPipeline` | a passed asset is sourced and nobody's twin; spend stays within the ceiling; an asset whose sources are signed heals | 3 drafts in 2 languages, one a case study with a metric, 2 editors, 1 death or lost update |
| `ReportDeliverySecondMail` | violation: an e-mail whose row could not be inserted is sent again | 1 run, 1 process, 1 job, 1 retry, no crash |
| `ReportDeliveryDelta` | violation: the report compares a run with itself | 2 runs |
| `RotationPlanNever` | violation: with the index the callers use, nothing is ever planned | 4 cycles |

`RotationPlanNever` is an instance of `MCIndependentParts` with `IndexSupplied = FALSE`. Each
module's `TypeOK` is its type invariant. Section 5 says which of them are proved; the others,
those of `Templates`, `PublishOnce` and `MeasureOnce`, can be named in a configuration.

The pure algorithms are checked by named assumptions that TLC evaluates at the start of
`IndependentParts`, in `MCIndependentParts` and `PureChecks`. A name in the column
"differs" records where the code does something else than its comments say, or than another
part of the code does, as an equality that fails to hold exactly there; section 4 tells them.

| About | Holds | Differs |
|---|---|---|
| question matrix, throttle | `MatrixAddsUp`, `RoundingAddsUp`, `CoreIsCapped`, `CellsAreCapped`, `ClaimAgreesWithCanPublishNow` | |
| `SamplingPlan` | `PlansAreTrimmed` | `ShapeCapsOfPlans` |
| `Judge` | `JudgmentsAreGrounded`, `ScansAreMentions` | `JudgeDisagreements` |
| `Surfaces` | `SurfacesComply`, `SurfaceAnswersAreSound` | `SurfaceDisagreements` |
| `Providers` | `GroundingIsExact` | `ResultsAreSound`, `EnginesAgree`, `JudgesAndPrices` |
| `Instruments` | `RobotsAreObeyed`, `InstrumentsAreSound`, `CorrectionsAreSound` | `RobotsDisagreements` |
| `Intake` | `FetchesStayHome`, `DraftsBecomeTemplates` | `PagesAreRead`, `RobotsAreReadTwice`, `DiagnosisOfNothing`, `WeightsAreLost` |
| `ContentBuild` | `LanguagesAreAnswered`, `InsertedAreInBand` | `GenerationDisagreements`, `PunctuationCounts`, `HeadlinesAreCapped`, `StructuredDataIsShaped`, `BodiesAreRead`, `NamesAreRead`, `SuperlativesAreFound` |
| `Pages` | `PagesAreWhole`, `HeadlinesAreCut`, `AddressesAreSafe`, `WaysInAreOpen` | `PageDisagreements`, `AddressesStayDeferred` |
| `Records` | `UpsertsSettle`, `ReadsAreTheCustomers`, `TenantsAreApart`, `UnitsAreCounted`, `CurrentIsNewest`, `SeedsAreIdempotent`, `WeeksStartOnMondays`, `ChannelClaims`, `PagesAreFollowed` | `RecordDisagreements` |
| `Access` | `ChangesAreSeen`, `AnchorsSeeTheEnd`, `CookiesAreScoped`, `TenantsSeeTheirs`, `RoutesAnswer`, `OwnAnswersAreNotCached` | `ForksStay`, `AccessDisagreements`, `LinksAreBound`, `RunsAreGuarded`, `SurfacesNeedTwoRows`, `QueuesAreCreated` |

Why the bounds are enough. Assets share nothing in `DeployPipeline` but jobs,
handlers and dispatchers, and the properties speak of one asset at a time: one
asset with as many handlers and jobs as can race for it shows every
interleaving of interest (a second asset appears where a handler must choose).
Two handlers and two jobs give the lost claim, the overlap after a reaped lease
and the redelivery beside a running handler; one retry gives the retry and the
dead letter. In `PublishDispatch` the clock crosses two midnights and one
Monday, and the caps are such that two batches of one day, and batches of two
days, can exceed them. In `OperatingCycle` two cells are needed for a plan that is
half persisted, half enqueued or half measured, one retry for a cell that is measured
again while the other is aggregated; cells share only handlers and the counts, so one cell
is enough for two handlers on the same one (`Slow`). In
`BaselineRun` two kills give a run that is resumed, killed and resumed again; the
third cell gives plans that grow, plans that lose a cell and gain one, and plans that have
nothing in common with the frozen one. `RotationPlan` has a tier with one question, one whose slices are uneven
(3 questions in 2) and one with an empty last slice (6 in 4), and 52 cycles, a
year, are more than three turns of the longest rotation (16 cycles). In `ReportDelivery` two processes
and two jobs give two deliveries of one run side by side, of which one comes from the
catch-up or from an aggregation delivered again, and two crashes an e-mail sent before
its row and a job lost after the aggregate; a retry of `report.deliver` itself is in
`ReportDeliverySecondMail`; runs share nothing but the delta, which the
violation run compares over two. In `SpendAndBill` two handlers are one more than the cap
has room for, the weekly window is shorter than the monthly, and a month ends while calls
are in flight. In `ContentPipeline` two of the drafts are twins in one language, the
third needs a source that is signed late, and the ceiling falls between two calls. In
`OwnedSite` two calls and a page from before are enough to lose, to keep and to rebuild
an entry; in `Templates` two versions are enough for a demotion, and two commands for any
overlap of them. In `KeyRotation` two calls and three keys let one call move the cursor
twice within a round of the other.

What the passing runs assume, and why:

- `PublishDispatchCaps`: a counter row exists (`PublishedBefore`) and a dispatch ends
  on the day it began (`SpansMidnight = FALSE`). Without either the code overspends,
  see section 4.
- `DeployPipelineLeases`: no handler dies while it holds a claim, because nothing
  reaps `url_registry` rows left in `publishing`, and no connector answers THROTTLED.
  `ApprovedRowIsTried` excepts a row whose leases are overtaken for ever: each grows old
  while a job of the row waits or runs, or is taken when a handler is about to release the row.
- `OperatingCycle`: the properties except a cell two handlers of which ran side by side, in
  the measure in which they did (`beside`): the resume check and the final mark are two
  statements, and both handlers may judge the cell between them.
- `BaselineRun`: one process at a time works on a resumed run (`OneAtATime`). The
  guard on `started_at` protects only the process that created the run; the weekly
  schedule does the rest, and a manual dispatch in between is not excluded by the code.
- `RotationPlan`: the caller supplies the run count (`IndexSupplied`). No caller of this
  commit does; what the code does as it is wired is the run `RotationPlanNever` and the
  theorem `UncountedCyclesMeasureNothing`.
- `ReportDelivery`: the handler is passed to the worker (`Wired`). In `src/index.ts` it is
  not, and nothing is ever delivered, see section 4. `CompletedRunIsReported` speaks of runs
  that an aggregation completed; one without questions is completed by the planner, and only
  the catch-up of a boot delivers its report. `MaxJobs` is the number of deliveries that may
  be enqueued for a run.
- `SpendAndBill`: one subscription row and a ledger read through `cost_daily` only, as in
  `src/index.ts`; each job has a cache object of its own. `OvershootIsBounded` excepts the
  new customer whose other window is full (`blind`).
- `ContentPipeline`: siblings can be read. When they cannot, a draft is gated without them.
  `PassedIsSourced` speaks of the text that the gates read.
- `Templates`: `ActiveIsServed` excepts what follows an activation that died or overlapped
  another. An activation that died cannot be repeated, since its row is active already.
- `OwnedSite`: `LoneCallsListAll` speaks of calls that did not overlap.
- `KeyRotation`: `WaitsWhenAllAreLimited` excepts a round during which another call was
  answered; without the exception it is what the comment says, and fails (section 4).

### Fairness

`FairSpec` of `DeployPipeline` assumes that a handler that can go on does (Node runs
its continuations); that the cron starts a dispatch again and again
(`worker.ts` schedules `publish.dispatch` daily); that time passes; that pg-boss
hands every waiting job to some handler and notices dead processes; and that a
row which is leasable again and again is leased in the end. The last is strong fairness
and rests on `ORDER BY created_at` in the claim, together with a throttle
budget that is renewed every day. People and gates (`QueueForDeploy`, `ReGate`,
`Approve`), faults and crashes are not fair: they may never happen.

`FairSpec` of `OperatingCycle` asks for weak fairness of the aggregate handler and
its delivery only: its loop has a deadline of its own, so no other actor needs to
move. `FairSpec` of `BaselineRun` assumes that a process that is not killed goes on,
that the weekly workflow starts one again and time passes (weak fairness), that a
regenerated plan has something left to do again and again, and that preflight does
not refuse for ever, since budgets are renewed (strong fairness of `SelectSome` and
`Preflight`). Kills are bounded by `MaxKills`.

`Spec` of `ReportDelivery` has weak fairness of a process that is up, of pg-boss handing
out jobs and of restarts: `CompletedRunIsReported` says that under it a completed run
has a snapshot and a mail, or a job among the dead letters, or was failed by an aggregation
delivered again, or was overlooked, or its worker was down for longer than the catch-up
looks back. A run is overlooked when its aggregation gave up the enqueue and its process
stayed up, so that no boot looks for it, or when the boot that looked swallowed an error. `PartsSpec` of `IndependentParts` takes the
fairness of `OwnedSite`: a connector call goes on, and pg-boss delivers a
`publish.verify` job. Nothing else in these modules needs any.

## 4. Findings

Shown by a violation run:

- A job of `report.deliver` whose e-mail left and whose `sent` row could not be inserted
  mails the report again when it is retried, although `deliver.ts:251-252` says of the look
  for that row that it avoids just this, and `deliver.ts:141-142` that the unique constraints
  prevent a double send (`deliver.ts:250`); run `ReportDeliverySecondMail`.
- The week-over-week change of a report compares the run with itself: the query for the
  previous run does not exclude the run that is reported (`deliver.ts:174-178`,
  `repo.ts:3549-3557`); run `ReportDeliveryDelta`.
- No caller of `runCycle` supplies a cycle index, the default is 0, and so is the
  cursor of a tier without a row: operating cycles plan nothing (`runCycle.ts:327`,
  `plan.ts:263`, `repo.ts:1670`). Baselines do not use the rotation; run `RotationPlanNever`.

Reproduced by a change of constants:

- The index of a key is computed from the shared cursor anew for every attempt, so a call
  that another overtakes can ask a limited key twice and wait without having asked the one
  that is free (`gemini.ts:204`), although its comment speaks of a wait "once every key is
  rate-limited in the same round": `EveryKeyBeforeWaiting` under `Spec` of `KeyRotation` with
  two calls, three keys and `RL_MAX_RETRIES = 1`.
- An aggregation that reaches its deadline does not mark the run failed, as its comment
  says, but completed (`runCycle.ts:1057`): `TimedOutIsNotCompleted` under `Spec` of
  `MCOperatingCycle`, with `Answers = {"answered"}` and no `Faults`.
- A baseline killed between its last unit and `finishRun` stays `running` for ever
  (`repo.ts:873`, `runCycle.ts:922`): `RunIsFinished` as the property of `BaselineRun.cfg`.
- THROTTLED after a won claim leaves the slot `publishing` for ever
  (`publishUnit.ts:470`): `NoOrphanClaim` with `"throttled"` among the `Outcomes` of
  `DeployPipelineLeases.cfg`. No connector of this commit answers THROTTLED, but the
  interface and its handling are there.
- The first claim of a customer locks nothing, so two dispatchers spend the day twice
  (`repo.ts:2638`): `CapsHold` with `PublishedBefore = FALSE`.
- The window is computed once per dispatch, and a dispatch that spans midnight resets
  the counter (`dispatch.ts:182`): `CapsHold` with `SpansMidnight = TRUE`.
- Two processes that resume one run measure its cells twice (`repo.ts:890`):
  `CountedOnce` with `OneAtATime = FALSE` in `BaselineRun`.
- A customer whose last row of `cost_daily` is older than the window is refused, as if
  the ledger could not be read (`index.ts:170`, `budget.ts:258-270`): `IdleIsNotRefused` of
  `SpendAndBill`. The reader of `cli/diagnose.ts` falls back on `llm_call` and does not.
- A number nobody extracted as a claim passes when a signed source has its value, whatever
  its unit (`claimVerification.ts:32-34`): `UnextractedIsHeld` of `ContentPipeline`.
- A question dropped by an edit is asked for ever: `upsertQuestion` never deactivates
  (`materialize.ts`): `FileIsWhatIsAsked` of `Templates`.
- Overlapping publishes lose sitemap entries, and nothing restores them
  (`ownedNet.ts:585`): `PublishedIsListed` of `OwnedSite`.
- The attempt number of `publish.verify` is the constant 1, so the branch that settles
  the status is unreachable (`verifyIndexing.ts:104`): `ExhaustedIsSettled` of `OwnedSite`.

Found while modelling, without a property of their own:

- Publishing. A redelivered job puts a published row back to `queued` (`publishUnit.ts:205`),
  and so does the retry of a job whose retryable answer had queued the row when the next
  dispatch published it, or one that crashed when the row was queued again. From there every
  dispatch leases the row, spends budget on it and loses the claim, for ever: nothing is
  published twice (`NoCallAfterAccept`), but the row never says so again. A handler that is
  late may likewise overwrite `published` with `failed`, since `markDeployStatus` has no
  condition. A handler that has read its row publishes it even if a gate turns meanwhile.
- Aggregation. A crash, or a throw of the enqueue, after `finishRun` has committed delivers
  `cycle.aggregate` again; if the report cannot be assembled then, the completed run turns
  `failed` (`runCycle.ts:1101`), although `runCycle.ts:1012-1013` says that the aggregation
  runs exactly once, "enforced by the singletonKey on the cycle.aggregate job"
  (`MeasureOnce` has `Withdraw` for it).
- Handlers side by side. A handler that outlasts its job is joined by a second one for the
  same cell, and both may judge it (`runResponse.ts:187`), which adds to the numerator
  although `runCycle.ts` says that it "can never exceed the frozen n_total" (`beside` in
  `CountedOnce`).
- Baselines. A baseline resumed after a question was deactivated completes and strands the
  pending units of that question (`runCycle.ts:440`); the code avoids this only when nothing
  at all is left in common (`stranded` in `CompletedExecutesItsPlan`).
- Report delivery. `src/index.ts` never passes `handlers.reportDeliver`; where an enqueue of
  `report.deliver` fails for good the process stays up, and nothing delivers the report before
  the next boot, whose catch-up swallows its errors (`worker.ts:1049-1064`); the e-mail is
  rendered from a second read of the figures and not from the snapshot; a failed run is
  delivered by the worker and never caught up at boot; the denominator of the priority
  gap is the rows judged, that of the shares the planned units.
- Billing. `start()` creates no queue for `billing.close` or its dead letters
  (`queue.ts:179-195`); `monthOverride` of the payload is ignored; an error of one customer
  is swallowed; the subscription's status is never read; a month on whose first day the
  worker was down is never closed; no payment provider is passed.
- Cost. A new customer whose week is empty passes with a month that is full
  (`assertWithinCapOrNew`); an expired cache row is never refreshed (`ON CONFLICT DO
  NOTHING`); judge calls are not checked, although `budget.ts:17` says they are; a call
  whose handler dies before its record is in no sum; the alerts, shape caps and plan
  estimates of `src/cost` have no production caller.
- Content. The CLI gates again without the brand's aliases, gates assets of every status,
  and does not keep the claims it verified; sign-off from the CLI does not check whose
  source it is; the metrics of a case study are given to the extractor and read by no gate
  (`verifiableNumbers.ts:186-187`), so a number there that is not extracted passes, although
  `verifiableNumbers.ts:412-418` speaks of a scan of the full body text of all content types;
  a signed source that says "best" covers "best ever" (`verifiableNumbers.ts:233`); two sign-offs at once lose an update (`approvals.ts:148-150`); an asset
  that stops passing keeps its place in the queue; a failed load of the siblings lets
  twins pass; an answer block that names claim ids is blocked for ever
  (`claimExtract.ts:265`); no production caller inserts a claim source.
- Templates. A late review takes the active version back (`updateTemplateStatus` goes by
  id); an activation that dies leaves the old file in place and cannot be repeated, and one
  given a slug of its own leaves the old version in the file of the row's customer; the
  file of a demoted version may be written last; two generations that draw one version
  number lose the later one with what it cost; `dedup.ts` says that it keeps the longest
  text and keeps the first.
- Owned site. A process that dies between truncation and fill leaves an empty sitemap,
  although `ownedNet.ts:212` says that published pages are kept; a failed mark leaves the
  row `publishing`, which verification passes over; the dead letters are
  `DLQ_PUBLISH_UNIT`, where `worker.ts` says `DLQ_PUBLISH_VERIFY`.
- Measurement. `PlannerDies`: a planner that dies after `n_total` leaves its run `running`
  beside the one of the retried job (`runCycle.ts:616`).

Recorded by an assumption of `PureChecks`:

- Shape caps (`ShapeCapsOfPlans`). `maxSamples` never caps a plan, and a baseline keeps
  more languages than `maxLanguages` unless all weigh the same, although `budget.ts:7-9`
  says that caps are enforced when the matrix is built; `assertShapeCaps` has no caller.
- Judge (`JudgeDisagreements`). An empty quote around a slice that names the brand costs
  the mention; a judgment that escalates does not report its first call, nor any when the
  escalation throws, although the usage is "Non-null whenever a judge LLM call was actually
  attempted". A recommendation needs no citation, against MENTION ⊇ CITATION ⊇ RECOMMENDATION;
  the judge's word counts for both although the comment says not to trust it alone; its
  rank is not verified.
- Surfaces (`SurfaceDisagreements`, `SurfacesNeedTwoRows`). A search parser that "NEVER
  throws" throws on a null block; titles of links are judged as prose; a paid search call
  without an answer is not recorded. No client exists, so nobody is asked today. An enabled
  `model` row makes a surface a chat model too (planned twice), a disabled one, as it is
  seeded, leaves the worker without an adapter; `googleAiMode` has no row.
- Providers (`ResultsAreSound`, `EnginesAgree`, `JudgesAndPrices`). A call stopped by its
  timer returns code 20 and not TIMEOUT; an empty completion is an answer on OpenAI-compatible
  engines and an error on Gemini; two patterns of rate limits differ on glued phrases;
  `JUDGE_PROVIDER` may name a ready surface, which has no `judge()`; `sonar` is priced 0 in
  one table and 1 USD per million tokens in the other.
- Robots (`RobotsDisagreements`, `RobotsAreReadTwice`). A blank line between an agent and
  its rules drops the rules; an empty disallow does not end a list of agents. The other
  reader takes an empty disallow for everything and knows no allow.
- Intake (`PagesAreRead`, `DiagnosisOfNothing`, `WeightsAreLost`). Nested tags of one name
  leave their end; a page that was not fetched is diagnosed all the same; the weights that
  `materialize.ts:347` expects are left out by `buildBriefSnapshot`, so that every
  materialised template weighs its languages alike.
- Content (`GenerationDisagreements`, `BodiesAreRead`, `NamesAreRead` and the four beside
  them). The code returned is the last failure's, not "the first error code encountered";
  NOT_CONFIGURED drops the usage so far; nobody checks that an item has the format it was
  asked for; punctuation is counted; a headline has 121 characters; metrics of a case study
  are read by no gate; spans are measured in labelled text and compared in unlabelled; a
  number in a brand's name blocks its structured data; only the first occurrence of a
  superlative is looked at. The JSON-LD builders have no production caller.
- Pages (`PageDisagreements`, `AddressesStayDeferred`). A line with one bar gets into a
  "pipe-free" description; a CJK terminator ends no sentence unless a blank follows;
  truncation returns one unit too many; two questions may share an anchor; a page keeps its
  first date; published JSON-LD keeps its deferred address (`resolveOwnedHubUrl` has no
  caller).
- Rows (`RecordDisagreements`, `SeedsAreIdempotent`, `ChannelClaims`). `run_smr_overall`
  counts mentions of cached answers that `judged_ok` leaves out; `upsertSurfaceScanQueue`
  without `enabled` turns an enabled surface off against "preserves operator config", and
  `upsertSubscription` undoes a cancellation; a call without a run is no prior call;
  overlapping seedings insert twice; `claimNextDeployBatch`, without a caller, charges the
  bucket of nobody.
- Access (`ForksStay`, `AccessDisagreements`, `LinksAreBound`, `RunsAreGuarded`,
  `QueuesAreCreated`). Two appends that overlap fork the audit chain for ever; a logout
  whose delete fails leaves the cookie valid, against "After this the cookie value no longer
  authenticates"; a member of staff with a `customer_id` passes `requireCustomerScope`;
  `verifyReportToken` throws without a secret, where its comment says null; the free
  diagnosis counts a visit before it knows that it can serve it; `start()` creates no queue
  for `billing.close` and its dead letters.

Seen beside them, without a statement: the writer and the verifier of the audit chain hash
differently (the comment defers it), and only the report page records audit rows, where
`securityAudit.ts` speaks of every security-relevant decision; `registerGenerateRoutes` has
no caller; `POST /diagnose` fixes the judge that `index.ts` resolves, and `index.ts` passes
no `isNewCustomer`; `ALLOW_DEV_REPORT_SECRET=false` is coerced to true (`env.ts`), and
`env.ts` reads `LLAMA_GROQ_API_KEY` where the registry reads `GROQ_API_KEY`; two visitors of
the web page start a full baseline each while none has completed; a citation older than its
watch is "not yet cited"; `materialize.ts` writes its file before it loads it;
`generateQuestionsForLanguage` drops what a failed call cost; `assertGlobalGate` compares
one estimate with the global cap; `finishRun` and the marks of a work unit have no guard.

Smaller observations: a dry run can mark a row `failed` (`publishUnit.ts:227`, `509`)
although `publishUnit.ts:428` says that it never strands a row; the "non-binding"
estimate of `dispatch.ts:214` skips a channel for everybody when the generic bucket is
spent; a retryable connector error puts the row back to `queued` before the retry, so
the retry is a no-op and the row waits for the next dispatch; `min_interval_minutes`
spaces batches and not rows; `dispatch.ts:49-55` says that dry runs consume budget,
`repo.ts:2741-2744` makes sure they do not; `'unpublished'` is a legal queue status
that nothing writes; `worker.ts:484-486` says that a permanent failure has been marked
by the handler, which holds for provider and budget errors only, so a unit whose
handler threw anything else stays pending until the aggregation gives up; the budget
error of one unit ends a resumed baseline as `over_budget`, after which its pending
units are never resumed.

## 5. Proofs

Each theorem is stated under the name of the property that a run checks, for every value
of the constants that the module's assumption admits; where it has a hypothesis of its
own, that is given below. Every proof has the same shape: an inductive invariant, one lemma
for each part of it that an action can disturb, and a last step that combines them. The
invariants that involve more than types were checked by TLC before they were proved.

### DeployPipelineProofs

For any sets of assets, handlers, dispatchers and job slots, any number of retries, any
outcomes and any combination of faults:

- `TypeCorrect`: `Spec => []TypeOK`.
- `SlotsAreSafe`: `Spec => []SlotInv`, the inductive invariant, and from it `PublishedAtMostOnce`
  (`NoDoublePublish`), `CallsNeverOverlap` (`SlotExclusive`) and
  `PublishedRowsAreBacked` (`PublishedRowIsBacked`).
- `CallsAreAuthorised`: `Spec => []CallIsAuthorised`.
- `PipelineRefinesPublishOnce`: `Spec => ImplementsPublishOnce`.
- `ClaimsAreSettled`: `NothingStops => (Spec => []NoOrphanClaim)`.
- `AcceptedIsNotCalledAgain`: `Spec => []NoCallAfterAccept`.

`NoDoublePublish` is not inductive: nothing in it stops a handler from being at
its connector call for an asset that has been published. `SlotInv` adds what the
code relies on: a handler between its won claim and the registry update really
holds the slot (`SlotHeld`), no other handler does (`SlotExclusive`), an accepted
publish never frees its slot (`AcceptedKeepsSlot`), and a handler's place in the
code tells whether the asset has been published (`OutcomeKnown`). The argument is
then short: a claim needs a free slot, so its winner is alone and nothing has been
accepted yet; only the winner settles the slot; and it frees the slot only if
nothing was accepted. A crash leaves the slot taken, which is safe, and an orphan: that is
why `ClaimsAreSettled` has the hypothesis `NothingStops`, which excludes crashes, failed
writes and an answer THROTTLED, and leaves redelivery, retries and lost enqueues.

`AcceptedIsNotCalledAgain` has no hypothesis: a published row may be put back to `queued`
(section 4), be leased and offered to a handler again, and still the claim is lost, because
an accepted publish keeps its slot (`AcceptedKeepsSlot`), and a handler at its call of the
connector knows that nothing has been accepted yet (`OutcomeKnown`).

### PublishDispatchProofs

For any customers, dispatchers, clock, policies of a day and a week, and any failures:
`TypeCorrect` without further hypothesis; `CapsAlwaysHold`, `CountersAlwaysMatch` and
`BatchesKeepApart` (`CapsHold`, `CountersMatchLedger`, `BatchesAreSpaced`) under `Settled`: the
counter rows exist, a dispatch ends on the day it began, and the caps are positive. Without
the first two the code overspends (section 4). A cap of zero is excluded because the
model's history begins with one row a week ago. `BudgetInv` carries the argument. The
window that a dispatcher computed once is still today's; a dispatcher inside the transaction holds
the lock of the customer whose counter it read, so that `row` is still the row; and the
counter is the ledger's (`CounterOk`) or is one of an earlier day, which the code resets.

The throttle is written twice, as `canPublishNow` in TypeScript and inside the claim of
`repo.ts` in SQL. `ClaimsFollowThePureCheck` says that for every counter row and every instant the
claim leases something just when `canPublishNow` would allow a publish (`ClaimAgreesWithCanPublishNow`
of the run `IndependentParts` evaluates this on small inputs; the theorem has no hypothesis). `BatchesAreOneByOne` is about batches: with
`MinInterval = 0` and a row that is not of a later day or week, a claim takes the `k`-th row of
its batch just when `canPublishNow` would have allowed it after the `k - 1` before it had been
counted. With a positive interval a batch is one event, and nothing of the kind holds.

### OperatingCycleProofs

For any finite set of cells and any plans, tiers, handlers and retry limits:

- `TypeCorrect`: `Spec => []TypeOK`, under any faults.
- `PlanIsFrozen`: `Spec => []MeasuredUnderFrozenPlan`, under any faults.
- `CompletedRunsAreComplete`: `Spec => []CompletedIsComplete`, under any faults.
- `CellsAreCountedOnce`: `Spec => []CountedOnce`, under any faults.
- `DoneStaysDone`, `LateJudgmentsAreRetries`: `Spec => DoneIsFinal`,
  `Spec => OnlyRetriesComeLate`, under any faults.
- `CycleRefinesMeasureOnce`: `Spec => ImplementsMeasureOnce`, under any faults.

`PlanInv` strengthens the frozen plan with what each step of `runCycle` leaves to the
next: no unit exists before `n_total` is set, units come from the plan, the planner
enqueues only when all of them are there, and a handler works on a unit that has a
job, so the writes of a handler never create a unit. `CountInv` says why a cell is
counted once: a handler that may still judge its cell has one judgment to give (`Fresh`), there
is one such handler unless another was delivered beside it, which `beside` counts, and none
starts on a cell that is done; what has been judged is covered by the cell being done, by a
handler about to mark it, or by one cut off. `AloneInv` says the same of cells
whose handlers never ran side by side, exactly: one handler, which does not start when the
cell is done. `DoneIsFinal` then follows: the one write that could take
back a done cell, `markWorkUnitError`, comes from a handler whose cell is not done.
`EndInv` is about the end of the run: the planner is through before a run can end, no cell
becomes pending again, and an aggregation that has left its poll loop in time has seen
none. A judgment that comes after such a report is one of a handler that has not
returned, whose cell is neither done nor pending, hence in error.

The refinement takes all of these and two invariants more. `LiveInv` makes the count exact
for cells that are not void: the judgments of a cell are those of handlers cut off, and one more where the cell is done
or a handler is about to mark it, so a new judgment meets a cell without one, and a handler
that is cut off at its mark writes off the one there is. `FreezeInv` says that `n_total` is
written once and the plan stays, that a run with an aggregate job has a unit for each cell of
its plan, and how a run can be completed. A second handler beside a running one maps to
`Void`, an aggregation that fails a run it had completed to `Withdraw`. Each step of the planner, the handlers and the
aggregation then maps to one action of `MeasureOnce` or to none.

### BaselineRunProofs

For any cells, plans, number of processes and kills: `TypeCorrect`, and
`CompletedRunsExecuteTheirPlan` (`CompletedExecutesItsPlan`), without a hypothesis about the
plans or the number of processes at work at once. Step 2b of `runCycle` intersects the plan of
today with the pending cells; what it leaves out a process remembers in `beyond`. `CreateInv` says that
nobody else touches a run that is being created, and that its
cells are those of one plan; `WorkInv` that a process that has met no error has every pending
cell before it, in hand (`InHand`) or beyond its plan, so that it finds nothing else pending
when it is done.

The steps of `runResponse` are treated in lemmas of the same wording here and in
`OperatingCycleProofs`: the two specifications share the module `Responses` and nothing else,
and each file can be read and checked alone.

### IndependentPartsProofs

About each of the four specifications by itself (`Key!Spec`, `Own!Spec`, `Tpl!Spec` and the
`Spec` of `RotationPlan`), and about operators that `PureChecks` evaluates on small inputs:

- Keys. `EveryKeyIsAsked` (`WaitsWhenAllAreLimited`) for any number of calls, of keys (at
  least one) and of retries. `RoundInv`: while nobody moves the cursor, the keys tried in a
  round are those at the offsets counted so far, and as many offsets as keys meet each once.
- Site. `NothingEverDangles` and `LoneCallsAlwaysListAll` for any assets, handlers, retries
  and faults. `WrittenInv`: whatever is written anywhere was read from the disk or is the
  page of a call that has written it. `LoneInv`: while one call is at work, what the sitemap lacks
  is what that call holds.
- Templates. `OnlyReviewedIsEverAsked`, `ActiveIsAlwaysServed` and the action property
  `ActiveIsOnlyReplaced` for any questions, edits, staff, versions and crashes. `ReviewInv`
  follows the questions of a version from review through the re-read and the file to what
  is asked; `OneActive` rests on the transaction; `ServedInv` says how far an activation has
  come, step by step, and for which file (`SlugOf`).
- Rotation. `UncountedCyclesMeasureNothing`: with the index that the callers of `runCycle` use
  no question is ever measured, for any questions, number of cycles and failures, because no
  cursor ever is a period behind. The lemmas `EveryQuestionIsCovered` and
  `FailuresCostOneRound` say what `plan.ts` and `rotation.ts` would give a caller that supplies
  the run count (`CoveredEachRound`, `FailureCostsOneRound`): `TurnInv` bounds how long a
  question has waited by the slices its cursor has passed since it was measured, and by one
  turn for each failure.
  The period and the number of slices of a tier are those of the code.
- Audit chain (`Access`), for logs of any events and any length, digests being equal only when
  what they digest is. `HeadFixesTheLog`: two logs that verify and end with the same hash are
  the same log, so nothing can be edited, dropped or moved without another head.
  `LoneWritersKeepOrder`: a writer that nobody overlaps leaves a log that verifies if it found
  one. `ForksNeverVerify`: two rows with the same `prev_hash`, which two overlapping calls of
  `recordSecurityAudit` leave, keep a log from ever verifying again; its comment calls the verifier
  tolerant of concurrent inserts and, in the same sentence, a fork a broken link, and it is the
  latter. `AnchorsSeeEveryChange`: against a list in order from its genesis, `detectTruncation`
  says ok just when the list goes on from the anchored one, and truncated just when it is
  shorter. They rest on `HashSpells` and `EntrySpells`, that a hash spells the events up to its
  row, shown by the first row where it would not.
- Tables (`Records`). `UpsertsSettle`: for any table, key and row, an upsert keeps the unique
  index, leaves one row under the key and all others as they were, and changes nothing
  when it is repeated. `TenantsAreApart`: a customer who signs a claim or approves a row by an
  id changes nothing of another's; it needs that an id is that of one row, because the check of
  the owner and the statement are two reads by the same id.

### ContentPipelineProofs

For any drafts, sources, prices, ceilings, editors and faults: `PipelineTypes`,
`PassedStaysSourced` (`PassedIsSourced`), `TwinsNeverBothPass` (`NoTwinsPass`),
`SpendStaysBounded` (`SpendIsBounded`) and `SignaturesHeal` (`SignedAssetsHeal`). An editor
judges with rows and sources that it read earlier, so the invariants speak of what it
holds: `SourcedInv` of the claims in the rows it has read as well as of the stored ones,
which is enough because sources are signed and never unsigned. `TwinsInv` needs no more
than itself, since the verdict of an asset is taken with the siblings read in the same
step. `SpendInv` is the ceiling and one call: a call is made while the ceiling is not
exceeded. `CalmInv` is the argument for healing: while nothing has been disturbed, at most
one process judges, what it has read is fresh, and an asset that waits would be held again,
or is in the hands of that process.

### SpendAndBillProofs

For any customers, handlers (finitely many), calendars, caps, prices and scopes, whatever
dies and whenever:

- `MoneyTypes`: `Spec => []TypeOK`.
- `SamplesStayDistinct` (`SamplesAreDistinct`) if each job has a cache object of its own
  (`PerJobCache`, which is how `index.ts` wires it). `CacheInv`: an answer in the cache was
  written after its run began, and a job takes none that was written after its own did.
- `OvershootStaysBounded` (`OvershootIsBounded`). `BudgetInv` adds to what the ledger holds what the
  handlers may still record: together they stay below the cap plus the dearest unit of
  each handler, because a handler adds its exposure when it finds the sum below the cap,
  and a record moves exposure into the ledger. It needs that a unit has a bounded price,
  that there are finitely many handlers, and that a week is no longer than a month, which
  lets a row leave both windows in the right order.
- `InvoicesMatchLedger` (`InvoiceMatchesLedger`). `InvoiceInv` says the same of a draft on its
  way to an invoice, and `ClosedMonthStays` that the sum of a month that is over does not
  move, for rows are entered under the day they are written.
- `LinesAddUp` (`LinesExplainTotal`). `LinesInv` says which lines are there while the close
  is between them, and that an invoice nobody writes on is explained or was torn.

### ReportDeliveryProofs

`EmailsStayAccounted` (`EmailsAreAccounted`) for any runs, processes (finitely many), retries,
crashes and jobs. The property counts e-mails that have left; `MailInv` also counts the
handlers that have passed the check for a `sent` row and will send, come what may: of all
of these, one is covered by the row, or by one of the handlers on their way, and each other
has been noted as lost or raced.

`SnapshotsAlwaysAddUp` (`SnapshotAddsUp`) for any questions, models and competitors, finitely
many, and any verdicts that keep what the guardrails guarantee: an abstention has no mention
and a downgraded row is an abstention. A sum is counted element by element (`Total`), so
that a breakdown adds up because its parts are disjoint and cover the whole
(`PartsAddUp`, by bijections), without induction over data. `OneReadAddsUp` says that the
figures of any set of judgments add up; `ReadInv` that what a handler has read is what the
run shows now, or adds up by itself, or is marked as torn: a judgment that arrives between
the two reads of a handler marks it, one that arrives before or after both does not matter.

`TypeCorrect`: `Spec => []TypeOK`. The run that a report is compared with is the largest
of the earlier ones; that there is one, and that it is a run, follows from `<` being
well-founded on the numbers (`LargestBelow`).

### What TLC alone checks

- Liveness (`LeaseReleased`, `ApprovedRowIsTried`, `RunEnds`, `PlanIsExecuted`, `VerifyEnds`,
  `CompletedRunIsReported`): it needs fairness and `ENABLED`, which the prover does not handle.
- The assumptions of `PureChecks`, but for those on the audit chain and the tables that are
  proved above: the operators are folds and recursive functions over sequences, and what they
  yield for every input is again an induction over data.
- The type of `Templates`: the questions of a version come from a fold over the intake.

## 6. What is left out, and the plan

Not modelled: the text of e-mails and prompts, and regular expressions (what they find is
given with a text); HTTP clients below the classes of their results; confidence intervals,
significance tests and square roots, which are real arithmetic; components of the web
console below what they read and which actions they call; scripts and command-line
parsing; columns that carry content and that no decision reads. The modules of operators
cover code without interleavings of its own, over small inputs; the statements of `repo.ts`
that do interleave are actions of the detailed modules. The modules of the measurement follow one run, and
nothing in the code links a run to the next but the rotation cursors, the budget and the
report's comparison.

Next, in this order:

1. An abstract specification of a close that bills a month once, with its refinement, beside
   `PublishOnce` and `MeasureOnce`.
2. The type invariant of `Templates` as a theorem.
3. More of `repo.ts` and of the console's actions, where they interleave with the modelled
   handlers; the console's billing page reads only.
