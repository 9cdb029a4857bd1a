------------------------------- MODULE Records -------------------------------
(***************************************************************************)
(* The tables of src/db/schema.ts and what the statements of               *)
(* src/db/repo.ts read from them and do to them. A table is a set of rows, *)
(* a row keeps the columns some statement looks at: the others are carried *)
(* along and never decide anything. An id that the database makes up is    *)
(* new. A list is the set of its rows; its order is kept where a limit     *)
(* cuts it. NULL is "null" for a name and 0 for a date or a number.        *)
(***************************************************************************)
EXTENDS Integers, Sequences, FiniteSets, FiniteSetsExt, SequencesExt

CONSTANTS Customers, \* their names; "null" is not one
          Words,     \* names, texts, hashes and identifiers
          Dates      \* points in time, all positive

NULL == "null"
OrNull(names) == names \cup {NULL}
OrNever == Dates \cup {0}

Tiers == {"core", "secondary", "longtail"}
Modalities == {"chat", "serp", "scrape"}

-----------------------------------------------------------------------------
(* The statements the query builder makes. *)

\* WHERE, as the equality of some columns.
Where(table, key) == {row \in table : \A column \in DOMAIN key : row[column] = key[column]}

\* A row with some cells set.
With(row, cells) ==
    [column \in DOMAIN row |-> IF column \in DOMAIN cells THEN cells[column] ELSE row[column]]

\* UPDATE ... SET ... WHERE
Update(table, key, cells) ==
    {IF row \in Where(table, key) THEN With(row, cells) ELSE row : row \in table}

\* INSERT ... ON CONFLICT (key) DO NOTHING, and ... DO UPDATE SET
InsertNew(table, key, row) == IF Where(table, key) = {} THEN table \cup {row} ELSE table
Upsert(table, key, row, cells) ==
    IF Where(table, key) = {} THEN table \cup {row} ELSE Update(table, key, cells)

\* ORDER BY ... DESC LIMIT 1: any of the rows that nothing is newer than.
Newest(table, column) == {row \in table : \A other \in table : other[column] <= row[column]}

\* A unique index.
OneRowPer(table, columns) ==
    \A r, s \in table : (\A column \in columns : r[column] = s[column]) => r = s

-----------------------------------------------------------------------------
(* Customers and what describes them. *)

CustomerRow == [slug: Words]
BrandRow == [customer: Customers, name: Words, aliases: SUBSET Words]
CompetitorRow == [customer: Customers, name: Words, aliases: SUBSET Words]
QuestionRow == [customer: Customers, text: Words, language: Words, tier: Tiers,
                active: BOOLEAN]
ModelRow == [id: Words, modality: Modalities, cheap: BOOLEAN, judge: BOOLEAN,
             enabled: BOOLEAN]
BudgetRow == [customer: Customers, models: Nat, samples: Nat, languages: Nat,
              weekly: Nat, monthly: Nat]
LanguageRow == [customer: Customers, language: Words, weight: Nat]

UpsertCustomer(customers, slug) == InsertNew(customers, [slug |-> slug], [slug |-> slug])
FindCustomerBySlug(customers, slug) == Where(customers, [slug |-> slug])

UpsertBrand(brands, row) ==
    Upsert(brands, [customer |-> row.customer, name |-> row.name], row,
           [aliases |-> row.aliases])
FindBrandsByCustomer(brands, c) == Where(brands, [customer |-> c])

UpsertCompetitor(competitors, row) ==
    Upsert(competitors, [customer |-> row.customer, name |-> row.name], row,
           [aliases |-> row.aliases])
FindCompetitorsByCustomer(competitors, c) == Where(competitors, [customer |-> c])

\* No tier asked for is every tier.
FindActiveQuestions(questions, c, tiers) ==
    {q \in Where(questions, [customer |-> c, active |-> TRUE]) : tiers = {} \/ q.tier \in tiers}

UpsertModel(models, row) == Upsert(models, [id |-> row.id], row, row)
FindEnabledModels(models) == Where(models, [enabled |-> TRUE])

\* A model nobody knows is a chat model.
GetModelModality(models, id) ==
    LET row == Where(models, [id |-> id])
    IN IF row = {} THEN "chat" ELSE (CHOOSE m \in row : TRUE).modality

\* The caps on content are not among the cells that are written.
UpsertBudget(budgets, row) == Upsert(budgets, [customer |-> row.customer], row, row)
FindBudget(budgets, c) == Where(budgets, [customer |-> c])

UpsertCustomerLanguage(languages, row) ==
    Upsert(languages, [customer |-> row.customer, language |-> row.language], row, row)
FindCustomerLanguages(languages, c) == Where(languages, [customer |-> c])

-----------------------------------------------------------------------------
(* Templates *)

TemplateRow == [id: Words, industry: Words, version: Nat \ {0},
                status: {"draft", "reviewed", "active"}, reviewer: OrNull(Words),
                reviewedAt: OrNever]

GetIndustryTemplate(templates, id) == Where(templates, [id |-> id])
ListIndustryTemplates(templates, industry) == Where(templates, [industry |-> industry])
GetLatestActiveTemplate(templates, industry) ==
    Where(templates, [industry |-> industry, status |-> "active"])

\* The reviewer is written with the status, and with none given nobody reviewed it.
UpdateTemplateStatus(templates, id, status, reviewer, now) ==
    Update(templates, [id |-> id],
           IF status = "draft"
           THEN [status |-> status, reviewer |-> NULL, reviewedAt |-> 0]
           ELSE [status |-> status, reviewer |-> reviewer, reviewedAt |-> now])

-----------------------------------------------------------------------------
(* Runs and their units *)

RunRow == [id: Words, customer: Customers, kind: {"baseline", "operating"},
           status: {"planned", "running", "completed", "failed", "over_budget"},
           total: Nat, plannedAt: Dates, finishedAt: OrNever]
WorkUnitRow == [run: Words, question: Words, model: Words, language: Words, sample: Nat,
                status: {"pending", "done", "skipped", "error"}, response: OrNull(Words)]
RotationStateRow == [customer: Customers, tier: Tiers, cursor: Nat]

\* A run that is over may be finished again, with another end.
FinishRun(runs, id, status, now) ==
    Update(runs, [id |-> id], [status |-> status, finishedAt |-> now])

FindRun(runs, id) == Where(runs, [id |-> id])
FindLatestRun(runs, c) == Newest(Where(runs, [customer |-> c]), "plannedAt")
FindLatestCompletedBaselineRun(runs, c) ==
    Newest(Where(runs, [customer |-> c, kind |-> "baseline", status |-> "completed"]),
           "plannedAt")

UnitKey(unit) == [run |-> unit.run, question |-> unit.question, model |-> unit.model,
                  language |-> unit.language, sample |-> unit.sample]

\* A unit that is skipped or fails keeps the response it had.
MarkWorkUnitDone(units, unit, response) ==
    Update(units, UnitKey(unit), [status |-> "done", response |-> response])
MarkWorkUnitSkipped(units, unit) == Update(units, UnitKey(unit), [status |-> "skipped"])
MarkWorkUnitError(units, unit) == Update(units, UnitKey(unit), [status |-> "error"])

SliceOf(unit) == [model |-> unit.model, language |-> unit.language,
                  question |-> unit.question]
CountWorkUnitsBySlice(units, run) ==
    LET planned == Where(units, [run |-> run])
    IN [slice \in {SliceOf(u) : u \in planned} |-> Cardinality(Where(planned, slice))]
CountWorkUnitsByStatus(units, run) ==
    [status \in {"pending", "done", "skipped", "error"} |->
        Cardinality(Where(units, [run |-> run, status |-> status]))]

ReadRotationState(states, c, tier) ==
    LET row == Where(states, [customer |-> c, tier |-> tier])
    IN IF row = {} THEN 0 ELSE (CHOOSE s \in row : TRUE).cursor

-----------------------------------------------------------------------------
(* Answers, judgments and what they cost *)

ResponseCacheRow == [hash: Words, answer: Words, createdAt: Dates]
ResponseRawRow == [id: Words, run: Words, customer: Customers, answer: OrNull(Words),
                   status: {"ok", "not_configured", "error", "cached"}]
MentionJudgmentRow ==
    [response: Words, run: Words, customer: Customers,
     status: {"ok", "not_configured", "error", "cached"}, mentioned: BOOLEAN, rank: Nat,
     citation: BOOLEAN, recommendation: BOOLEAN,
     guardrail: {"pass", "downgraded_abstain"}, at: Dates]
LlmCallRow == [customer: OrNull(Customers), run: OrNull(Words),
               purpose: {"generation", "judge"}, at: Dates]
CostDailyRow == [customer: OrNull(Customers), day: Dates, usd: Nat]

LookupResponseCache(cache, hash) == Where(cache, [hash |-> hash])

\* The first answer stays.
InsertResponseCache(cache, hash, answer, now) ==
    InsertNew(cache, [hash |-> hash], [hash |-> hash, answer |-> answer, createdAt |-> now])

InsertResponseRaw(raws, row) == raws \cup {row}
FindResponseRaw(raws, id) == Where(raws, [id |-> id])

\* Judgments are added and never changed; the two channels default to absent.
InsertJudgment(judgments, row, channels) ==
    judgments \cup {With(row, [citation |-> "citation" \in channels,
                               recommendation |-> "recommendation" \in channels])}
FindAllJudgments(judgments, response) == Where(judgments, [response |-> response])

\* The view: for each response one of its newest judgments.
CurrentJudgmentView(judgments) ==
    {view \in SUBSET judgments :
        \A r \in {j.response : j \in judgments} :
            /\ Cardinality(FindAllJudgments(view, r)) = 1
            /\ FindAllJudgments(view, r) \subseteq Newest(FindAllJudgments(judgments, r), "at")}
FindCurrentJudgment(view, response) == Where(view, [response |-> response])
FindCurrentJudgmentsForRun(view, run) == Where(view, [run |-> run])

\* The view of a run; reciprocal ranks are counted in sixtieths, rank 0 is none.
RunSmrOverallRow(view, run) ==
    LET passed == Where(view, [run |-> run, guardrail |-> "pass"])
        hits == Where(passed, [mentioned |-> TRUE])
    IN [judgedOk |-> Cardinality(Where(passed, [status |-> "ok"])),
        brandHits |-> Cardinality(hits),
        invRankSum |-> MapThenSumSet(LAMBDA j : 60 \div j.rank, {j \in hits : j.rank # 0}),
        citationHits |-> Cardinality(Where(hits, [citation |-> TRUE])),
        recommendationHits |-> Cardinality(Where(hits, [recommendation |-> TRUE]))]
FindRunSmrOverall(view, run) ==
    IF FindCurrentJudgmentsForRun(view, run) = {} THEN {} ELSE {RunSmrOverallRow(view, run)}

\* SQL compares nothing with NULL: with a run to leave out, a call of no run is left
\* out too.
CustomerHasPriorLlmCall(calls, c, excluded) ==
    \E call \in Where(calls, [customer |-> c]) :
        excluded # NULL => call.run \notin {NULL, excluded}

FindCostDailyRows(days, c, since) == {d \in Where(days, [customer |-> c]) : d.day >= since}

-----------------------------------------------------------------------------
(* Content and its claims *)

ContentSetRow == [id: Words, customer: OrNull(Customers)]
ContentAssetRow == [id: Words, customer: OrNull(Customers), channel: Words,
                    gate: {"pending", "passed", "blocked", "needs_human"}]
ClaimSourceRow == [id: Words, customer: Customers, text: Words,
                   kind: {"numeric", "capability", "superlative", "comparative"},
                   source: {"customer_attested", "public_url", "third_party_doc"},
                   signedBy: OrNull(Words), signedAt: OrNever]

InsertClaimSource(claims, row) == claims \cup {row}

\* The word list; a number beside the word does not spare it.
IsSuperlativeAttribute(attribute) == attribute.superlative

\* Attributes as they are listed, each with the text it folds to. What exists is read
\* once, before the first insert. newIds are the ids the database gives out.
SeedClaimSourcesFromBrief(existing, c, attributes) ==
    FoldLeft(LAMBDA texts, a :
                 IF a.blank \/ IsSuperlativeAttribute(a) \/ a.text \in Range(texts)
                            \/ Where(existing, [customer |-> c, text |-> a.text]) # {}
                 THEN texts ELSE Append(texts, a.text),
             <<>>, attributes)
Seeded(claims, c, texts, newIds) ==
    claims \cup {[id |-> newIds[i], customer |-> c, text |-> texts[i], kind |-> "capability",
                  source |-> "customer_attested", signedBy |-> NULL, signedAt |-> 0] :
                     i \in DOMAIN texts}

\* Signing a row that is not there is an error.
SignClaimSource(claims, id, by, now) ==
    [ok |-> Where(claims, [id |-> id]) # {},
     claims |-> Update(claims, [id |-> id], [signedBy |-> by, signedAt |-> now])]

\* A row nobody owns, a row of somebody else and a row that is not there look alike.
Owned(table, id, c) ==
    \E row \in Where(table, [id |-> id]) : row.customer # NULL /\ row.customer = c
SignClaimSourceForCustomer(claims, id, c, by, now) ==
    IF Owned(claims, id, c) THEN SignClaimSource(claims, id, by, now)
    ELSE [ok |-> FALSE, claims |-> claims]

-----------------------------------------------------------------------------
(* The deploy queue, its throttle and the pages that are out *)

ContentDeployQueueRow ==
    [asset: Words, channel: Words,
     status: {"queued", "leased", "published", "failed", "unpublished"},
     createdAt: Dates, leasedAt: OrNever, attempts: Nat, approvedBy: OrNull(Words)]
ChannelThrottleRow == [channel: Words, perDay: Nat, perWeek: Nat, interval: Nat,
                       enabled: BOOLEAN]
ChannelThrottleStateRow ==
    [customer: OrNull(Customers), channel: Words, window: Dates, count: Nat,
     week: OrNever, weekCount: Nat, last: OrNever]
UrlRegistryRow ==
    [id: Words, asset: Words, channel: Words, customer: OrNull(Customers),
     status: {"publishing", "published", "dry_run", "failed", "unpublished"},
     indexing: {"unknown", "submitted", "indexed", "not_indexed"},
     firstSeen: OrNever, publishedAt: OrNever]

FindDeployQueueEntriesForAsset(queue, asset) == Where(queue, [asset |-> asset])

\* An approval through the console, asked by the owner of the asset only.
ApproveDeployRow(queue, asset, by) ==
    {IF q.asset = asset /\ q.status \in {"queued", "leased"}
     THEN [q EXCEPT !.approvedBy = by] ELSE q : q \in queue}
ApproveDeployRowForCustomer(queue, assets, asset, c, by) ==
    IF Owned(assets, asset, c) THEN ApproveDeployRow(queue, asset, by) ELSE queue

\* Midnight and the last Monday; a date counts hours from midnight of a Sunday.
CurrentWindowStart(now) == 24 * (now \div 24)
CurrentWeekStart(now) ==
    LET day == now \div 24
        weekday == day % 7
    IN 24 * (IF weekday = 0 THEN day - 6 ELSE day + 1 - weekday)

ReadThrottlePolicy(policies, channel) == Where(policies, [channel |-> channel, enabled |-> TRUE])
ReadThrottleState(states, c, channel) == Where(states, [customer |-> c, channel |-> channel])

\* Counters of another window start again.
Charged(states, c, channel, window, week, now, n) ==
    LET fresh == [customer |-> c, channel |-> channel, window |-> window, count |-> n,
                  week |-> week, weekCount |-> n, last |-> now]
        Later(s) == [fresh EXCEPT !.count = IF s.window = window THEN s.count + n ELSE n,
                                  !.weekCount = IF s.week = week THEN s.weekCount + n ELSE n]
    IN IF ReadThrottleState(states, c, channel) = {} THEN states \cup {fresh}
       ELSE (states \ ReadThrottleState(states, c, channel))
            \cup {Later(s) : s \in ReadThrottleState(states, c, channel)}

UpsertThrottleStateIncrement(states, c, channel, window, now, week) ==
    Charged(states, c, channel, window, week, now, 1)

\* How many rows a claim may take: none without a policy, past a cap or too soon.
ClaimLimit(policies, states, c, channel, limit, window, now) ==
    LET policy == CHOOSE p \in ReadThrottlePolicy(policies, channel) : TRUE
        counted == ReadThrottleState(states, c, channel)
        today == SumSet({s.count : s \in {t \in counted : t.window >= window}})
        week == SumSet({s.weekCount :
                           s \in {t \in counted : t.week # 0 /\ t.week >= CurrentWeekStart(now)}})
        tooSoon == \E s \in counted :
                      policy.interval > 0 /\ s.last # 0 /\ now < s.last + policy.interval
        left == Min({limit, policy.perDay - today, policy.perWeek - week})
    IN IF ReadThrottlePolicy(policies, channel) = {} THEN 0
       ELSE IF tooSoon \/ left < 0 THEN 0 ELSE left

\* The claim for a whole channel: the oldest rows that are approved, passed and not
\* locked by another claim, whoever owns them. It is charged to the bucket of nobody,
\* unless it is a dry run, which leases and charges nothing.
ClaimNextDeployBatch(queue, assets, policies, states, channel, limit, now, dryRun, locked) ==
    LET window == CurrentWindowStart(now)
        room == ClaimLimit(policies, states, NULL, channel, limit, window, now)
        ready == {q \in Where(queue, [channel |-> channel, status |-> "queued"]) \ locked :
                     q.approvedBy # NULL /\ Where(assets, [id |-> q.asset, gate |-> "passed"]) # {}}
        n == Min({room, Cardinality(ready)})
    IN {[queue |-> (queue \ batch) \cup {[q EXCEPT !.status = "leased", !.leasedAt = now,
                                                   !.attempts = @ + 1] : q \in batch},
         states |-> IF n = 0 \/ dryRun THEN states
                    ELSE Charged(states, NULL, channel, window, CurrentWeekStart(now), now, n),
         claimed |-> batch] :
            batch \in {b \in kSubset(n, ready) :
                          \A q \in b, other \in ready \ b : q.createdAt <= other.createdAt}}

\* A dry run's row does not take the slot.
InsertUrlRegistryDryRun(urls, row) ==
    urls \cup {With(row, [status |-> "dry_run", publishedAt |-> 0])}
FindUrlRegistryRow(urls, id) == Where(urls, [id |-> id])

\* The first time a page is seen indexed is kept.
UpdateIndexingStatus(urls, id, indexing, now) ==
    {IF u.id # id THEN u
     ELSE [u EXCEPT !.indexing = indexing,
                    !.firstSeen = IF indexing = "indexed" /\ @ = 0 THEN now ELSE @] : u \in urls}

\* Of everybody when no customer is named.
ListPublishedUrlsForMonitoring(urls, c, since) ==
    {u \in Where(urls, [status |-> "published"]) :
        (c # NULL => u.customer = c) /\ (since # 0 => u.publishedAt >= since)}

-----------------------------------------------------------------------------
(* Surfaces *)

SurfaceScanQueueRow == [surface: Words, modality: {"serp", "scrape"}, scrape: BOOLEAN,
                        enabled: BOOLEAN, nextRun: OrNever, lastRun: OrNever]

\* A search surface is never scraped. What the caller leaves out is off, and due never;
\* when the row is there this is written over it.
UpsertSurfaceScanQueue(surfaces, s) ==
    LET row == [surface |-> s.surface, modality |-> s.modality,
                scrape |-> s.modality # "serp" /\ s.scrape # "no",
                enabled |-> s.enabled = "yes", nextRun |-> s.nextRun, lastRun |-> 0]
    IN Upsert(surfaces, [surface |-> s.surface], row,
              [modality |-> row.modality, scrape |-> row.scrape, enabled |-> row.enabled,
               nextRun |-> row.nextRun])

FindSurfaceScanQueue(surfaces, surface) == Where(surfaces, [surface |-> surface])
FindEnabledSurfaces(surfaces) == Where(surfaces, [enabled |-> TRUE])
MarkSurfaceRanAt(surfaces, surface, lastRun, nextRun) ==
    Update(surfaces, [surface |-> surface], [lastRun |-> lastRun, nextRun |-> nextRun])

-----------------------------------------------------------------------------
(* Reports and bills *)

SubscriptionRow == [customer: Customers, tier: Words,
                    status: {"trialing", "active", "paused", "canceled"},
                    startedAt: Dates, periodEnd: Dates, cancelAtEnd: BOOLEAN]
InvoiceRow == [customer: Customers, periodStart: Dates, periodEnd: Dates,
               status: {"draft", "issued", "paid", "void"}]
InvoiceLineRow == [id: Words, invoice: Words, kind: {"base", "overage", "human_ops", "vat"},
                   amount: Nat]
ReportSnapshotRow == [id: Words, customer: Customers, run: Words, weekStart: Dates]
ReportDeliveryRow == [snapshot: Words, recipient: Words, status: {"sent", "failed"}]

ListReportSnapshots(snapshots, c) == Where(snapshots, [customer |-> c])
GetReportSnapshot(snapshots, id) == Where(snapshots, [id |-> id])
FindReportSnapshotByRunId(snapshots, run) == Where(snapshots, [run |-> run])

GetSubscription(subscriptions, c) == Where(subscriptions, [customer |-> c])

\* The start of a subscription stays; a cancellation that is not passed again is undone.
UpsertSubscription(subscriptions, row, cancel) ==
    LET written == With(row, [cancelAtEnd |-> cancel = "yes"])
    IN Upsert(subscriptions, [customer |-> row.customer], written,
              [tier |-> written.tier, status |-> written.status,
               periodEnd |-> written.periodEnd, cancelAtEnd |-> written.cancelAtEnd])
CancelAtPeriodEnd(subscriptions, c) ==
    Update(subscriptions, [customer |-> c], [cancelAtEnd |-> TRUE])

ListInvoices(invoices, c) == Where(invoices, [customer |-> c])
InsertInvoiceLine(lines, row) == lines \cup {row}
ListInvoiceLines(lines, invoice) == Where(lines, [invoice |-> invoice])

=============================================================================
