---------------------------- MODULE ReportDelivery ----------------------------
(***************************************************************************)
(* From the aggregate of an operating run to the weekly e-mail: the        *)
(* cycle.aggregate handler finishes the run and enqueues report.deliver    *)
(* (src/scheduler/worker.ts), deliverReport assembles the figures, keeps   *)
(* them as a snapshot and sends them once (src/report/deliver.ts), and the *)
(* boot catch-up looks for completed runs without a snapshot.              *)
(*                                                                         *)
(* One customer, whose runs are numbered in the order they are planned.    *)
(* Times are only compared with the times runs are planned at: the clock   *)
(* advances when a run is planned, and what ends before the next planning  *)
(* ends on one tick. A process runs one report.deliver handler and one     *)
(* cycle.aggregate handler at a time (batchSize 1).                        *)
(***************************************************************************)
EXTENDS RunMetrics

CONSTANTS
    Runs,         \* 1..n
    Procs,        \* worker processes
    Verdicts,     \* the judgments a cell can receive
    Wired,        \* TRUE: handlers.reportDeliver is injected at start
    CATCH_UP_WEEKS, \* how far back the boot catch-up looks
    RetryLimit,   \* retries of a report.deliver job
    AggRetries,   \* retries of a cycle.aggregate job
    MaxJobs,      \* report.deliver jobs ever enqueued for a run (bound)
    MaxCrashes,   \* crashes of a process (bound)
    None

ASSUME DeliveryAssumption ==
    /\ Runs \subseteq Nat
    /\ Wired \in BOOLEAN /\ CATCH_UP_WEEKS \in Nat
    /\ RetryLimit \in Nat /\ AggRetries \in Nat /\ MaxJobs \in Nat /\ MaxCrashes \in Nat
    /\ Verdicts \subseteq Judgment
    \* _abstain and evidenceRequiredGate both clear the mention of what they abstain from.
    /\ \A v \in Verdicts : v.provenance = "abstain" => ~v.mentioned
    /\ \A v \in Verdicts : v.guard = "downgraded_abstain" => v.provenance = "abstain"
    /\ None \notin Runs /\ None \notin [run : Runs, n : Nat, left : Nat]
    /\ IsFiniteSet(Procs)

VARIABLES
    status,      \* run.status; "none" before the run is planned
    plannedAt, finishedAt,
    clock,
    judged,      \* current_judgment of each run
    aggJob,      \* the cycle.aggregate job of each run
    aggLeft,     \* its retries left
    aggregating, \* the run whose aggregate a process has committed
    jobs,        \* report.deliver jobs waiting: run, number, retries left
    enqueued,    \* report.deliver jobs enqueued for each run so far
    dead,        \* runs with a job in the dead-letter queue
    overlooked,  \* history: runs whose delivery was given up by a process that stayed up
    pc, job,     \* the report.deliver handler of each process
    counts, rows, against,  \* what it has read
    snapshot,    \* report_snapshot, one row per run
    sent,        \* runs with a 'sent' report_delivery row
    owner,       \* whether an owner's e-mail address is on file
    up,          \* processes that are running
    crashes,
    emails,      \* history: e-mails that left, per run
    lost,        \* history: e-mails that left without a 'sent' row
    raced,       \* history: handlers that passed the check while another was sending
    stale        \* history: a row was written while the handler was reading

runVars == <<status, plannedAt, finishedAt, clock, judged>>
jobVars == <<aggJob, aggLeft, aggregating, jobs, enqueued, dead, overlooked>>
readVars == <<counts, rows, against, stale>>
vars == <<runVars, jobVars, pc, job, readVars, snapshot, sent, owner, up, crashes, emails, lost, raced>>

Statuses == {"none", "running", "completed", "failed", "over_budget"}
Finished == {"completed", "failed", "over_budget"}
Steps == {"idle", "reading", "snapshotting", "checking", "sending", "recording"}
Job == [run : Runs, n : 1..MaxJobs, left : 0..RetryLimit]

TypeOK ==
    /\ status \in [Runs -> Statuses]
    /\ plannedAt \in [Runs -> Nat] /\ finishedAt \in [Runs -> Nat] /\ clock \in Nat
    /\ \A r \in Runs : DOMAIN judged[r] \subseteq Cells
    /\ aggJob \in [Runs -> {"none", "ready", "active", "done", "dead"}]
    /\ aggLeft \in [Runs -> 0..AggRetries]
    /\ aggregating \in [Procs -> Runs \cup {None}]
    /\ jobs \subseteq Job /\ enqueued \in [Runs -> 0..MaxJobs] /\ dead \subseteq Runs
    /\ overlooked \subseteq Runs
    /\ pc \in [Procs -> Steps] /\ job \in [Procs -> Job \cup {None}]
    /\ against \in [Procs -> Runs \cup {None}]
    /\ DOMAIN snapshot \subseteq Runs /\ sent \subseteq Runs
    /\ owner \in BOOLEAN /\ up \subseteq Procs /\ crashes \in 0..MaxCrashes
    /\ emails \in [Runs -> Nat] /\ lost \in [Runs -> Nat]
    /\ raced \in [Runs -> Nat]

Init ==
    /\ status = [r \in Runs |-> "none"]
    /\ plannedAt = [r \in Runs |-> 0] /\ finishedAt = [r \in Runs |-> 0] /\ clock = 0
    /\ judged = [r \in Runs |-> <<>>]
    /\ aggJob = [r \in Runs |-> "none"] /\ aggLeft = [r \in Runs |-> AggRetries]
    /\ aggregating = [p \in Procs |-> None]
    /\ jobs = {} /\ enqueued = [r \in Runs |-> 0] /\ dead = {} /\ overlooked = {}
    /\ pc = [p \in Procs |-> "idle"] /\ job = [p \in Procs |-> None]
    /\ counts = [p \in Procs |-> None] /\ rows = [p \in Procs |-> None]
    /\ against = [p \in Procs |-> None] /\ stale = [p \in Procs |-> FALSE]
    /\ snapshot = <<>> /\ sent = {} /\ owner \in BOOLEAN
    /\ up = Procs /\ crashes = 0
    /\ emails = [r \in Runs |-> 0] /\ lost = [r \in Runs |-> 0]
    /\ raced = [r \in Runs |-> 0]

RunOf(p) == job[p].run

\* A job is sent to the queue unless one of its singleton key is waiting there.
Send(r) ==
    IF \/ \E j \in jobs : j.run = r
       \/ enqueued[r] = MaxJobs
    THEN UNCHANGED <<jobs, enqueued>>
    ELSE /\ jobs' = jobs \cup {[run |-> r, n |-> enqueued[r] + 1, left |-> RetryLimit]}
         /\ enqueued' = [enqueued EXCEPT ![r] = @ + 1]

\* pg-boss fails a job: it waits for a retry, or is dead-lettered.
Fail(j) ==
    IF j.left > 0
    THEN /\ jobs' = jobs \cup {[j EXCEPT !.left = @ - 1]}
         /\ UNCHANGED dead
    ELSE /\ dead' = dead \cup {j.run}
         /\ UNCHANGED jobs

-----------------------------------------------------------------------------
(* The operating cycle, as far as the report sees it.                      *)

\* The planner starts a run and enqueues its aggregate; or it ends the run itself, one
\* that the budget refuses or one without questions, and there is no aggregate.
PlanRun(r) ==
    /\ status[r] = "none"
    /\ \A s \in Runs : s < r => status[s] # "none"
    /\ plannedAt' = [plannedAt EXCEPT ![r] = clock + 1]
    /\ clock' = clock + 2
    /\ \/ /\ status' = [status EXCEPT ![r] = "running"]
          /\ aggJob' = [aggJob EXCEPT ![r] = "ready"]
          /\ UNCHANGED finishedAt
       \/ /\ \E s \in {"over_budget", "completed"} : status' = [status EXCEPT ![r] = s]
          /\ finishedAt' = [finishedAt EXCEPT ![r] = clock + 2]
          /\ UNCHANGED aggJob
    /\ UNCHANGED <<judged, aggLeft, aggregating, jobs, enqueued, dead, overlooked,
                   pc, job, readVars, snapshot, sent, owner, up, crashes, emails, lost, raced>>

\* A response is judged, before the aggregate or after it gave up waiting.
CellJudged(r, c, v) ==
    /\ aggJob[r] # "none"
    /\ c \notin DOMAIN judged[r]
    /\ judged' = [judged EXCEPT ![r] = [d \in DOMAIN @ \cup {c} |-> IF d = c THEN v ELSE @[d]]]
    /\ stale' = [p \in Procs |->
                   stale[p] \/ (/\ pc[p] = "reading" /\ RunOf(p) = r
                                /\ (counts[p] # None) # (rows[p] # None))]
    /\ UNCHANGED <<status, plannedAt, finishedAt, clock, jobVars, pc, job, counts, rows,
                   against, snapshot, sent, owner, up, crashes, emails, lost, raced>>

\* runCycleAggregate: all units are terminal, or the wait is over. The run fails only
\* when every unit that ended did; with units still pending it completes.
FinalStatuses(r) ==
    IF status[r] = "over_budget" THEN {"over_budget"}
    ELSE IF judged[r] = <<>> THEN {"completed", "failed"}
    ELSE {"completed"}

Aggregate(p, r) ==
    /\ p \in up /\ aggregating[p] = None
    /\ aggJob[r] = "ready"
    /\ \E s \in FinalStatuses(r) : status' = [status EXCEPT ![r] = s]
    /\ finishedAt' = [finishedAt EXCEPT ![r] = clock]
    /\ aggJob' = [aggJob EXCEPT ![r] = "active"]
    /\ aggregating' = [aggregating EXCEPT ![p] = r]
    /\ UNCHANGED <<plannedAt, clock, judged, aggLeft, jobs, enqueued, dead, overlooked, pc, job, readVars,
                   snapshot, sent, owner, up, crashes, emails, lost, raced>>

\* pg-boss fails the aggregate of r: it is delivered again, or is dead.
FailAggregate(r) ==
    IF aggLeft[r] > 0
    THEN /\ aggJob' = [aggJob EXCEPT ![r] = "ready"]
         /\ aggLeft' = [aggLeft EXCEPT ![r] = @ - 1]
    ELSE aggJob' = [aggJob EXCEPT ![r] = "dead"] /\ UNCHANGED aggLeft

\* The handler of the aggregate of r throws. The process stays up, so that no boot
\* looks for what was missed.
ThrowAggregate(r) ==
    /\ FailAggregate(r)
    /\ overlooked' = IF aggLeft[r] > 0 THEN overlooked ELSE overlooked \cup {r}

\* assembleReport throws and the run, which may have been complete, is failed; or a
\* query throws.
AggregateFails(p, r) ==
    /\ p \in up /\ aggregating[p] = None
    /\ aggJob[r] = "ready"
    /\ \/ /\ status' = [status EXCEPT ![r] = "failed"]
          /\ finishedAt' = [finishedAt EXCEPT ![r] = clock]
       \/ UNCHANGED <<status, finishedAt>>
    /\ ThrowAggregate(r)
    /\ UNCHANGED <<plannedAt, clock, judged, aggregating, jobs, enqueued, dead, pc, job, readVars,
                   snapshot, sent, owner, up, crashes, emails, lost, raced>>

\* The worker enqueues the delivery of any operating run, whatever its status,
\* provided that the handler was injected.
WantsDelivery(r) == Wired

\* After the committed aggregate: enqueue the delivery, and the job is done. The query
\* of the run's kind, or the enqueue, may throw.
EnqueueDelivery(p) ==
    /\ p \in up /\ aggregating[p] # None
    /\ LET r == aggregating[p] IN
         \/ /\ aggJob' = [aggJob EXCEPT ![r] = "done"]
            /\ IF WantsDelivery(r) THEN Send(r) ELSE UNCHANGED <<jobs, enqueued>>
            /\ UNCHANGED <<aggLeft, overlooked>>
         \/ /\ WantsDelivery(r)
            /\ ThrowAggregate(r)
            /\ UNCHANGED <<jobs, enqueued>>
    /\ aggregating' = [aggregating EXCEPT ![p] = None]
    /\ UNCHANGED <<runVars, dead, pc, job, readVars, snapshot, sent, owner, up, crashes,
                   emails, lost, raced>>

-----------------------------------------------------------------------------
(* deliverReport                                                           *)

Start(p, j) ==
    /\ Wired /\ p \in up /\ pc[p] = "idle"
    /\ j \in jobs
    /\ jobs' = jobs \ {j}
    /\ job' = [job EXCEPT ![p] = j]
    /\ pc' = [pc EXCEPT ![p] = "reading"]
    /\ UNCHANGED <<runVars, aggJob, aggLeft, aggregating, enqueued, dead, overlooked, readVars,
                   snapshot, sent, owner, up, crashes, emails, lost, raced>>

\* assembleReport reads the totals and the rows by separate queries, in any order.
Counts(r) == SmrOverall(judged[r])

Rows(r) ==
    [hits |-> SmrEvidence(judged[r]),
     citations |-> CitationEvidence(judged[r]),
     recommendations |-> RecommendationEvidence(judged[r]),
     visible |-> VisibilityEvidence(judged[r]),
     slices |-> Decomposition(judged[r]),
     gaps |-> PriorityGap(judged[r]),
     voices |-> VerifiedSov(judged[r]),
     abstained |-> AbstainCount(judged[r])]

ReadCounts(p) ==
    /\ pc[p] = "reading" /\ counts[p] = None
    /\ counts' = [counts EXCEPT ![p] = Counts(RunOf(p))]
    /\ UNCHANGED <<runVars, jobVars, pc, job, rows, against, stale, snapshot, sent, owner, up,
                   crashes, emails, lost, raced>>

ReadRows(p) ==
    /\ pc[p] = "reading" /\ rows[p] = None
    /\ rows' = [rows EXCEPT ![p] = Rows(RunOf(p))]
    /\ UNCHANGED <<runVars, jobVars, pc, job, counts, against, stale, snapshot, sent, owner, up,
                   crashes, emails, lost, raced>>

\* findPreviousOperatingRun: the latest completed run planned before a date. The
\* comparison is left out when the report of that run cannot be assembled.
Candidates(before) == {s \in Runs : status[s] = "completed" /\ plannedAt[s] < before}

PreviousOperatingRun(before) ==
    IF Candidates(before) = {} THEN None
    ELSE CHOOSE s \in Candidates(before) :
           \A t \in Candidates(before) : plannedAt[t] <= plannedAt[s]

\* referenceDate: the end of the run when it has one.
ReferenceDate(r) == IF status[r] \in Finished THEN finishedAt[r] ELSE plannedAt[r]

FindPrevious(p) ==
    /\ pc[p] = "reading" /\ counts[p] # None /\ rows[p] # None
    /\ \E s \in {PreviousOperatingRun(ReferenceDate(RunOf(p))), None} :
         against' = [against EXCEPT ![p] = s]
    /\ pc' = [pc EXCEPT ![p] = "snapshotting"]
    /\ UNCHANGED <<runVars, jobVars, job, counts, rows, stale, snapshot, sent, owner, up,
                   crashes, emails, lost, raced>>

Report(p) == [counts |-> counts[p], rows |-> rows[p], against |-> against[p], torn |-> stale[p]]

\* insertReportSnapshot does nothing on a run that has one.
KeepSnapshot(p) ==
    /\ pc[p] = "snapshotting"
    /\ snapshot' = IF RunOf(p) \in DOMAIN snapshot THEN snapshot
                   ELSE [r \in DOMAIN snapshot \cup {RunOf(p)} |->
                           IF r = RunOf(p) THEN Report(p) ELSE snapshot[r]]
    /\ pc' = [pc EXCEPT ![p] = "checking"]
    /\ UNCHANGED <<runVars, jobVars, job, readVars, sent, owner, up, crashes, emails, lost, raced>>

\* The handler of p ends and forgets what it has read.
Finish(p) ==
    /\ pc' = [pc EXCEPT ![p] = "idle"]
    /\ job' = [job EXCEPT ![p] = None]
    /\ counts' = [counts EXCEPT ![p] = None] /\ rows' = [rows EXCEPT ![p] = None]
    /\ against' = [against EXCEPT ![p] = None] /\ stale' = [stale EXCEPT ![p] = FALSE]

\* Mutation: the e-mail is sent again when a job of its run is retried.
NoAddress(r) == ~owner

\* resolveRecipient and the look for a 'sent' row: no address, or sent already.
NothingToSend(r) == ~owner \/ r \in sent

Sending(r) == Cardinality({p \in Procs : pc[p] \in {"sending", "recording"} /\ RunOf(p) = r})

CheckDelivery(p) ==
    /\ pc[p] = "checking"
    /\ IF NothingToSend(RunOf(p)) THEN Finish(p) /\ UNCHANGED raced
       ELSE /\ pc' = [pc EXCEPT ![p] = "sending"]
            /\ raced' = [raced EXCEPT ![RunOf(p)] = @ + Sending(RunOf(p))]
            /\ UNCHANGED <<job, readVars>>
    /\ UNCHANGED <<runVars, jobVars, snapshot, sent, owner, up, crashes, emails, lost>>

SendEmail(p) ==
    /\ pc[p] = "sending"
    /\ emails' = [emails EXCEPT ![RunOf(p)] = @ + 1]
    /\ pc' = [pc EXCEPT ![p] = "recording"]
    /\ UNCHANGED <<runVars, jobVars, job, readVars, snapshot, sent, owner, up, crashes, lost, raced>>

\* A read, a write or the sink fails; of the sink a 'failed' row is kept for audit.
\* The job is failed, and an e-mail that left before it has no 'sent' row.
StepFails(p) ==
    /\ pc[p] # "idle"
    /\ Fail(job[p])
    /\ lost' = IF pc[p] = "recording" THEN [lost EXCEPT ![RunOf(p)] = @ + 1] ELSE lost
    /\ Finish(p)
    /\ UNCHANGED <<runVars, aggJob, aggLeft, aggregating, enqueued, overlooked, snapshot, sent,
                   owner, up, crashes, emails, raced>>

\* The 'sent' row; on a conflict nothing is inserted.
RecordSent(p) ==
    /\ pc[p] = "recording"
    /\ sent' = sent \cup {RunOf(p)}
    /\ Finish(p)
    /\ UNCHANGED <<runVars, jobVars, snapshot, owner, up, crashes, emails, lost, raced>>

-----------------------------------------------------------------------------
(* Faults and restarts                                                     *)

\* A process dies: pg-boss expires the jobs its handlers were working on.
Crash(p) ==
    /\ p \in up /\ crashes < MaxCrashes
    /\ crashes' = crashes + 1
    /\ up' = up \ {p}
    /\ IF aggregating[p] = None THEN UNCHANGED <<aggJob, aggLeft>>
       ELSE FailAggregate(aggregating[p])
    /\ aggregating' = [aggregating EXCEPT ![p] = None]
    /\ IF job[p] = None THEN UNCHANGED <<jobs, dead, lost>>
       ELSE /\ Fail(job[p])
            /\ lost' = IF pc[p] = "recording" THEN [lost EXCEPT ![RunOf(p)] = @ + 1] ELSE lost
    /\ Finish(p)
    /\ UNCHANGED <<runVars, enqueued, overlooked, snapshot, sent, owner, emails, raced>>

\* Weeks that have begun since a run was planned.
WeeksSince(r) == Cardinality({s \in Runs : s > r /\ status[s] # "none"})

\* Mutation: nothing is looked for at boot.
NoCatchUp == {}

\* Boot catch-up: completed runs of the last two weeks without a snapshot.
Missed == {r \in Runs : /\ status[r] = "completed"
                        /\ WeeksSince(r) <= CATCH_UP_WEEKS
                        /\ r \notin DOMAIN snapshot}

\* What throws for a run, or for the customer, is logged and passed over: any part of
\* the missed runs may be found.
Boot(p) ==
    /\ p \notin up
    /\ up' = up \cup {p}
    /\ LET fresh == {r \in Missed : /\ ~ \E j \in jobs : j.run = r
                                    /\ enqueued[r] < MaxJobs}
       IN \E found \in SUBSET fresh :
            /\ jobs' = jobs \cup {[run |-> r, n |-> enqueued[r] + 1, left |-> RetryLimit] : r \in found}
            /\ enqueued' = [r \in Runs |-> IF r \in found THEN enqueued[r] + 1 ELSE enqueued[r]]
            /\ overlooked' = (overlooked \cup {r \in fresh : aggJob[r] = "dead"}) \ found
    /\ UNCHANGED <<runVars, aggJob, aggLeft, aggregating, dead, pc, job, readVars, snapshot, sent, owner,
                   crashes, emails, lost, raced>>

-----------------------------------------------------------------------------
Deliver(p) ==
    \/ \E j \in jobs : Start(p, j)
    \/ ReadCounts(p) \/ ReadRows(p) \/ FindPrevious(p) \/ KeepSnapshot(p) \/ CheckDelivery(p)
    \/ SendEmail(p) \/ StepFails(p) \/ RecordSent(p)

Next ==
    \/ \E r \in Runs : PlanRun(r)
    \/ \E r \in Runs, c \in Cells, v \in Verdicts : CellJudged(r, c, v)
    \/ \E p \in Procs, r \in Runs : Aggregate(p, r) \/ AggregateFails(p, r)
    \/ \E p \in Procs : EnqueueDelivery(p) \/ Deliver(p) \/ Crash(p) \/ Boot(p)

\* pg-boss hands out waiting jobs, handlers end, and a process that died is
\* started again.
Fairness ==
    \A p \in Procs :
        /\ WF_vars(\E r \in Runs : Aggregate(p, r))
        /\ WF_vars(EnqueueDelivery(p))
        /\ WF_vars(Deliver(p))
        /\ WF_vars(Boot(p))

Spec == Init /\ [][Next]_vars /\ Fairness

-----------------------------------------------------------------------------
(* Properties                                                              *)

\* No run is mailed twice (the "exactly-once backstop" of report/deliver.ts:22) but for
\* e-mails whose handler died or failed before the 'sent' row was written, and for handlers that
\* passed the check while another was between its own check and that row.
EmailsAreAccounted == \A r \in Runs : emails[r] <= 1 + lost[r] + raced[r]

AddsUp(report) ==
    LET hits == report.counts.brandHits
        cites == report.counts.citationHits
        slices == report.rows.slices
        gaps == report.rows.gaps
    IN /\ hits = Cardinality(report.rows.hits)
       /\ cites = Cardinality(report.rows.citations)
       /\ report.counts.recommendationHits = Cardinality(report.rows.recommendations)
       /\ report.rows.citations \cup report.rows.recommendations \cup report.rows.visible
             \subseteq report.rows.hits
       /\ report.counts.invRankSum <= RankScale * Cardinality(report.rows.visible)
       /\ hits = Total(slices.byModel, Models)
       /\ hits = Total(slices.byQuestion, Questions)
       /\ hits = Total([q \in DOMAIN gaps |-> gaps[q].brandHits], DOMAIN gaps)
       /\ cites = Total(slices.citationByModel, Models)
       /\ hits + report.rows.abstained <= NTotal
       /\ report.rows.voices = Competitors

\* The figures of a snapshot agree with each other and with the rows they cite,
\* unless a late response was judged between two of the reads they come from.
SnapshotAddsUp ==
    \A r \in DOMAIN snapshot : snapshot[r].torn \/ AddsUp(snapshot[r])

\* "This avoids re-sending on a retry where the send succeeded but the delivery row
\* insert failed" (report/deliver.ts:250-252): no run is mailed twice.
NoSecondEmail == \A r \in Runs : emails[r] <= 1

\* If report.deliver is wired, a run that its aggregation completes gets its snapshot, and
\* its owner the e-mail, or a job of it is dead-lettered, or its aggregation is delivered again and fails the
\* run. The exceptions: the aggregation gave up enqueueing while its process stayed up, or
\* the catch-up of a boot swallowed an error, and no boot has made up for it since; or the
\* worker was down until the catch-up no longer looks back.
CompletedRunIsReported ==
    \A r \in Runs :
        status[r] = "completed" /\ aggJob[r] # "none"
            ~> \/ r \in DOMAIN snapshot /\ (owner => r \in sent)
               \/ r \in dead
               \/ status[r] = "failed"
               \/ r \in overlooked
               \/ WeeksSince(r) > CATCH_UP_WEEKS

\* "Find previous COMPLETED operating run for WoW delta" (report/deliver.ts): a
\* report is compared with a run planned before its own.
ComparesWithEarlierRun ==
    \A r \in DOMAIN snapshot : snapshot[r].against # None => snapshot[r].against < r
=============================================================================
