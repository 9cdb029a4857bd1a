--------------------------- MODULE DeployPipeline ---------------------------
(***************************************************************************)
(* The publishing pipeline of src/deploy: content_deploy_queue rows are    *)
(* leased by publish.dispatch, handed to publish.unit jobs on a pg-boss    *)
(* queue, and pushed through a channel connector once the worker has won   *)
(* the url_registry slot of the asset.                                     *)
(*                                                                         *)
(* An asset has exactly one queue row (uq_deploy_queue_asset) and a fixed  *)
(* channel class, so rows, slots and assets are indexed alike.  Throttle   *)
(* counters and the clock are the subject of PublishDispatch: here a batch *)
(* is any set of leasable rows, and a lease may grow stale at any time.    *)
(***************************************************************************)
EXTENDS Naturals, FiniteSets

CONSTANTS
    Assets,             \* content assets, one queue row each
    Workers,            \* concurrent publish.unit handler invocations
    Dispatchers,        \* concurrent handlePublishDispatch calls (cron, CLI)
    JobIds,             \* pg-boss publish.unit jobs outstanding at once (bound)
    RetryLimit,         \* retries of one job (3 in dispatch.ts)
    DryRunModes,        \* values of payload.dryRun that are dispatched
    Outcomes,           \* what a connector may answer to a real publish
    Faults,             \* which of FaultKinds can happen
    LeaseOutlivesJob    \* TRUE: no lease expires while somebody works on it

AllOutcomes == {"ok", "blocklisted", "not_configured", "throttled",
                "retryable", "permanent", "threw"}

FaultKinds == {"crash",     \* a worker or dispatcher process dies
               "db",        \* one database write fails and is swallowed
               "enqueue",   \* queue.enqueue throws
               "expire"}    \* pg-boss redelivers a job whose handler still runs

ASSUME ConstantsAssumption ==
    /\ RetryLimit \in Nat
    /\ DryRunModes \subseteq BOOLEAN
    /\ Outcomes \subseteq AllOutcomes
    /\ Faults \subseteq FaultKinds
    /\ LeaseOutlivesJob \in BOOLEAN

VARIABLES
    disclosed,  \* assets that carry the disclosure_tag their channel requires, if any
    passed,     \* assets whose content_asset.gate_status = 'passed'
    approved,   \* assets whose queue row has approved_by set
    queue,      \* content_deploy_queue.status of each asset ("absent": no row)
    aged,       \* assets whose leased_at lies before now - DEPLOY_LEASE_TIMEOUT_MS
    registry,   \* the live url_registry row of each asset
    jobs,       \* the publish.unit jobs pg-boss holds
    dispatch,   \* local state of each dispatcher
    worker,     \* local state of each publish.unit handler
    accepted    \* history: publishes of each asset accepted by publishUnit

db   == <<disclosed, passed, approved, queue, aged, registry>>
vars == <<db, jobs, dispatch, worker, accepted>>

QueueStatus == {"absent", "queued", "leased", "published", "failed"}

\* Rows in 'failed' or 'dry_run' are outside uq_url_registry_live and nothing in
\* the pipeline reads them again: "free" stands for "no live row".  A claimed row
\* is named by its id in the code; SlotHeld below shows that the asset names it
\* just as well, because only the claimant's row can be 'publishing'.
SlotStatus  == {"free", "publishing", "published"}

Results == Outcomes \cup {"dry_run", "none"}

None == "none"      \* null: no job, no asset

NoJob      == [state |-> "none", asset |-> None, dryRun |-> FALSE, left |-> 0]
IdleWorker == [pc |-> "idle", job |-> None, asset |-> None, dryRun |-> FALSE,
               result |-> "none"]
IdleDispatcher == [running |-> FALSE, dryRun |-> FALSE, seen |-> {}, todo |-> {}]

JobType ==
    {NoJob} \cup [state: {"created", "active"}, asset: Assets,
                  dryRun: BOOLEAN, left: 0..RetryLimit]
WorkerType ==
    {IdleWorker} \cup
    [pc: {"release", "reject", "claim", "call", "registry", "queue", "ack"},
     job: JobIds, asset: Assets, dryRun: BOOLEAN, result: Results]
DispatcherType == [running: BOOLEAN, dryRun: BOOLEAN,
                   seen: SUBSET Assets, todo: SUBSET Assets]

TypeOK ==
    /\ disclosed \subseteq Assets
    /\ passed \subseteq Assets
    /\ approved \subseteq Assets
    /\ queue \in [Assets -> QueueStatus]
    /\ aged \subseteq Assets
    /\ registry \in [Assets -> SlotStatus]
    /\ jobs \in [JobIds -> JobType]
    /\ dispatch \in [Dispatchers -> DispatcherType]
    /\ worker \in [Workers -> WorkerType]
    /\ accepted \in [Assets -> Nat]

Init ==
    /\ disclosed \in SUBSET Assets
    /\ passed = {}
    /\ approved = {}
    /\ queue = [a \in Assets |-> "absent"]
    /\ aged = {}
    /\ registry = [a \in Assets |-> "free"]
    /\ jobs = [j \in JobIds |-> NoJob]
    /\ dispatch = [d \in Dispatchers |-> IdleDispatcher]
    /\ worker = [w \in Workers |-> IdleWorker]
    /\ accepted = [a \in Assets |-> 0]

-----------------------------------------------------------------------------
(* People and content gates *)

\* queuePassedAssets: rows are inserted once, for assets that passed the gates.
QueueForDeploy(a) ==
    /\ a \in passed
    /\ queue[a] = "absent"
    /\ queue' = [queue EXCEPT ![a] = "queued"]
    /\ UNCHANGED <<disclosed, passed, approved, aged, registry, jobs, dispatch, worker, accepted>>

\* updateAssetGateStatus: an asset may be gated again at any time, whatever the
\* state of its queue row.
ReGate(a) ==
    /\ passed' \in {passed \cup {a}, passed \ {a}}
    /\ UNCHANGED <<disclosed, approved, queue, aged, registry, jobs, dispatch, worker, accepted>>

\* approveDeployRow: human sign-off; an approval is never withdrawn.
Approve(a) ==
    /\ queue[a] \in {"queued", "leased"}
    /\ approved' = approved \cup {a}
    /\ UNCHANGED <<disclosed, passed, queue, aged, registry, jobs, dispatch, worker, accepted>>

-----------------------------------------------------------------------------
(* publish.dispatch: handlePublishDispatch *)

BeingWorked(a) ==
    \/ \E j \in JobIds : jobs[j].asset = a
    \/ \E w \in Workers : worker[w].asset = a
    \/ \E d \in Dispatchers : a \in dispatch[d].todo

\* Time passes: the lease of a becomes older than DEPLOY_LEASE_TIMEOUT_MS.
LeaseGrowsOld(a) ==
    /\ queue[a] = "leased"
    /\ a \notin aged
    /\ LeaseOutlivesJob => ~BeingWorked(a)
    /\ aged' = aged \cup {a}
    /\ UNCHANGED <<disclosed, passed, approved, queue, registry, jobs, dispatch, worker, accepted>>

\* Mutation: the reaper takes only rows a job is still outstanding for.
StaleLeasesWithJob ==
    {a \in aged : queue[a] = "leased" /\ \E j \in JobIds : jobs[j].asset = a}

StaleLeases == {a \in aged : queue[a] = "leased"}

\* The handler starts by reaping stale leases; a failing reap is logged only.
StartDispatch(d, dry) ==
    /\ ~dispatch[d].running
    /\ dispatch' = [dispatch EXCEPT ![d] =
            [running |-> TRUE, dryRun |-> dry, seen |-> {}, todo |-> {}]]
    /\ \/ /\ queue' = [a \in Assets |-> IF a \in StaleLeases THEN "queued" ELSE queue[a]]
          /\ aged' = aged \ StaleLeases
       \/ /\ "db" \in Faults
          /\ UNCHANGED <<queue, aged>>
    /\ UNCHANGED <<disclosed, passed, approved, registry, jobs, worker, accepted>>

Leasable == {a \in Assets : queue[a] = "queued" /\ a \in approved /\ a \in passed}

\* One claimNextDeployBatchForCustomer transaction; rows it skips belong to other
\* customers or channels, are locked, or exceed the throttle budget.  A dispatch
\* visits each channel and customer once, hence each row at most once.
ClaimBatch(d, batch) ==
    /\ dispatch[d].running
    /\ dispatch[d].todo = {}
    /\ batch # {}
    /\ batch \subseteq Leasable \ dispatch[d].seen
    /\ queue' = [a \in Assets |-> IF a \in batch THEN "leased" ELSE queue[a]]
    /\ aged' = aged \ batch
    /\ dispatch' = [dispatch EXCEPT ![d] =
            [@ EXCEPT !.todo = batch, !.seen = dispatch[d].seen \cup batch]]
    /\ UNCHANGED <<disclosed, passed, approved, registry, jobs, worker, accepted>>

\* A job slot no handler still refers to (job ids are never reused by pg-boss).
Unused(j) == jobs[j].state = "none" /\ \A w \in Workers : worker[w].job # j

\* queue.enqueue with singletonKey publish:<asset>:<channel>: a job is inserted, or
\* null comes back because one for the same key is outstanding; the row then
\* simply stays leased.
EnqueueUnit(d, a) ==
    /\ a \in dispatch[d].todo
    /\ dispatch' = [dispatch EXCEPT ![d].todo = @ \ {a}]
    /\ \/ \E j \in JobIds :
            /\ Unused(j)
            /\ jobs' = [jobs EXCEPT ![j] =
                    [state |-> "created", asset |-> a,
                     dryRun |-> dispatch[d].dryRun, left |-> RetryLimit]]
       \/ /\ \E j \in JobIds : jobs[j].asset = a
          /\ UNCHANGED jobs
    /\ UNCHANGED <<db, worker, accepted>>

\* enqueue throws: the per-customer catch drops the rest of the claimed rows.
EnqueueFails(d) ==
    /\ "enqueue" \in Faults
    /\ dispatch[d].todo # {}
    /\ dispatch' = [dispatch EXCEPT ![d].todo = {}]
    /\ UNCHANGED <<db, jobs, worker, accepted>>

FinishDispatch(d) ==
    /\ dispatch[d].running
    /\ dispatch[d].todo = {}
    /\ dispatch' = [dispatch EXCEPT ![d] = IdleDispatcher]
    /\ UNCHANGED <<db, jobs, worker, accepted>>

DispatcherCrash(d) ==
    /\ "crash" \in Faults
    /\ dispatch[d].running
    /\ dispatch' = [dispatch EXCEPT ![d] = IdleDispatcher]
    /\ UNCHANGED <<db, jobs, worker, accepted>>

-----------------------------------------------------------------------------
(* The job queue: what pg-boss does with a finished, failed or expired job *)

\* complete(id): only an active job is completed.
Completed(j) ==
    IF jobs[j].state = "active" THEN [jobs EXCEPT ![j] = NoJob] ELSE jobs

\* The job as it is queued again, with one retry less.
Resubmitted(job) == [state |-> "created", asset |-> job.asset, dryRun |-> job.dryRun,
                     left |-> job.left - 1]

\* fail(id): back to the queue while retries are left, then to the dead letters.
Retried(j) ==
    IF jobs[j].state = "none" THEN jobs
    ELSE [jobs EXCEPT ![j] = IF jobs[j].left = 0 THEN NoJob ELSE Resubmitted(jobs[j])]

\* pg-boss gives up on an active job: its process died, or it runs too long.
ExpireJob(j) ==
    /\ jobs[j].state = "active"
    /\ "expire" \in Faults \/ \A w \in Workers : worker[w].job # j
    /\ jobs' = Retried(j)
    /\ UNCHANGED <<db, dispatch, worker, accepted>>

-----------------------------------------------------------------------------
(* publish.unit: publishUnit and createPublishUnitHandler *)

\* isPublishEligible, on the row as loadAssetQueueRow has just read it.
Eligible(a) == a \in passed /\ a \in approved /\ queue[a] = "leased"

\* Mutation: the disclosure gate is skipped.
DisclosedAlways(a) == a \in Assets

\* assertDisclosure: channel and tag of an asset never change.
Disclosed(a) == a \in disclosed

\* What a handler does next with the row it has read.
Verdict(a, dry) ==
    IF ~Eligible(a) THEN "release"
    ELSE IF ~Disclosed(a) THEN "reject"
    ELSE IF dry THEN "call" ELSE "claim"

\* pg-boss hands the job out, and the handler reads the row and judges it; when the
\* row cannot be read, the handler resolves and leaves everything as it is.
LoadUnit(w, j) ==
    /\ worker[w] = IdleWorker
    /\ jobs[j].state = "created"
    /\ jobs' = [jobs EXCEPT ![j].state = "active"]
    /\ \E label \in {Verdict(jobs[j].asset, jobs[j].dryRun), "ack"} :
        /\ label = "ack" => "db" \in Faults
        /\ worker' = [worker EXCEPT ![w] =
                [pc |-> label, job |-> j, asset |-> jobs[j].asset,
                 dryRun |-> jobs[j].dryRun, result |-> "none"]]
    /\ UNCHANGED <<db, dispatch, accepted>>

Goto(w, label) == worker' = [worker EXCEPT ![w].pc = label]

\* markDeployStatus has no guard on the current status; publishUnit swallows its errors.
MarkDeployStatus(a, status) ==
    \/ queue' = [queue EXCEPT ![a] = status]
    \/ "db" \in Faults /\ UNCHANGED queue

ReleaseIneligible(w) ==
    /\ worker[w].pc = "release"
    /\ MarkDeployStatus(worker[w].asset, "queued")
    /\ Goto(w, "ack")
    /\ UNCHANGED <<disclosed, passed, approved, aged, registry, jobs, dispatch, accepted>>

RejectUndisclosed(w) ==
    /\ worker[w].pc = "reject"
    /\ MarkDeployStatus(worker[w].asset, "failed")
    /\ Goto(w, "ack")
    /\ UNCHANGED <<disclosed, passed, approved, aged, registry, jobs, dispatch, accepted>>

\* Mutation: uq_url_registry_live covers 'publishing' only.
SlotFreeUnlessPublishing(a) == registry[a] # "publishing"
\* Mutation: uq_url_registry_live covers 'published' only.
SlotFreeUnlessPublished(a) == registry[a] # "published"

\* The partial unique index uq_url_registry_live.
SlotFree(a) == registry[a] = "free"

\* claimUrlRegistry won: INSERT ... ON CONFLICT DO NOTHING inserted the row.
WinClaim(w) ==
    /\ worker[w].pc = "claim"
    /\ SlotFree(worker[w].asset)
    /\ registry' = [registry EXCEPT ![worker[w].asset] = "publishing"]
    /\ Goto(w, "call")
    /\ UNCHANGED <<disclosed, passed, approved, queue, aged, jobs, dispatch, accepted>>

\* The claim is lost, or the insert fails and the handler resolves: in both cases
\* the handler returns without touching the queue row, which stays leased.
LoseClaim(w) ==
    /\ worker[w].pc = "claim"
    /\ ~SlotFree(worker[w].asset) \/ "db" \in Faults
    /\ Goto(w, "ack")
    /\ UNCHANGED <<db, jobs, dispatch, accepted>>

\* A dry run answers with a planned URL instead of publishing.
ResultsOf(dry) ==
    IF dry THEN {"dry_run"} \cup (Outcomes \ {"ok", "blocklisted", "throttled"})
           ELSE Outcomes

\* connector.publish() returns or throws.  "blocklisted" is an ok answer that the
\* second blocklist check refuses.  A throttled answer leaves the claimed slot
\* alone, and a dry run has claimed none.
ConnectorReturns(w, r) ==
    /\ worker[w].pc = "call"
    /\ r \in ResultsOf(worker[w].dryRun)
    /\ worker' = [worker EXCEPT ![w] = [@ EXCEPT
            !.result = r,
            !.pc = IF worker[w].dryRun \/ r = "throttled" THEN "queue" ELSE "registry"]]
    /\ accepted' = IF r = "ok" THEN [accepted EXCEPT ![worker[w].asset] = @ + 1]
                   ELSE accepted
    /\ UNCHANGED <<db, jobs, dispatch>>

\* Mutation: the row of an accepted publish is marked failed as well.
SlotAfterAlwaysFailed(r) == IF r = "none" THEN "published" ELSE "free"
\* Mutation: a retryable answer ends the handler without failing the registry row.
SlotAfterKeepsRetryable(r) ==
    IF r = "ok" THEN "published"
    ELSE IF r = "retryable" THEN "publishing" ELSE "free"

\* markUrlRegistryPublished, or markUrlRegistryFailed.
SlotAfter(r) == IF r = "ok" THEN "published" ELSE "free"

\* Both updates are guarded by publish_status = 'publishing' and swallow errors.
RecordRegistry(w) ==
    /\ worker[w].pc = "registry"
    /\ \/ /\ registry[worker[w].asset] = "publishing"
          /\ registry' = [registry EXCEPT ![worker[w].asset] = SlotAfter(worker[w].result)]
       \/ /\ registry[worker[w].asset] # "publishing" \/ "db" \in Faults
          /\ UNCHANGED registry
    /\ Goto(w, "queue")
    /\ UNCHANGED <<disclosed, passed, approved, queue, aged, jobs, dispatch, accepted>>

\* The queue status publishUnit writes for each result (a throw writes none).
RowAfter(r) ==
    IF r = "ok" THEN "published"
    ELSE IF r \in {"blocklisted", "permanent"} THEN "failed" ELSE "queued"

RecordQueue(w) ==
    /\ worker[w].pc = "queue"
    /\ IF worker[w].result = "threw" THEN UNCHANGED queue
       ELSE MarkDeployStatus(worker[w].asset, RowAfter(worker[w].result))
    /\ Goto(w, "ack")
    /\ UNCHANGED <<disclosed, passed, approved, aged, registry, jobs, dispatch, accepted>>

\* The handler ends: RetryableJobError fails the job, everything else completes it.
FinishUnit(w) ==
    /\ worker[w].pc = "ack"
    /\ jobs' = IF worker[w].result \in {"throttled", "retryable", "threw"}
               THEN Retried(worker[w].job) ELSE Completed(worker[w].job)
    /\ worker' = [worker EXCEPT ![w] = IdleWorker]
    /\ UNCHANGED <<db, dispatch, accepted>>

WorkerCrash(w) ==
    /\ "crash" \in Faults
    /\ worker[w] # IdleWorker
    /\ worker' = [worker EXCEPT ![w] = IdleWorker]
    /\ UNCHANGED <<db, jobs, dispatch, accepted>>

-----------------------------------------------------------------------------
WorkerStep(w) ==
    \/ ReleaseIneligible(w)
    \/ RejectUndisclosed(w)
    \/ WinClaim(w)
    \/ LoseClaim(w)
    \/ \E r \in Results : ConnectorReturns(w, r)
    \/ RecordRegistry(w)
    \/ RecordQueue(w)
    \/ FinishUnit(w)

DispatcherStep(d) ==
    \/ \E dry \in DryRunModes : StartDispatch(d, dry)
    \/ \E a \in Assets : EnqueueUnit(d, a)
    \/ FinishDispatch(d)

Next ==
    \/ \E a \in Assets : QueueForDeploy(a) \/ ReGate(a) \/ Approve(a) \/ LeaseGrowsOld(a)
    \/ \E d \in Dispatchers :
        \/ DispatcherStep(d)
        \/ \E batch \in SUBSET Assets : ClaimBatch(d, batch)
        \/ EnqueueFails(d)
        \/ DispatcherCrash(d)
    \/ \E w \in Workers :
        \/ \E j \in JobIds : LoadUnit(w, j)
        \/ WorkerStep(w)
        \/ WorkerCrash(w)
    \/ \E j \in JobIds : ExpireJob(j)

Spec == Init /\ [][Next]_vars

\* Handlers run to their end, the cron starts a dispatch again and again, leases
\* grow old, pg-boss serves its jobs in order, notices dead processes and does not
\* refuse every job of a row, and rows are claimed in created_at order, so none is
\* passed over for ever.
Fairness ==
    /\ \A w \in Workers : WF_vars(WorkerStep(w))
    /\ \A d \in Dispatchers : WF_vars(DispatcherStep(d))
    /\ \A a \in Assets :
        /\ WF_vars(LeaseGrowsOld(a))
        /\ SF_vars(\E d \in Dispatchers : EnqueueUnit(d, a))
        /\ SF_vars(\E d \in Dispatchers :
                     \E batch \in {b \in SUBSET Assets : a \in b} : ClaimBatch(d, batch))
    /\ \A j \in JobIds :
        /\ SF_vars(\E w \in Workers : LoadUnit(w, j))
        /\ WF_vars((\A w \in Workers : worker[w].job # j) /\ ExpireJob(j))

FairSpec == Spec /\ Fairness

-----------------------------------------------------------------------------
(* Properties *)

\* A handler that has won the claim of its asset and not yet given it up.
Holds(w) == ~worker[w].dryRun /\ worker[w].pc \in {"call", "registry"}

\* No asset is ever published twice: however jobs are duplicated, retried or
\* redelivered, publishUnit accepts at most one ok answer per asset
\* (publishUnit.ts:32-34, DESIGN-phase3.md:99).
NoDoublePublish == \A a \in Assets : accepted[a] <= 1

\* Two handlers are never both between their won claim and its outcome for the
\* same asset, so no two connector calls for an asset overlap.
SlotExclusive ==
    \A v, w \in Workers :
        v # w /\ Holds(v) /\ Holds(w) => worker[v].asset # worker[w].asset

\* A queue row that says 'published' is backed by a live registry row and by a
\* publish that was really accepted: neither rollback, nor a swallowed write, nor
\* a second job can leave the two tables telling different stories.
PublishedRowIsBacked ==
    \A a \in Assets :
        queue[a] = "published" => registry[a] # "free" /\ accepted[a] = 1

\* Once a publish of an asset has been accepted, its connector is not even called again,
\* though a job that is delivered again puts the published row back to 'queued'
\* (publishUnit.ts:205), from where it is dispatched again.
NoCallAfterAccept ==
    \A w \in Workers :
        worker[w].pc = "call" /\ ~worker[w].dryRun => accepted[worker[w].asset] = 0

\* No connector call, dry or real, is under way for an asset that nobody approved
\* or that misses a required disclosure tag (eligibility.ts, disclosureGate.ts).
CallIsAuthorised ==
    \A w \in Workers :
        worker[w].pc \in {"call", "registry"} =>
            worker[w].asset \in approved /\ worker[w].asset \in disclosed

\* The slot a handler holds is 'publishing': nobody else may settle or take it.
SlotHeld == \A w \in Workers : Holds(w) => registry[worker[w].asset] = "publishing"

\* An accepted publish keeps its slot for good.
AcceptedKeepsSlot == \A a \in Assets : accepted[a] > 0 => registry[a] # "free"

\* A handler knows whether its asset has been published: not before its connector
\* call, and afterwards exactly if the answer was accepted.
OutcomeKnown ==
    \A w \in Workers :
        /\ worker[w].pc = "call" /\ ~worker[w].dryRun => accepted[worker[w].asset] = 0
        /\ worker[w].pc = "registry" =>
              /\ ~worker[w].dryRun
              /\ accepted[worker[w].asset] = IF worker[w].result = "ok" THEN 1 ELSE 0
        /\ worker[w].pc = "queue" /\ worker[w].result = "ok" =>
              accepted[worker[w].asset] = 1

\* Why an asset is published at most once, as an inductive invariant: a claim is
\* exclusive, its holder is the only one to settle the slot, and what has been
\* accepted under a slot never frees it (claimUrlRegistry, publishUnit steps 6 to 9).
SlotInv ==
    /\ SlotHeld
    /\ SlotExclusive
    /\ AcceptedKeepsSlot
    /\ OutcomeKnown
    /\ NoDoublePublish
    /\ PublishedRowIsBacked

\* The slot of an asset is 'publishing' only while some handler holds it: no path
\* through publishUnit forgets to settle the row it has claimed.
NoOrphanClaim ==
    \A a \in Assets :
        registry[a] = "publishing" => \E w \in Workers : Holds(w) /\ worker[w].asset = a

\* Every lease ends, whoever crashed while it was held.
LeaseReleased == \A a \in Assets : queue[a] = "leased" ~> queue[a] # "leased"

\* An approved row that passes the gates and is neither published nor failed.
Unsettled(a) ==
    a \in approved \cap passed /\ accepted[a] = 0 /\ queue[a] # "failed"

Called(a) == \E w \in Workers : worker[w].asset = a /\ worker[w].pc = "call"

\* A lease that is too late for its job, or too early: it has grown old before the job is
\* served, or a handler that read the row before it will release it.
Overtaken(a) ==
    \/ a \in aged /\ BeingWorked(a)
    \/ queue[a] = "leased" /\ \E w \in Workers : worker[w].asset = a /\ worker[w].pc = "release"

\* As long as an approved row is not settled it is tried again and again: a lost enqueue, a
\* job that runs twice, a released row, or a retry that comes when the row is no longer
\* leased (publishUnit.ts:496) only cost time. Unless its leases are overtaken for ever.
ApprovedRowIsTried ==
    \A a \in Assets : <>[]Unsettled(a) => []<>Called(a) \/ []<>Overtaken(a)

-----------------------------------------------------------------------------
(* What the pipeline implements: each asset goes live at most once *)

Live == INSTANCE PublishOnce WITH
    taken        <- {a \in Assets : registry[a] # "free"},
    publications <- accepted

\* Every step of the pipeline is a step of PublishOnce or changes nothing there:
\* a slot is taken before the publish it covers, given back only if there was none,
\* and an accepted publish keeps it for good (DESIGN-phase3.md:99, 191).
ImplementsPublishOnce == Live!Spec

=============================================================================
