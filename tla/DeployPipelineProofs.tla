------------------------ MODULE DeployPipelineProofs ------------------------
(***************************************************************************)
(* Proofs about DeployPipeline, for any sets of assets, workers,           *)
(* dispatchers and jobs, any retry limit and any combination of faults:    *)
(* types, the one-publication guarantee and what it rests on, and the      *)
(* refinement of PublishOnce.                                              *)
(***************************************************************************)
EXTENDS DeployPipeline, TLAPS

Labels == {"release", "reject", "claim", "call", "registry", "queue", "ack"}

\* A handler that is not idle has a job, an asset and a result of the right types.
LEMMA BusyWorker ==
    ASSUME TypeOK, NEW w \in Workers, worker[w].pc # "idle"
    PROVE  worker[w] \in [pc: Labels, job: JobIds, asset: Assets,
                          dryRun: BOOLEAN, result: Results]
BY DEF TypeOK, WorkerType, IdleWorker, Labels

\* Moving a busy handler to another label keeps its type.
LEMMA GotoType ==
    ASSUME TypeOK, NEW w \in Workers, worker[w].pc # "idle",
           NEW label \in Labels, Goto(w, label)
    PROVE  worker' \in [Workers -> WorkerType]
<1>1. [worker[w] EXCEPT !.pc = label] \in WorkerType
  BY BusyWorker DEF WorkerType, Labels
<1>2. worker' = [worker EXCEPT ![w] = [worker[w] EXCEPT !.pc = label]]
  BY DEF Goto
<1> QED
  BY <1>1, <1>2 DEF TypeOK

\* Giving a job back to pg-boss keeps the job table well typed.
LEMMA RetriedType ==
    ASSUME TypeOK, NEW j \in JobIds
    PROVE  /\ Retried(j) \in [JobIds -> JobType]
           /\ Completed(j) \in [JobIds -> JobType]
<1>1. CASE jobs[j].state = "none"
  BY <1>1 DEF TypeOK, Retried, Completed
<1>2. CASE jobs[j].state # "none"
  <2>1. jobs[j] \in [state: {"created", "active"}, asset: Assets,
                     dryRun: BOOLEAN, left: 0..RetryLimit]
    BY <1>2 DEF TypeOK, JobType, NoJob
  <2>2. [jobs EXCEPT ![j] = NoJob] \in [JobIds -> JobType]
    BY DEF TypeOK, JobType
  <2>3. CASE jobs[j].left = 0
    BY <1>2, <2>2, <2>3 DEF TypeOK, Retried, Completed
  <2>4. CASE jobs[j].left # 0
    <3>1. Resubmitted(jobs[j]) \in JobType
      <4>1. jobs[j].left - 1 \in 0..RetryLimit
        BY <2>1, <2>4, ConstantsAssumption
      <4> QED
        BY <2>1, <4>1 DEF JobType, Resubmitted
    <3>2. Retried(j) = [jobs EXCEPT ![j] = Resubmitted(jobs[j])]
      BY <1>2, <2>4 DEF Retried
    <3> QED
      BY <3>1, <3>2, <2>2 DEF TypeOK, Completed
  <2> QED
    BY <2>3, <2>4
<1> QED
  BY <1>1, <1>2

\* What pg-boss holds for a job that is not free.
LEMMA LiveJob ==
    ASSUME TypeOK, NEW j \in JobIds, jobs[j].state # "none"
    PROVE  jobs[j] \in [state: {"created", "active"}, asset: Assets,
                        dryRun: BOOLEAN, left: 0..RetryLimit]
BY DEF TypeOK, JobType, NoJob

\* The status writes of publishUnit keep the queue table well typed.
LEMMA MarkType ==
    ASSUME TypeOK, NEW a \in Assets, NEW status \in QueueStatus, MarkDeployStatus(a, status)
    PROVE  queue' \in [Assets -> QueueStatus]
BY DEF TypeOK, MarkDeployStatus

LEMMA TypeInit == ASSUME Init PROVE TypeOK
BY DEF Init, TypeOK, QueueStatus, SlotStatus, JobType, DispatcherType, WorkerType,
       IdleDispatcher

LEMMA TypePeople ==
    ASSUME TypeOK, NEW a \in Assets,
           QueueForDeploy(a) \/ ReGate(a) \/ Approve(a) \/ LeaseGrowsOld(a)
    PROVE  TypeOK'
BY DEF TypeOK, QueueForDeploy, ReGate, Approve, LeaseGrowsOld, QueueStatus

LEMMA TypeDispatch ==
    ASSUME TypeOK, NEW d \in Dispatchers,
           \/ DispatcherStep(d)
           \/ \E batch \in SUBSET Assets : ClaimBatch(d, batch)
           \/ EnqueueFails(d)
           \/ DispatcherCrash(d)
    PROVE  TypeOK'
<1> USE DEF DispatcherType
<1>0. dispatch[d] \in DispatcherType
  BY DEF TypeOK
<1>1. ASSUME NEW dry \in DryRunModes, StartDispatch(d, dry) PROVE TypeOK'
  <2>1. dispatch' \in [Dispatchers -> DispatcherType]
    BY <1>1, ConstantsAssumption DEF TypeOK, StartDispatch
  <2>2. queue' \in [Assets -> QueueStatus] /\ aged' \subseteq Assets
    BY <1>1 DEF TypeOK, StartDispatch, StaleLeases, QueueStatus
  <2> QED
    BY <1>1, <2>1, <2>2 DEF TypeOK, StartDispatch
<1>2. ASSUME NEW a \in Assets, EnqueueUnit(d, a) PROVE TypeOK'
  <2>1. [dispatch[d] EXCEPT !.todo = @ \ {a}] \in DispatcherType
    BY <1>0
  <2>2. dispatch' \in [Dispatchers -> DispatcherType]
    BY <1>2, <2>1 DEF TypeOK, EnqueueUnit
  <2>3. jobs' \in [JobIds -> JobType]
    <3>1. [state |-> "created", asset |-> a, dryRun |-> dispatch[d].dryRun,
           left |-> RetryLimit] \in JobType
      <4>1. RetryLimit \in 0..RetryLimit
        BY ConstantsAssumption
      <4> QED
        BY <1>0, <4>1 DEF JobType
    <3> QED
      BY <1>2, <3>1 DEF TypeOK, EnqueueUnit
  <2> QED
    BY <1>2, <2>2, <2>3 DEF TypeOK, EnqueueUnit, db
<1>3. ASSUME FinishDispatch(d) \/ DispatcherCrash(d) PROVE TypeOK'
  <2>1. IdleDispatcher \in DispatcherType
    BY DEF IdleDispatcher
  <2>2. dispatch' \in [Dispatchers -> DispatcherType]
    BY <1>3, <2>1 DEF TypeOK, FinishDispatch, DispatcherCrash
  <2> QED
    BY <1>3, <2>2 DEF TypeOK, FinishDispatch, DispatcherCrash, db
<1>4. ASSUME NEW batch \in SUBSET Assets, ClaimBatch(d, batch) PROVE TypeOK'
  <2>1. [dispatch[d] EXCEPT !.todo = batch, !.seen = dispatch[d].seen \cup batch] \in DispatcherType
    BY <1>0
  <2>2. dispatch' \in [Dispatchers -> DispatcherType]
    BY <1>4, <2>1 DEF TypeOK, ClaimBatch
  <2>3. queue' \in [Assets -> QueueStatus]
    BY <1>4 DEF TypeOK, ClaimBatch, QueueStatus
  <2> QED
    BY <1>4, <2>2, <2>3 DEF TypeOK, ClaimBatch
<1>5. ASSUME EnqueueFails(d) PROVE TypeOK'
  <2>1. [dispatch[d] EXCEPT !.todo = {}] \in DispatcherType
    BY <1>0
  <2> QED
    BY <1>5, <2>1 DEF TypeOK, EnqueueFails, db
<1> QED
  BY <1>1, <1>2, <1>3, <1>4, <1>5 DEF DispatcherStep

LEMMA TypeWorker ==
    ASSUME TypeOK, NEW w \in Workers,
           \/ \E j \in JobIds : LoadUnit(w, j)
           \/ WorkerStep(w)
           \/ WorkerCrash(w)
    PROVE  TypeOK'
<1>1. ASSUME NEW j \in JobIds, LoadUnit(w, j) PROVE TypeOK'
  <2>1. jobs[j] \in [state: {"created", "active"}, asset: Assets,
                     dryRun: BOOLEAN, left: 0..RetryLimit]
    BY <1>1, LiveJob DEF LoadUnit
  <2>2. [jobs[j] EXCEPT !.state = "active"] \in JobType
    BY <2>1 DEF JobType
  <2>3. jobs' \in [JobIds -> JobType]
    <3>1. jobs' = [jobs EXCEPT ![j] = [jobs[j] EXCEPT !.state = "active"]]
      BY <1>1 DEF LoadUnit
    <3> QED
      BY <2>2, <3>1 DEF TypeOK
  <2>4. PICK label \in {Verdict(jobs[j].asset, jobs[j].dryRun), "ack"} :
            worker' = [worker EXCEPT ![w] =
                [pc |-> label, job |-> j, asset |-> jobs[j].asset,
                 dryRun |-> jobs[j].dryRun, result |-> "none"]]
    BY <1>1 DEF LoadUnit
  <2>5. label \in {"release", "reject", "claim", "call", "ack"}
    BY <2>1, <2>4 DEF Verdict
  <2>6. worker' \in [Workers -> WorkerType]
    <3>1. [pc |-> label, job |-> j, asset |-> jobs[j].asset,
           dryRun |-> jobs[j].dryRun, result |-> "none"] \in WorkerType
      BY <2>1, <2>5 DEF WorkerType, Results
    <3> QED
      BY <2>4, <3>1 DEF TypeOK
  <2> QED
    BY <1>1, <2>3, <2>6 DEF TypeOK, LoadUnit, db
<1>2. ASSUME ReleaseIneligible(w) \/ RejectUndisclosed(w) PROVE TypeOK'
  <2>1. worker' \in [Workers -> WorkerType]
    BY <1>2, GotoType DEF ReleaseIneligible, RejectUndisclosed, Labels
  <2>2. queue' \in [Assets -> QueueStatus]
    BY <1>2, BusyWorker, MarkType DEF ReleaseIneligible, RejectUndisclosed, QueueStatus
  <2> QED
    BY <1>2, <2>1, <2>2 DEF TypeOK, ReleaseIneligible, RejectUndisclosed
<1>3. ASSUME WinClaim(w) PROVE TypeOK'
  <2>1. worker' \in [Workers -> WorkerType]
    BY <1>3, GotoType DEF WinClaim, Labels
  <2> QED
    BY <1>3, <2>1 DEF TypeOK, WinClaim, SlotStatus
<1>4. ASSUME LoseClaim(w) PROVE TypeOK'
  <2>1. worker' \in [Workers -> WorkerType]
    BY <1>4, GotoType DEF LoseClaim, Labels
  <2> QED
    BY <1>4, <2>1 DEF TypeOK, LoseClaim, db
<1>5. ASSUME NEW r \in Results, ConnectorReturns(w, r) PROVE TypeOK'
  <2>1. worker[w] \in [pc: Labels, job: JobIds, asset: Assets,
                       dryRun: BOOLEAN, result: Results]
    BY <1>5, BusyWorker DEF ConnectorReturns
  <2> DEFINE next == [worker[w] EXCEPT !.result = r,
                        !.pc = IF worker[w].dryRun \/ r = "throttled"
                               THEN "queue" ELSE "registry"]
  <2>2. next \in WorkerType
    BY <2>1 DEF WorkerType, Labels
  <2>3. worker' = [worker EXCEPT ![w] = next]
    BY <1>5 DEF ConnectorReturns
  <2>4. worker' \in [Workers -> WorkerType]
    BY <2>2, <2>3 DEF TypeOK
  <2>5. accepted' \in [Assets -> Nat]
    BY <1>5, <2>1 DEF TypeOK, ConnectorReturns
  <2> QED
    BY <1>5, <2>4, <2>5 DEF TypeOK, ConnectorReturns, db
<1>6. ASSUME RecordRegistry(w) PROVE TypeOK'
  <2>1. worker' \in [Workers -> WorkerType]
    BY <1>6, GotoType DEF RecordRegistry, Labels
  <2>2. registry' \in [Assets -> SlotStatus]
    BY <1>6 DEF TypeOK, RecordRegistry, SlotAfter, SlotStatus
  <2> QED
    BY <1>6, <2>1, <2>2 DEF TypeOK, RecordRegistry
<1>7. ASSUME RecordQueue(w) PROVE TypeOK'
  <2>1. worker' \in [Workers -> WorkerType]
    BY <1>7, GotoType DEF RecordQueue, Labels
  <2>2. RowAfter(worker[w].result) \in QueueStatus
    BY DEF RowAfter, QueueStatus
  <2>3. queue' \in [Assets -> QueueStatus]
    BY <1>7, <2>2, BusyWorker, MarkType DEF RecordQueue, TypeOK
  <2> QED
    BY <1>7, <2>1, <2>3 DEF TypeOK, RecordQueue
<1>8. ASSUME FinishUnit(w) PROVE TypeOK'
  <2>1. worker[w].job \in JobIds
    BY <1>8, BusyWorker DEF FinishUnit
  <2>2. jobs' \in [JobIds -> JobType]
    BY <1>8, <2>1, RetriedType DEF FinishUnit
  <2> QED
    BY <1>8, <2>2 DEF TypeOK, FinishUnit, WorkerType, db
<1>9. ASSUME WorkerCrash(w) PROVE TypeOK'
  BY <1>9 DEF TypeOK, WorkerCrash, WorkerType, db
<1> QED
  BY <1>1, <1>2, <1>3, <1>4, <1>5, <1>6, <1>7, <1>8, <1>9 DEF WorkerStep

LEMMA TypeStep == ASSUME TypeOK, [Next]_vars PROVE TypeOK'
<1>1. CASE \E a \in Assets : QueueForDeploy(a) \/ ReGate(a) \/ Approve(a) \/ LeaseGrowsOld(a)
  BY <1>1, TypePeople
<1>2. CASE \E d \in Dispatchers : \/ DispatcherStep(d)
                                  \/ \E batch \in SUBSET Assets : ClaimBatch(d, batch)
                                  \/ EnqueueFails(d)
                                  \/ DispatcherCrash(d)
  BY <1>2, TypeDispatch
<1>3. CASE \E w \in Workers : \/ \E j \in JobIds : LoadUnit(w, j)
                              \/ WorkerStep(w)
                              \/ WorkerCrash(w)
  BY <1>3, TypeWorker
<1>4. ASSUME NEW j \in JobIds, ExpireJob(j) PROVE TypeOK'
  <2>1. jobs' \in [JobIds -> JobType]
    BY <1>4, RetriedType DEF ExpireJob
  <2> QED
    BY <1>4, <2>1 DEF TypeOK, ExpireJob, db
<1>5. CASE UNCHANGED vars
  BY <1>5 DEF TypeOK, vars, db
<1> QED
  BY <1>1, <1>2, <1>3, <1>4, <1>5 DEF Next

\* Every variable of the pipeline keeps its type.
THEOREM TypeCorrect == Spec => []TypeOK
BY TypeInit, TypeStep, PTL DEF Spec

-----------------------------------------------------------------------------
(* At most one publication *)

LEMMA SlotInit == ASSUME Init PROVE SlotInv
BY DEF Init, SlotInv, SlotHeld, SlotExclusive, AcceptedKeepsSlot, OutcomeKnown,
       NoDoublePublish, PublishedRowIsBacked, Holds, IdleWorker

\* Steps that leave handlers, slots and publications alone and mark no row published.
LEMMA SlotFrame ==
    ASSUME TypeOK, SlotInv, UNCHANGED <<registry, worker, accepted>>,
           \A a \in Assets : queue'[a] = "published" => queue[a] = "published"
    PROVE  SlotInv'
BY DEF SlotInv, SlotHeld, SlotExclusive, AcceptedKeepsSlot, OutcomeKnown,
       NoDoublePublish, PublishedRowIsBacked, Holds

\* Steps of one handler that neither end nor begin a connector call, and after
\* which the handler holds no slot it did not hold before.
LEMMA SlotQuietStep ==
    ASSUME TypeOK, SlotInv, NEW w \in Workers,
           UNCHANGED <<registry, accepted>>,
           worker' = [worker EXCEPT ![w] = worker'[w]],
           \/ worker'[w].pc \in {"idle", "release", "reject", "claim", "ack"}
           \/ worker'[w].pc = "call" /\ worker'[w].dryRun,
           \A a \in Assets : queue'[a] = "published" =>
               queue[a] = "published" \/ accepted[a] = 1
    PROVE  SlotInv'
<1>1. \A v \in Workers : v # w => worker'[v] = worker[v]
  BY DEF TypeOK
<1>2. ~(Holds(w))'
  BY DEF Holds
<1>3. SlotHeld' /\ SlotExclusive'
  BY <1>1, <1>2 DEF SlotInv, SlotHeld, SlotExclusive, Holds
<1>4. AcceptedKeepsSlot' /\ NoDoublePublish'
  BY DEF SlotInv, AcceptedKeepsSlot, NoDoublePublish
<1>5. OutcomeKnown'
  BY <1>1 DEF SlotInv, OutcomeKnown
<1>6. PublishedRowIsBacked'
  BY DEF TypeOK, SlotInv, PublishedRowIsBacked, AcceptedKeepsSlot
<1> QED
  BY <1>3, <1>4, <1>5, <1>6 DEF SlotInv

LEMMA SlotPeopleAndDispatch ==
    ASSUME TypeOK, SlotInv,
           \/ \E a \in Assets : QueueForDeploy(a) \/ ReGate(a) \/ Approve(a) \/ LeaseGrowsOld(a)
           \/ \E d \in Dispatchers : \/ DispatcherStep(d)
                                     \/ \E batch \in SUBSET Assets : ClaimBatch(d, batch)
                                     \/ EnqueueFails(d)
                                     \/ DispatcherCrash(d)
           \/ \E j \in JobIds : ExpireJob(j)
           \/ UNCHANGED vars
    PROVE  SlotInv'
<1>1. UNCHANGED <<registry, worker, accepted>>
  BY DEF QueueForDeploy, ReGate, Approve, LeaseGrowsOld, DispatcherStep, StartDispatch,
         EnqueueUnit, FinishDispatch, ClaimBatch, EnqueueFails, DispatcherCrash,
         ExpireJob, vars, db
<1>2. \A a \in Assets : queue'[a] = "published" => queue[a] = "published"
  BY DEF TypeOK, QueueForDeploy, ReGate, Approve, LeaseGrowsOld, DispatcherStep,
         StartDispatch, EnqueueUnit, FinishDispatch, ClaimBatch, EnqueueFails,
         DispatcherCrash, ExpireJob, vars, db
<1> QED
  BY <1>1, <1>2, SlotFrame

\* Moving one handler changes no other.
LEMMA GotoShape ==
    ASSUME TypeOK, NEW w \in Workers, worker[w].pc # "idle", NEW label, Goto(w, label)
    PROVE  /\ worker' = [worker EXCEPT ![w] = worker'[w]]
           /\ worker'[w] = [worker[w] EXCEPT !.pc = label]
           /\ \A v \in Workers : v # w => worker'[v] = worker[v]
           /\ worker'[w].pc = label
           /\ worker'[w].asset = worker[w].asset
           /\ worker'[w].dryRun = worker[w].dryRun
           /\ worker'[w].result = worker[w].result
<1>1. worker[w] \in [pc: Labels, job: JobIds, asset: Assets,
                     dryRun: BOOLEAN, result: Results]
  BY BusyWorker
<1>2. worker' = [worker EXCEPT ![w] = [worker[w] EXCEPT !.pc = label]]
  BY DEF Goto
<1> QED
  BY <1>1, <1>2 DEF TypeOK

LEMMA SlotLoadAndEnd ==
    ASSUME TypeOK, SlotInv, NEW w \in Workers,
           (\E j \in JobIds : LoadUnit(w, j)) \/ FinishUnit(w) \/ WorkerCrash(w)
    PROVE  SlotInv'
<1>1. ASSUME NEW j \in JobIds, LoadUnit(w, j) PROVE SlotInv'
  <2>1. worker' = [worker EXCEPT ![w] = worker'[w]]
    BY <1>1 DEF LoadUnit, TypeOK
  <2>2. /\ worker'[w].pc \in {Verdict(jobs[j].asset, jobs[j].dryRun), "ack"}
        /\ worker'[w].dryRun = jobs[j].dryRun
    BY <1>1 DEF LoadUnit, TypeOK
  <2>3. \/ worker'[w].pc \in {"release", "reject", "claim", "ack"}
        \/ worker'[w].pc = "call" /\ worker'[w].dryRun
    BY <2>2 DEF Verdict
  <2>4. UNCHANGED <<registry, accepted, queue>>
    BY <1>1 DEF LoadUnit, db
  <2> QED
    BY <2>1, <2>3, <2>4, SlotQuietStep
<1>2. ASSUME FinishUnit(w) \/ WorkerCrash(w) PROVE SlotInv'
  <2>1. worker' = [worker EXCEPT ![w] = worker'[w]] /\ worker'[w].pc = "idle"
    BY <1>2 DEF FinishUnit, WorkerCrash, IdleWorker, TypeOK
  <2>2. UNCHANGED <<registry, accepted, queue>>
    BY <1>2 DEF FinishUnit, WorkerCrash, db
  <2> QED
    BY <2>1, <2>2, SlotQuietStep
<1> QED
  BY <1>1, <1>2

LEMMA SlotQueueWrites ==
    ASSUME TypeOK, SlotInv, NEW w \in Workers,
           ReleaseIneligible(w) \/ RejectUndisclosed(w) \/ LoseClaim(w) \/ RecordQueue(w)
    PROVE  SlotInv'
<1>1. worker[w].pc # "idle" /\ Goto(w, "ack")
  BY DEF ReleaseIneligible, RejectUndisclosed, LoseClaim, RecordQueue
<1>2. worker' = [worker EXCEPT ![w] = worker'[w]] /\ worker'[w].pc = "ack"
  BY <1>1, GotoShape
<1>3. UNCHANGED <<registry, accepted>>
  BY DEF ReleaseIneligible, RejectUndisclosed, LoseClaim, RecordQueue, db
<1>4. \A a \in Assets : queue'[a] = "published" =>
          queue[a] = "published" \/ accepted[a] = 1
  <2>1. CASE ReleaseIneligible(w) \/ RejectUndisclosed(w) \/ LoseClaim(w)
    BY <2>1 DEF TypeOK, ReleaseIneligible, RejectUndisclosed, LoseClaim,
               MarkDeployStatus, db
  <2>2. CASE RecordQueue(w)
    <3>1. worker[w].result = "ok" => accepted[worker[w].asset] = 1
      BY <2>2 DEF RecordQueue, SlotInv, OutcomeKnown
    <3> QED
      BY <2>2, <3>1 DEF TypeOK, RecordQueue, MarkDeployStatus, RowAfter
  <2> QED
    BY <2>1, <2>2
<1> QED
  BY <1>2, <1>3, <1>4, SlotQuietStep

\* Winning the claim: the slot was free, so nobody held it and nothing was
\* published under it.
LEMMA SlotWin ==
    ASSUME TypeOK, SlotInv, NEW w \in Workers, WinClaim(w)
    PROVE  SlotInv'
<1> DEFINE a == worker[w].asset
<1>1. a \in Assets
  BY BusyWorker DEF WinClaim
<1>2. /\ \A v \in Workers : v # w => worker'[v] = worker[v]
      /\ worker'[w].pc = "call" /\ worker'[w].asset = a
      /\ worker'[w].dryRun = worker[w].dryRun
  BY GotoShape DEF WinClaim
<1>3. registry' = [registry EXCEPT ![a] = "publishing"] /\ UNCHANGED <<accepted, queue>>
  BY DEF WinClaim
<1>4. registry[a] = "free" /\ accepted[a] = 0
  BY <1>1 DEF WinClaim, SlotFree, SlotInv, AcceptedKeepsSlot, TypeOK
<1>5. \A v \in Workers : v # w /\ Holds(v) => worker[v].asset # a
  BY <1>4 DEF SlotInv, SlotHeld
<1>6. SlotHeld'
  BY <1>1, <1>2, <1>3 DEF SlotInv, SlotHeld, Holds, TypeOK
<1>7. SlotExclusive'
  BY <1>2, <1>5 DEF SlotInv, SlotExclusive, Holds
<1>8. AcceptedKeepsSlot' /\ NoDoublePublish' /\ PublishedRowIsBacked'
  BY <1>1, <1>3 DEF SlotInv, AcceptedKeepsSlot, NoDoublePublish, PublishedRowIsBacked, TypeOK
<1>9. OutcomeKnown'
  BY <1>2, <1>3, <1>4 DEF SlotInv, OutcomeKnown
<1> QED
  BY <1>6, <1>7, <1>8, <1>9 DEF SlotInv

\* The connector answers: an accepted answer is the first one for this asset.
LEMMA SlotConnector ==
    ASSUME TypeOK, SlotInv, NEW w \in Workers, NEW r \in Results, ConnectorReturns(w, r)
    PROVE  SlotInv'
<1> DEFINE a == worker[w].asset
           label == IF worker[w].dryRun \/ r = "throttled" THEN "queue" ELSE "registry"
<1>1. worker[w] \in [pc: Labels, job: JobIds, asset: Assets,
                     dryRun: BOOLEAN, result: Results]
  BY BusyWorker DEF ConnectorReturns
<1>2. worker' = [worker EXCEPT ![w] = [worker[w] EXCEPT !.result = r, !.pc = label]]
  BY DEF ConnectorReturns
<1>3. /\ \A v \in Workers : v # w => worker'[v] = worker[v]
      /\ worker'[w].pc = label /\ worker'[w].asset = a
      /\ worker'[w].dryRun = worker[w].dryRun /\ worker'[w].result = r
  BY <1>1, <1>2 DEF TypeOK
<1>4. UNCHANGED <<registry, queue>>
  BY DEF ConnectorReturns, db
<1>5. worker[w].pc = "call"
  BY DEF ConnectorReturns
<1>6. r = "ok" => ~worker[w].dryRun
  BY DEF ConnectorReturns, ResultsOf
<1>7. ~worker[w].dryRun => accepted[a] = 0 /\ registry[a] = "publishing"
  BY <1>5 DEF SlotInv, SlotHeld, OutcomeKnown, Holds
<1>8. accepted' = IF r = "ok" THEN [accepted EXCEPT ![a] = 1] ELSE accepted
  <2>1. accepted' = IF r = "ok" THEN [accepted EXCEPT ![a] = accepted[a] + 1] ELSE accepted
    BY DEF ConnectorReturns
  <2>2. r = "ok" => accepted[a] + 1 = 1
    BY <1>6, <1>7
  <2> HIDE DEF a
  <2> QED
    BY <2>1, <2>2
<1>9. SlotHeld' /\ SlotExclusive'
  <2>1. Holds(w)' => Holds(w)
    BY <1>3, <1>5 DEF Holds
  <2> QED
    BY <2>1, <1>3, <1>4 DEF SlotInv, SlotHeld, SlotExclusive, Holds
<1>10. AcceptedKeepsSlot' /\ NoDoublePublish' /\ PublishedRowIsBacked'
  <2>1. \A b \in Assets : accepted'[b] = accepted[b] \/ (b = a /\ r = "ok" /\ accepted'[b] = 1)
    BY <1>1, <1>8 DEF TypeOK
  <2> QED
    BY <2>1, <1>4, <1>6, <1>7 DEF SlotInv, AcceptedKeepsSlot, NoDoublePublish,
                                  PublishedRowIsBacked
<1>11. OutcomeKnown'
  <2>1. ASSUME NEW v \in Workers, v # w, worker[v].pc \in {"call", "registry", "queue"}
        PROVE  \/ accepted'[worker[v].asset] = accepted[worker[v].asset]
               \/ worker[v].asset = a /\ worker[v].pc \in {"call", "queue"}
                     /\ (worker[v].pc = "call" => worker[v].dryRun)
                     /\ accepted'[worker[v].asset] = 1
    <3>1. worker[v].asset \in Assets
      BY <2>1, BusyWorker
    <3>2. CASE r = "ok" /\ worker[v].asset = a
      <4>1. Holds(w) /\ ~Holds(v)
        BY <3>2, <2>1, <1>5, <1>6 DEF Holds, SlotInv, SlotExclusive
      <4>2. worker[v].pc = "registry" => ~worker[v].dryRun
        BY DEF SlotInv, OutcomeKnown
      <4> QED
        BY <4>1, <4>2, <3>2, <2>1, <1>1, <1>8 DEF Holds, TypeOK
    <3>3. CASE ~(r = "ok" /\ worker[v].asset = a)
      BY <3>1, <3>3, <1>1, <1>8 DEF TypeOK
    <3> QED
      BY <3>2, <3>3
  <2>2. ASSUME NEW v \in Workers, v # w
        PROVE  /\ worker[v].pc = "call" /\ ~worker[v].dryRun =>
                    accepted'[worker[v].asset] = 0
               /\ worker[v].pc = "registry" =>
                    /\ ~worker[v].dryRun
                    /\ accepted'[worker[v].asset] = IF worker[v].result = "ok" THEN 1 ELSE 0
               /\ worker[v].pc = "queue" /\ worker[v].result = "ok" =>
                    accepted'[worker[v].asset] = 1
    BY <2>1, <2>2 DEF SlotInv, OutcomeKnown
  <2>3. /\ label = "registry" =>
              /\ ~worker[w].dryRun
              /\ accepted'[a] = IF r = "ok" THEN 1 ELSE 0
        /\ label = "queue" /\ r = "ok" => accepted'[a] = 1
    BY <1>1, <1>6, <1>7, <1>8 DEF TypeOK
  <2> QED
    BY <2>2, <2>3, <1>3 DEF OutcomeKnown
<1> QED
  BY <1>9, <1>10, <1>11 DEF SlotInv

\* Settling the slot: only its holder does, and it frees it only if nothing was
\* published under it.
LEMMA SlotRecord ==
    ASSUME TypeOK, SlotInv, NEW w \in Workers, RecordRegistry(w)
    PROVE  SlotInv'
<1> DEFINE a == worker[w].asset
<1>1. a \in Assets
  BY BusyWorker DEF RecordRegistry
<1>2. /\ \A v \in Workers : v # w => worker'[v] = worker[v]
      /\ worker'[w].pc = "queue" /\ worker'[w].asset = a
      /\ worker'[w].result = worker[w].result
  BY GotoShape DEF RecordRegistry
<1>3. UNCHANGED <<accepted, queue>>
  BY DEF RecordRegistry
<1>4. /\ Holds(w)
      /\ accepted[a] = IF worker[w].result = "ok" THEN 1 ELSE 0
  BY DEF RecordRegistry, SlotInv, OutcomeKnown, Holds
<1>5. \/ registry' = registry
      \/ registry' = [registry EXCEPT ![a] =
                        IF worker[w].result = "ok" THEN "published" ELSE "free"]
  BY DEF RecordRegistry, SlotAfter
<1>6. \A v \in Workers : v # w /\ Holds(v) => worker[v].asset # a
  BY <1>4 DEF SlotInv, SlotExclusive
<1>7. SlotHeld' /\ SlotExclusive'
  <2>1. ~(Holds(w))'
    BY <1>2 DEF Holds
  <2>2. SlotExclusive'
    BY <2>1, <1>2 DEF SlotInv, SlotExclusive, Holds
  <2>3. ASSUME NEW v \in Workers, (Holds(v))' PROVE registry'[worker'[v].asset] = "publishing"
    <3>1. v # w /\ Holds(v) /\ worker'[v] = worker[v]
      BY <2>1, <2>3, <1>2 DEF Holds
    <3>2. worker[v].asset \in Assets
      BY <3>1, BusyWorker DEF Holds
    <3> QED
      BY <3>1, <3>2, <1>5, <1>6 DEF SlotInv, SlotHeld, TypeOK
  <2> QED
    BY <2>2, <2>3 DEF SlotHeld
<1>8. AcceptedKeepsSlot' /\ NoDoublePublish' /\ PublishedRowIsBacked'
  BY <1>1, <1>3, <1>4, <1>5 DEF SlotInv, AcceptedKeepsSlot, NoDoublePublish,
                                PublishedRowIsBacked, TypeOK
<1>9. OutcomeKnown'
  BY <1>2, <1>3, <1>4 DEF SlotInv, OutcomeKnown
<1> QED
  BY <1>7, <1>8, <1>9 DEF SlotInv

LEMMA SlotStep == ASSUME TypeOK, SlotInv, [Next]_vars PROVE SlotInv'
<1>1. ASSUME NEW w \in Workers, WorkerStep(w) PROVE SlotInv'
  BY <1>1, SlotQueueWrites, SlotWin, SlotConnector, SlotRecord, SlotLoadAndEnd
     DEF WorkerStep
<1> QED
  BY <1>1, SlotPeopleAndDispatch, SlotLoadAndEnd DEF Next

\* Slots, publications and queue rows never contradict one another.
THEOREM SlotsAreSafe == Spec => []SlotInv
BY TypeInit, TypeStep, SlotInit, SlotStep, PTL DEF Spec

\* However jobs are retried, redelivered or lost, and whoever crashes, no asset is
\* published twice.
THEOREM PublishedAtMostOnce == Spec => []NoDoublePublish
<1>1. SlotInv => NoDoublePublish
  BY DEF SlotInv
<1> QED
  BY <1>1, SlotsAreSafe, PTL

\* Connector calls for one asset never overlap.
THEOREM CallsNeverOverlap == Spec => []SlotExclusive
<1>1. SlotInv => SlotExclusive
  BY DEF SlotInv
<1> QED
  BY <1>1, SlotsAreSafe, PTL

\* A row marked 'published' has a live slot and an accepted publish behind it.
THEOREM PublishedRowsAreBacked == Spec => []PublishedRowIsBacked
<1>1. SlotInv => PublishedRowIsBacked
  BY DEF SlotInv
<1> QED
  BY <1>1, SlotsAreSafe, PTL

\* What has been accepted is not tried again: not even a connector call is made for an
\* asset that is published, though a redelivered job puts its row back to 'queued'.
THEOREM AcceptedIsNotCalledAgain == Spec => []NoCallAfterAccept
<1>1. SlotInv => NoCallAfterAccept
  BY DEF SlotInv, OutcomeKnown, NoCallAfterAccept
<1> QED
  BY <1>1, SlotsAreSafe, PTL

-----------------------------------------------------------------------------
(* Authorisation *)

\* From the eligibility check on, the handler's asset is approved and disclosed;
\* approvals are never withdrawn and the tag of an asset never changes.
AuthInv ==
    \A w \in Workers :
        worker[w].pc \in {"claim", "call", "registry"} =>
            worker[w].asset \in approved /\ worker[w].asset \in disclosed

LEMMA AuthStep == ASSUME TypeOK, AuthInv, [Next]_vars PROVE AuthInv'
<1>1. CASE approved \subseteq approved' /\ UNCHANGED <<disclosed, worker>>
  BY <1>1 DEF AuthInv
<1>2. ASSUME NEW w \in Workers, NEW j \in JobIds, LoadUnit(w, j) PROVE AuthInv'
  <2>1. /\ \A v \in Workers : v # w => worker'[v] = worker[v]
        /\ worker'[w].pc \in {Verdict(jobs[j].asset, jobs[j].dryRun), "ack"}
        /\ worker'[w].asset = jobs[j].asset
        /\ approved' = approved /\ disclosed' = disclosed
    BY <1>2 DEF LoadUnit, TypeOK, db
  <2> QED
    BY <2>1 DEF AuthInv, Verdict, Eligible, Disclosed
<1>3. ASSUME NEW w \in Workers, FinishUnit(w) \/ WorkerCrash(w) PROVE AuthInv'
  BY <1>3 DEF FinishUnit, WorkerCrash, IdleWorker, TypeOK, AuthInv, db
<1>4. ASSUME NEW w \in Workers, NEW label \in Labels, Goto(w, label),
             worker[w].pc # "idle", UNCHANGED <<disclosed, approved>>,
             label \in {"call", "registry"} => worker[w].pc \in {"claim", "call", "registry"},
             label # "claim"
      PROVE AuthInv'
  <2>1. /\ \A v \in Workers : v # w => worker'[v] = worker[v]
        /\ worker'[w].pc = label /\ worker'[w].asset = worker[w].asset
    BY <1>4, GotoShape
  <2> QED
    BY <1>4, <2>1 DEF AuthInv
<1>5. ASSUME NEW w \in Workers, NEW r \in Results, ConnectorReturns(w, r) PROVE AuthInv'
  <2>1. worker[w] \in [pc: Labels, job: JobIds, asset: Assets,
                       dryRun: BOOLEAN, result: Results]
    BY <1>5, BusyWorker DEF ConnectorReturns
  <2>2. /\ \A v \in Workers : v # w => worker'[v] = worker[v]
        /\ worker'[w].asset = worker[w].asset /\ worker[w].pc = "call"
        /\ approved' = approved /\ disclosed' = disclosed
    BY <1>5, <2>1 DEF ConnectorReturns, TypeOK, db
  <2> QED
    BY <2>2 DEF AuthInv
<1>6. ASSUME NEW w \in Workers, WorkerStep(w) PROVE AuthInv'
  <2>1. CASE ReleaseIneligible(w) \/ RejectUndisclosed(w) \/ LoseClaim(w) \/ RecordQueue(w)
    BY <2>1, <1>4 DEF ReleaseIneligible, RejectUndisclosed, LoseClaim, RecordQueue,
                      Labels, db
  <2>2. CASE WinClaim(w) \/ RecordRegistry(w)
    BY <2>2, <1>4 DEF WinClaim, RecordRegistry, Labels
  <2> QED
    BY <1>3, <1>5, <1>6, <2>1, <2>2 DEF WorkerStep
<1>7. ASSUME NEW a \in Assets, QueueForDeploy(a) \/ ReGate(a) \/ Approve(a) \/ LeaseGrowsOld(a)
      PROVE AuthInv'
  BY <1>1, <1>7 DEF QueueForDeploy, ReGate, Approve, LeaseGrowsOld
<1>8. ASSUME NEW d \in Dispatchers,
             \/ DispatcherStep(d)
             \/ \E batch \in SUBSET Assets : ClaimBatch(d, batch)
             \/ EnqueueFails(d)
             \/ DispatcherCrash(d)
      PROVE AuthInv'
  BY <1>1, <1>8 DEF DispatcherStep, StartDispatch, EnqueueUnit, FinishDispatch,
                    ClaimBatch, EnqueueFails, DispatcherCrash, db
<1>9. ASSUME (\E j \in JobIds : ExpireJob(j)) \/ UNCHANGED vars PROVE AuthInv'
  BY <1>1, <1>9 DEF ExpireJob, vars, db
<1> QED
  BY <1>2, <1>3, <1>6, <1>7, <1>8, <1>9 DEF Next

\* No connector is called for an unapproved asset, or without a required tag.
THEOREM CallsAreAuthorised == Spec => []CallIsAuthorised
<1>1. Init => AuthInv
  BY DEF Init, AuthInv, IdleWorker
<1>2. AuthInv => CallIsAuthorised
  BY DEF AuthInv, CallIsAuthorised
<1> QED
  BY <1>1, <1>2, AuthStep, TypeInit, TypeStep, PTL DEF Spec

-----------------------------------------------------------------------------
(* No forgotten claim *)

\* What the code needs to settle every claim: its processes live, its writes succeed, and
\* no connector answers THROTTLED, which none of src/deploy/connectors does.
NothingStops == "crash" \notin Faults /\ "db" \notin Faults /\ "throttled" \notin Outcomes

\* A step of a handler that holds no claim.
LEMMA ClaimFrame ==
    ASSUME NoOrphanClaim, registry' = registry, NEW w \in Workers, ~Holds(w),
           \A v \in Workers : v # w => worker'[v] = worker[v]
    PROVE  NoOrphanClaim'
BY DEF NoOrphanClaim, Holds

\* A dry run never comes to claim a slot.
ClaimsAreReal == \A w \in Workers : worker[w].pc = "claim" => ~worker[w].dryRun

LEMMA RealStep == ASSUME TypeOK, ClaimsAreReal, [Next]_vars PROVE ClaimsAreReal'
<1>1. CASE worker' = worker
  BY <1>1 DEF ClaimsAreReal
<1>2. ASSUME NEW w \in Workers, NEW j \in JobIds, LoadUnit(w, j)
      PROVE  ClaimsAreReal'
  <2>1. /\ \A v \in Workers : v # w => worker'[v] = worker[v]
        /\ worker'[w].pc \in {Verdict(jobs[j].asset, jobs[j].dryRun), "ack"}
        /\ worker'[w].dryRun = jobs[j].dryRun
    BY <1>2 DEF LoadUnit, TypeOK
  <2> QED
    BY <2>1 DEF ClaimsAreReal, Verdict
<1>3. ASSUME NEW w \in Workers, NEW label \in Labels, Goto(w, label), worker[w].pc # "idle",
             label # "claim"
      PROVE  ClaimsAreReal'
  <2>1. worker'[w].pc = label /\ \A v \in Workers : v # w => worker'[v] = worker[v]
    BY <1>3, GotoShape
  <2> QED
    BY <1>3, <2>1 DEF ClaimsAreReal
<1>4. ASSUME NEW w \in Workers, NEW r \in Results, ConnectorReturns(w, r)
      PROVE  ClaimsAreReal'
  <2>1. worker[w] \in [pc: Labels, job: JobIds, asset: Assets, dryRun: BOOLEAN, result: Results]
    BY <1>4, BusyWorker DEF ConnectorReturns
  <2>2. worker'[w].pc \in {"queue", "registry"} /\ \A v \in Workers : v # w => worker'[v] = worker[v]
    BY <1>4, <2>1 DEF ConnectorReturns, TypeOK
  <2> QED
    BY <2>2 DEF ClaimsAreReal
<1>5. ASSUME NEW w \in Workers, FinishUnit(w) \/ WorkerCrash(w)
      PROVE  ClaimsAreReal'
  BY <1>5 DEF FinishUnit, WorkerCrash, IdleWorker, TypeOK, ClaimsAreReal
<1>6. ASSUME NEW w \in Workers,
             \/ ReleaseIneligible(w) \/ RejectUndisclosed(w) \/ WinClaim(w) \/ LoseClaim(w)
             \/ RecordRegistry(w) \/ RecordQueue(w)
      PROVE  ClaimsAreReal'
  BY <1>3, <1>6 DEF ReleaseIneligible, RejectUndisclosed, WinClaim, LoseClaim, RecordRegistry,
                    RecordQueue, Labels
<1>7. ASSUME NEW a \in Assets, QueueForDeploy(a) \/ ReGate(a) \/ Approve(a) \/ LeaseGrowsOld(a)
      PROVE  ClaimsAreReal'
  BY <1>1, <1>7 DEF QueueForDeploy, ReGate, Approve, LeaseGrowsOld
<1>8. ASSUME NEW d \in Dispatchers,
             \/ DispatcherStep(d)
             \/ \E batch \in SUBSET Assets : ClaimBatch(d, batch)
             \/ EnqueueFails(d)
             \/ DispatcherCrash(d)
      PROVE  ClaimsAreReal'
  BY <1>1, <1>8 DEF DispatcherStep, StartDispatch, EnqueueUnit, FinishDispatch,
                    ClaimBatch, EnqueueFails, DispatcherCrash
<1>9. ASSUME (\E j \in JobIds : ExpireJob(j)) \/ UNCHANGED vars
      PROVE  ClaimsAreReal'
  BY <1>1, <1>9 DEF ExpireJob, vars
<1> QED
  BY <1>2, <1>4, <1>5, <1>6, <1>7, <1>8, <1>9 DEF Next, WorkerStep

LEMMA ClaimStep ==
    ASSUME NothingStops, TypeOK, SlotInv, ClaimsAreReal, NoOrphanClaim, [Next]_vars
    PROVE  NoOrphanClaim'
<1>1. CASE registry' = registry /\ worker' = worker
  BY <1>1 DEF NoOrphanClaim, Holds
<1>2. ASSUME NEW w \in Workers, NEW j \in JobIds, LoadUnit(w, j)
      PROVE  NoOrphanClaim'
  <2>1. ~Holds(w) /\ registry' = registry /\ \A v \in Workers : v # w => worker'[v] = worker[v]
    BY <1>2 DEF LoadUnit, IdleWorker, Holds, TypeOK, db
  <2> QED
    BY <2>1, ClaimFrame
<1>3. ASSUME NEW w \in Workers,
             \/ ReleaseIneligible(w) \/ RejectUndisclosed(w) \/ LoseClaim(w)
             \/ RecordQueue(w) \/ FinishUnit(w)
      PROVE  NoOrphanClaim'
  <2>1. ~Holds(w) /\ registry' = registry /\ \A v \in Workers : v # w => worker'[v] = worker[v]
    BY <1>3 DEF ReleaseIneligible, RejectUndisclosed, LoseClaim, RecordQueue, FinishUnit, Goto,
                Holds, TypeOK, db
  <2> QED
    BY <2>1, ClaimFrame
<1>4. ASSUME NEW w \in Workers, WinClaim(w)
      PROVE  NoOrphanClaim'
  <2>1. /\ \A v \in Workers : v # w => worker'[v] = worker[v]
        /\ worker'[w].pc = "call" /\ worker'[w].asset = worker[w].asset
        /\ worker'[w].dryRun = worker[w].dryRun
    BY <1>4, GotoShape DEF WinClaim
  <2>2. ~worker[w].dryRun /\ ~Holds(w)
    BY <1>4 DEF WinClaim, ClaimsAreReal, Holds
  <2>3. registry' = [registry EXCEPT ![worker[w].asset] = "publishing"]
    BY <1>4 DEF WinClaim
  <2> QED
    BY <2>1, <2>2, <2>3 DEF NoOrphanClaim, Holds, TypeOK
<1>5. ASSUME NEW w \in Workers, NEW r \in Results, ConnectorReturns(w, r)
      PROVE  NoOrphanClaim'
  <2>1. worker[w] \in [pc: Labels, job: JobIds, asset: Assets, dryRun: BOOLEAN, result: Results]
    BY <1>5, BusyWorker DEF ConnectorReturns
  <2>2. /\ \A v \in Workers : v # w => worker'[v] = worker[v]
        /\ worker'[w].asset = worker[w].asset /\ worker'[w].dryRun = worker[w].dryRun
        /\ ~worker[w].dryRun /\ r # "throttled" => worker'[w].pc = "registry"
        /\ registry' = registry
    BY <1>5, <2>1 DEF ConnectorReturns, TypeOK, db
  <2>3. CASE worker[w].dryRun
    BY <2>2, <2>3, ClaimFrame DEF Holds
  <2>4. CASE ~worker[w].dryRun
    <3>1. r # "throttled"
      BY <1>5, <2>4 DEF ConnectorReturns, ResultsOf, NothingStops
    <3> QED
      BY <2>2, <2>4, <3>1 DEF NoOrphanClaim, Holds
  <2> QED
    BY <2>1, <2>3, <2>4
<1>6. ASSUME NEW w \in Workers, RecordRegistry(w)
      PROVE  NoOrphanClaim'
  <2>1. worker[w].asset \in Assets
    BY <1>6, BusyWorker DEF RecordRegistry
  <2>2. \A v \in Workers : v # w => worker'[v] = worker[v]
    BY <1>6, GotoShape DEF RecordRegistry
  <2>3. registry[worker[w].asset] = "publishing"
    BY <1>6 DEF RecordRegistry, SlotInv, OutcomeKnown, SlotHeld, Holds
  <2>4. registry' = [registry EXCEPT ![worker[w].asset] = SlotAfter(worker[w].result)]
    BY <1>6, <2>3 DEF RecordRegistry, NothingStops
  <2>5. SlotAfter(worker[w].result) # "publishing"
    BY DEF SlotAfter
  <2> QED
    BY <2>1, <2>2, <2>4, <2>5 DEF NoOrphanClaim, Holds, TypeOK
<1>7. ASSUME NEW w \in Workers, WorkerCrash(w)
      PROVE  NoOrphanClaim'
  BY <1>7 DEF WorkerCrash, NothingStops
<1>8. ASSUME NEW a \in Assets, QueueForDeploy(a) \/ ReGate(a) \/ Approve(a) \/ LeaseGrowsOld(a)
      PROVE  NoOrphanClaim'
  BY <1>1, <1>8 DEF QueueForDeploy, ReGate, Approve, LeaseGrowsOld
<1>9. ASSUME NEW d \in Dispatchers,
             \/ DispatcherStep(d)
             \/ \E batch \in SUBSET Assets : ClaimBatch(d, batch)
             \/ EnqueueFails(d)
             \/ DispatcherCrash(d)
      PROVE  NoOrphanClaim'
  BY <1>1, <1>9 DEF DispatcherStep, StartDispatch, EnqueueUnit, FinishDispatch,
                    ClaimBatch, EnqueueFails, DispatcherCrash, db
<1>10. ASSUME (\E j \in JobIds : ExpireJob(j)) \/ UNCHANGED vars
       PROVE  NoOrphanClaim'
  BY <1>1, <1>10 DEF ExpireJob, vars, db
<1> QED
  BY <1>2, <1>3, <1>4, <1>5, <1>6, <1>7, <1>8, <1>9, <1>10 DEF Next, WorkerStep

\* However jobs are lost, retried and redelivered, a slot is 'publishing' only while a handler
\* holds it.
THEOREM ClaimsAreSettled == NothingStops => (Spec => []NoOrphanClaim)
<1>1. CASE NothingStops
  <2>1. Init => NoOrphanClaim /\ ClaimsAreReal
    BY DEF Init, NoOrphanClaim, ClaimsAreReal, IdleWorker
  <2>2. TypeOK /\ SlotInv /\ ClaimsAreReal /\ NoOrphanClaim /\ [Next]_vars => NoOrphanClaim'
    BY <1>1, ClaimStep
  <2> QED
    BY <2>1, <2>2, RealStep, TypeInit, TypeStep, SlotInit, SlotStep, PTL DEF Spec
<1> QED
  BY <1>1

-----------------------------------------------------------------------------
(* Refinement of PublishOnce *)

Taken == {a \in Assets : registry[a] # "free"}

LEMMA LiveStep ==
    ASSUME TypeOK, SlotInv, [Next]_vars
    PROVE  [Live!Next]_<<Taken, accepted>>
<1> USE DEF Taken
<1>1. CASE UNCHANGED <<registry, accepted>>
  BY <1>1
<1>2. ASSUME NEW w \in Workers, WinClaim(w) PROVE Live!Next
  <2>1. PICK a \in Assets : a = worker[w].asset
    BY <1>2, BusyWorker DEF WinClaim
  <2>2. Live!Take(a)
    BY <1>2, <2>1 DEF WinClaim, SlotFree, Live!Take, TypeOK
  <2> QED
    BY <2>2 DEF Live!Next
<1>3. ASSUME NEW w \in Workers, NEW r \in Results, ConnectorReturns(w, r)
      PROVE  Live!Next \/ UNCHANGED <<registry, accepted>>
  <2>1. PICK a \in Assets : a = worker[w].asset
    BY <1>3, BusyWorker DEF ConnectorReturns
  <2>2. CASE r = "ok"
    <3>1. ~worker[w].dryRun /\ worker[w].pc = "call"
      BY <1>3, <2>2 DEF ConnectorReturns, ResultsOf
    <3>2. accepted[a] = 0 /\ registry[a] = "publishing"
      BY <3>1, <2>1 DEF SlotInv, SlotHeld, OutcomeKnown, Holds
    <3>3. accepted' = [accepted EXCEPT ![a] = accepted[a] + 1] /\ registry' = registry
      BY <1>3, <2>1, <2>2 DEF ConnectorReturns, db
    <3>4. Live!Publish(a)
      BY <3>2, <3>3 DEF Live!Publish
    <3> QED
      BY <3>4 DEF Live!Next
  <2>3. CASE r # "ok"
    BY <1>3, <2>3 DEF ConnectorReturns, db
  <2> QED
    BY <2>2, <2>3
<1>4. ASSUME NEW w \in Workers, RecordRegistry(w)
      PROVE  Live!Next \/ UNCHANGED <<Taken, accepted>>
  <2>1. PICK a \in Assets : a = worker[w].asset
    BY <1>4, BusyWorker DEF RecordRegistry
  <2>2. /\ accepted[a] = IF worker[w].result = "ok" THEN 1 ELSE 0
        /\ registry[a] = "publishing"
    BY <1>4, <2>1 DEF RecordRegistry, SlotInv, OutcomeKnown, SlotHeld, Holds
  <2>3. accepted' = accepted
    BY <1>4 DEF RecordRegistry
  <2>4. CASE registry' = registry \/ worker[w].result = "ok"
    BY <1>4, <2>1, <2>2, <2>3, <2>4 DEF RecordRegistry, SlotAfter, TypeOK
  <2>5. CASE registry' # registry /\ worker[w].result # "ok"
    <3>1. registry' = [registry EXCEPT ![a] = "free"]
      BY <1>4, <2>1, <2>5 DEF RecordRegistry, SlotAfter
    <3>2. Live!GiveBack(a)
      BY <2>2, <2>3, <2>5, <3>1 DEF Live!GiveBack, TypeOK
    <3> QED
      BY <3>2 DEF Live!Next
  <2> QED
    BY <2>4, <2>5
<1>5. ASSUME NEW w \in Workers, WorkerStep(w)
      PROVE  Live!Next \/ UNCHANGED <<Taken, accepted>>
  <2>1. CASE ReleaseIneligible(w) \/ RejectUndisclosed(w) \/ LoseClaim(w)
             \/ RecordQueue(w) \/ FinishUnit(w)
    BY <2>1, <1>1 DEF ReleaseIneligible, RejectUndisclosed, LoseClaim, RecordQueue,
                      FinishUnit, db
  <2> QED
    BY <1>2, <1>3, <1>4, <1>5, <2>1 DEF WorkerStep
<1>6. ASSUME NEW a \in Assets, QueueForDeploy(a) \/ ReGate(a) \/ Approve(a) \/ LeaseGrowsOld(a)
      PROVE UNCHANGED <<registry, accepted>>
  BY <1>6 DEF QueueForDeploy, ReGate, Approve, LeaseGrowsOld
<1>7. ASSUME NEW d \in Dispatchers,
             \/ DispatcherStep(d)
             \/ \E batch \in SUBSET Assets : ClaimBatch(d, batch)
             \/ EnqueueFails(d)
             \/ DispatcherCrash(d)
      PROVE UNCHANGED <<registry, accepted>>
  BY <1>7 DEF DispatcherStep, StartDispatch, EnqueueUnit, FinishDispatch,
              ClaimBatch, EnqueueFails, DispatcherCrash, db
<1>8. ASSUME (\E j \in JobIds : ExpireJob(j)) \/ UNCHANGED vars
             \/ (\E w \in Workers : WorkerCrash(w) \/ \E j \in JobIds : LoadUnit(w, j))
      PROVE UNCHANGED <<registry, accepted>>
  BY <1>8 DEF ExpireJob, WorkerCrash, LoadUnit, vars, db
<1> QED
  BY <1>1, <1>5, <1>6, <1>7, <1>8 DEF Next

\* The pipeline implements PublishOnce: the live registry rows are the taken slots,
\* the accepted connector answers the publications.
THEOREM PipelineRefinesPublishOnce == Spec => ImplementsPublishOnce
<1>1. Init => Live!Init
  BY DEF Init, Live!Init
<1>2. TypeOK /\ SlotInv /\ [Next]_vars => [Live!Next]_<<Taken, accepted>>
  BY LiveStep
<1> QED
  BY <1>1, <1>2, TypeInit, TypeStep, SlotInit, SlotStep, PTL
     DEF Spec, ImplementsPublishOnce, Live!Spec, Taken

=============================================================================
