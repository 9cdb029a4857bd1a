---------------------------- MODULE OperatingCycle ----------------------------
(***************************************************************************)
(* One operating run of src/pipeline/runCycle.ts (PATH B): the cycle.plan  *)
(* job freezes the plan and fans out response.run jobs, handlers execute   *)
(* them, and the cycle.aggregate job waits for the units, assembles the    *)
(* report and finishes the run.  The three kinds of jobs live on pg-boss   *)
(* and meet only in the run and work_unit tables.                          *)
(*                                                                         *)
(* A cycle.plan job that dies is retried, but its retry creates a run of   *)
(* its own: another instance of this module.                               *)
(***************************************************************************)
EXTENDS Responses

CONSTANTS
    Plans,              \* the plans buildPlan may return: sets of units
    Tiers,              \* density tiers whose rotation cursor this run advances
    Slow,               \* units whose handler can outlast the expiry of its job
    ResponseRetries,    \* retryLimit of response.run (3 in runCycle.ts)
    AggregateRetries    \* retryLimit of cycle.aggregate (5 in runCycle.ts)

ASSUME OperatingAssumption ==
    /\ Plans \subseteq SUBSET Units
    /\ Slow \subseteq Units
    /\ IsFiniteSet(Tiers)
    /\ ResponseRetries \in Nat
    /\ AggregateRetries \in Nat

VARIABLES
    run,        \* run.status ("none": not created yet)
    nTotal,     \* run.n_total, 0 while it is null
    advanced,   \* tiers whose rotation_state this run has advanced
    planner,    \* local state of the cycle.plan handler
    jobs,       \* the response.run job of each unit
    agg,        \* the cycle.aggregate job and its handler
    beside      \* history: deliveries of a cell beside a handler that still ran

cycleVars == <<run, nTotal, advanced, planner, jobs, agg, beside>>
vars == <<responseVars, cycleVars>>

RunStatus == {"none", "planned", "running", "completed", "failed", "over_budget"}
Finished  == {"completed", "failed", "over_budget"}

TypeOK ==
    /\ ResponsesTypeOK
    /\ run \in RunStatus
    /\ nTotal \in 0..Cardinality(Units)
    /\ advanced \subseteq Tiers
    /\ planner \in [pc: {"plan", "preflight", "snapshot", "empty", "persist", "enqueue", "end"},
                    plan: SUBSET Units, todo: SUBSET Units]
    /\ jobs \in [Units -> [state: {"none", "created", "active", "ended"},
                           left: 0..ResponseRetries]]
    /\ agg \in [job: {"none", "created", "active", "completed", "dead"},
                left: 0..AggregateRetries,
                pc: {"idle", "poll", "check", "assemble", "finish", "deliver"},
                status: {"completed", "failed", "over_budget"},
                late: BOOLEAN]  \* history: the last aggregation left units pending
    /\ beside \in [Units -> Nat]

Init ==
    /\ ResponsesInit
    /\ run = "none"
    /\ nTotal = 0
    /\ advanced = {}
    /\ planner = [pc |-> "plan", plan |-> {}, todo |-> {}]
    /\ jobs = [u \in Units |-> [state |-> "none", left |-> ResponseRetries]]
    /\ agg = [job |-> "none", left |-> AggregateRetries, pc |-> "idle",
              status |-> "completed", late |-> FALSE]
    /\ beside = [u \in Units |-> 0]

-----------------------------------------------------------------------------
(* cycle.plan: runCycle *)

At(label) == planner.pc = label
GoOn(label) == planner' = [planner EXCEPT !.pc = label]

\* STEPS 1 and 2: createRun and buildPlan.
CreateRun ==
    /\ At("plan")
    /\ run' = "planned"
    /\ \E plan \in Plans :
        planner' = [pc |-> "preflight", plan |-> plan, todo |-> plan]
    /\ UNCHANGED <<responseVars, nTotal, advanced, jobs, agg, beside>>

\* STEP 3: the estimate does not fit the budget, and the run ends, or it does.
Preflight ==
    /\ At("preflight")
    /\ \/ "budget" \in Faults /\ run' = "over_budget" /\ GoOn("end")
       \/ UNCHANGED run /\ GoOn("snapshot")
    /\ UNCHANGED <<responseVars, nTotal, advanced, jobs, agg, beside>>

\* STEP 4: the denominator is frozen before anything is executed.
SnapshotNTotal ==
    /\ At("snapshot")
    /\ nTotal' = Cardinality(planner.plan)
    /\ GoOn(IF planner.plan = {} THEN "empty" ELSE "persist")
    /\ UNCHANGED <<responseVars, run, advanced, jobs, agg, beside>>

\* A plan without units completes the run at once.
FinishEmpty ==
    /\ At("empty")
    /\ run' = "completed"
    /\ GoOn("end")
    /\ UNCHANGED <<responseVars, nTotal, advanced, jobs, agg, beside>>

\* STEP 5, unit by unit.
PersistUnit(u) ==
    /\ At("persist")
    /\ u \in planner.plan \ Present
    /\ InsertWorkUnit(u)
    /\ UNCHANGED <<judged, cut, exec, cycleVars>>

\* Mutation: the cursors do not wait for the units.
PersistedAny == TRUE

AllPersisted == planner.plan \subseteq Present

\* STEP 6, tier by tier.
AdvanceRotationState(t) ==
    /\ At("persist")
    /\ AllPersisted
    /\ t \notin advanced
    /\ advanced' = advanced \cup {t}
    /\ UNCHANGED <<responseVars, run, nTotal, planner, jobs, agg, beside>>

\* STEP 7.
StartRun ==
    /\ At("persist")
    /\ AllPersisted
    /\ advanced = Tiers
    /\ run' = "running"
    /\ GoOn("enqueue")
    /\ UNCHANGED <<responseVars, nTotal, advanced, jobs, agg, beside>>

\* STEP 8, PATH B: one job per unit.
EnqueueResponse(u) ==
    /\ At("enqueue")
    /\ u \in planner.todo
    /\ planner' = [planner EXCEPT !.todo = @ \ {u}]
    /\ jobs' = [jobs EXCEPT ![u].state = "created"]
    /\ UNCHANGED <<responseVars, run, nTotal, advanced, agg, beside>>

EnqueueAggregate ==
    /\ At("enqueue")
    /\ planner.todo = {}
    /\ GoOn("end")
    /\ agg' = [agg EXCEPT !.job = "created"]
    /\ UNCHANGED <<responseVars, run, nTotal, advanced, jobs, beside>>

PlannerDies ==
    /\ "plan" \in Faults
    /\ ~At("end")
    /\ GoOn("end")
    /\ UNCHANGED <<responseVars, run, nTotal, advanced, jobs, agg, beside>>

-----------------------------------------------------------------------------
(* response.run: runResponse under the worker's handler *)

\* A handler is at work on u, or has not reported back.
Running(u) == \E e \in Executors : exec[e].pc # "idle" /\ exec[e].unit = u

TakeResponse(e, u) ==
    /\ jobs[u].state = "created"
    /\ BeginResponse(e, u)
    /\ jobs' = [jobs EXCEPT ![u].state = "active"]
    /\ beside' = IF Running(u) THEN [beside EXCEPT ![u] = @ + 1] ELSE beside
    /\ UNCHANGED <<run, nTotal, advanced, planner, agg>>

RunResponse(e) ==
    /\ ResponseStep(e) \/ Throw(e)
    /\ UNCHANGED cycleVars

\* A failed job goes back to the queue while retries are left.
RetriedJob(job) ==
    IF job.left = 0 THEN [job EXCEPT !.state = "ended"]
    ELSE [state |-> "created", left |-> job.left - 1]

\* The worker rethrows RetryableJobError and swallows everything else.
Rethrown(result) == result = "retryable"

FinishResponse(e) ==
    /\ exec[e].pc = "returned"
    /\ exec' = [exec EXCEPT ![e] = Idle]
    /\ jobs' = [jobs EXCEPT ![exec[e].unit] =
            IF @.state # "active" THEN @
            ELSE IF Rethrown(exec[e].result) THEN RetriedJob(@)
            ELSE [@ EXCEPT !.state = "ended"]]
    /\ UNCHANGED <<unit, judged, cut, run, nTotal, advanced, planner, agg, beside>>

ResponseDies(e) ==
    /\ "crash" \in Faults
    /\ exec[e] # Idle
    /\ Abandon(e)
    /\ UNCHANGED cycleVars

\* pg-boss gives up on an active job, because its handler is gone or has not ended in
\* time, and delivers it again.
ExpireResponse(u) ==
    /\ jobs[u].state = "active"
    /\ u \in Slow \/ ~Running(u)
    /\ jobs' = [jobs EXCEPT ![u] = RetriedJob(@)]
    /\ UNCHANGED <<responseVars, run, nTotal, advanced, planner, agg, beside>>

-----------------------------------------------------------------------------
(* cycle.aggregate: runCycleAggregate *)

TakeAggregate ==
    /\ agg.job = "created"
    /\ agg' = [agg EXCEPT !.job = "active", !.pc = "poll"]
    /\ UNCHANGED <<responseVars, run, nTotal, advanced, planner, jobs, beside>>

\* Mutation: the poll looks at the jobs, and not at the units.
NoJobOutstanding == \A u \in Units : jobs[u].state # "active"

AllTerminal == Pending = {}

\* The loop ends when a poll finds no pending unit, or at its deadline.
EndPoll ==
    /\ agg.pc = "poll"
    /\ AllTerminal
    /\ agg' = [agg EXCEPT !.pc = "check"]
    /\ UNCHANGED <<responseVars, run, nTotal, advanced, planner, jobs, beside>>

Deadline ==
    /\ agg.pc = "poll"
    /\ ~AllTerminal
    /\ agg' = [agg EXCEPT !.pc = "check"]
    /\ UNCHANGED <<responseVars, run, nTotal, advanced, planner, jobs, beside>>

\* An error rate of 1 among the terminal units.
AllErrors ==
    /\ \E u \in Units : unit[u] = "error"
    /\ \A u \in Units : unit[u] \notin {"done", "skipped"}

\* The counts are read again, and they decide how the run will end.
CheckCounts ==
    /\ agg.pc = "check"
    /\ agg' = [agg EXCEPT
            !.pc = "assemble",
            !.late = ~AllTerminal,
            !.status = IF run = "over_budget" THEN "over_budget"
                       ELSE IF AllErrors THEN "failed" ELSE "completed"]
    /\ UNCHANGED <<responseVars, run, nTotal, advanced, planner, jobs, beside>>

\* Mutation: a failed aggregate job is not queued again.
AggregateForgotten == [agg EXCEPT !.pc = "idle"]

\* The aggregate job is retried like any other; without retries left it is dead.
RetriedAggregate ==
    IF agg.left = 0 THEN [agg EXCEPT !.job = "dead", !.pc = "idle"]
    ELSE [agg EXCEPT !.job = "created", !.pc = "idle", !.left = @ - 1]

\* assembleReport: a failure fails the run and is rethrown.
AssembleReport ==
    /\ agg.pc = "assemble"
    /\ \/ /\ agg' = [agg EXCEPT !.pc = "finish"]
          /\ UNCHANGED run
       \/ /\ "assemble" \in Faults
          /\ run' = "failed"
          /\ agg' = RetriedAggregate
    /\ UNCHANGED <<responseVars, nTotal, advanced, planner, jobs, beside>>

FinishRun ==
    /\ agg.pc = "finish"
    /\ run' = agg.status
    /\ agg' = [agg EXCEPT !.pc = "deliver"]
    /\ UNCHANGED <<responseVars, nTotal, advanced, planner, jobs, beside>>

\* The worker asks for the kind of the run and enqueues report.deliver, and only then
\* is the job completed: if either throws, the whole aggregation is delivered again,
\* on a run that has ended.
EnqueueDelivery ==
    /\ agg.pc = "deliver"
    /\ \/ agg' = [agg EXCEPT !.job = "completed", !.pc = "idle"]
       \/ "db" \in Faults /\ agg' = RetriedAggregate
    /\ UNCHANGED <<responseVars, run, nTotal, advanced, planner, jobs, beside>>

AggregateDies ==
    /\ "aggregate" \in Faults
    /\ agg.job = "active"
    /\ agg' = RetriedAggregate
    /\ UNCHANGED <<responseVars, run, nTotal, advanced, planner, jobs, beside>>

-----------------------------------------------------------------------------
PlannerStep ==
    \/ CreateRun
    \/ Preflight
    \/ SnapshotNTotal
    \/ FinishEmpty
    \/ \E u \in Units : PersistUnit(u) \/ EnqueueResponse(u)
    \/ \E t \in Tiers : AdvanceRotationState(t)
    \/ StartRun
    \/ EnqueueAggregate

HandlerStep(e) == RunResponse(e) \/ FinishResponse(e)

AggregateStep ==
    \/ TakeAggregate
    \/ EndPoll
    \/ Deadline
    \/ CheckCounts
    \/ AssembleReport
    \/ FinishRun
    \/ EnqueueDelivery

Next ==
    \/ PlannerStep
    \/ PlannerDies
    \/ \E e \in Executors :
        \/ \E u \in Units : TakeResponse(e, u)
        \/ HandlerStep(e)
        \/ ResponseDies(e)
    \/ \E u \in Units : ExpireResponse(u)
    \/ AggregateStep
    \/ AggregateDies

Spec == Init /\ [][Next]_vars

\* The aggregate handler polls, gives up at its deadline, and runs to its end.
FairSpec == Spec /\ WF_vars(AggregateStep)

-----------------------------------------------------------------------------
(* Properties *)

\* Nothing is executed outside the frozen plan: while a job is outstanding or a
\* handler runs, the run has started, its units are those of the plan, and there are
\* n_total of them, so the numerator and the denominator of the SMR speak of the same
\* cells (repo.ts:1041-1043, DESIGN.md:221).
MeasuredUnderFrozenPlan ==
    (\E u \in Units : jobs[u].state # "none") =>
        /\ run \notin {"none", "planned"}
        /\ Present = planner.plan
        /\ Cardinality(Present) = nTotal

\* Why: the plan is frozen before the first unit, the units are complete before the
\* run starts, the run starts before the first job, and handlers work on jobs only.
PlanInv ==
    /\ planner.pc \in {"plan", "preflight", "snapshot"} => Present = {}
    /\ Present \subseteq planner.plan
    /\ planner.todo \subseteq planner.plan
    /\ planner.pc \in {"persist", "enqueue"} => nTotal = Cardinality(planner.plan)
    /\ planner.pc = "enqueue" =>
        planner.plan \subseteq Present /\ run \notin {"none", "planned"}
    /\ \A u \in Units : jobs[u].state # "none" =>
        u \in planner.plan /\ planner.pc \in {"enqueue", "end"}
    /\ \A e \in Executors : exec[e].pc # "idle" => jobs[exec[e].unit].state # "none"
    /\ MeasuredUnderFrozenPlan

\* A cell is counted once in the numerator of the SMR, however often its job is retried,
\* except for what the code cannot help: a handler cut off between insertJudgment and
\* markWorkUnitDone (runResponse.ts steps 9-11), and a delivery beside a handler that
\* still runs, cost one judgment each at most ("the SMR numerator can never exceed the
\* frozen n_total", runCycle.ts step 2b).
CountedOnce == \A u \in Units : judged[u] <= 1 + cut[u] + beside[u]

\* Why: a handler that may still judge its cell has one judgment to give, there is one
\* such handler unless it was delivered beside another, and none starts on a done cell.
Fresh(u) == {e \in Executors : exec[e].unit = u /\ exec[e].pc \in {"start", "failing", "judge"}}

Marking(u) == \E e \in Executors : exec[e].pc = "mark" /\ exec[e].unit = u

CountInv ==
    /\ \A u \in Units : judged[u] + Cardinality(Fresh(u)) <= 1 + cut[u] + beside[u]
    /\ \A u \in Units : unit[u] # "done" /\ Fresh(u) = {} /\ ~Marking(u)
            => judged[u] <= cut[u] + beside[u]

\* Why a cell keeps its measurement: without such a delivery it has one handler at a time,
\* which does not start when the cell is done.
AloneInv ==
    /\ \A e, f \in Executors :
        exec[e].pc # "idle" /\ exec[f].pc # "idle" /\ exec[e].unit = exec[f].unit =>
            e = f \/ beside[exec[e].unit] # 0
    /\ \A e \in Executors :
        exec[e].pc \in {"start", "failing", "judge", "mark"} =>
            unit[exec[e].unit] # "done" \/ beside[exec[e].unit] # 0

\* A cell that is done stays done, whatever retries and restarts do to its job: no late
\* failure takes back a measurement that has been counted, unless two handlers of the
\* cell ran side by side (markWorkUnitError has no condition, runResponse.ts:327).
DoneIsFinal ==
    [][\A u \in Units : unit[u] = "done" /\ beside[u] = 0 => unit'[u] = "done"]_vars

\* A run that is finished without reaching the deadline has nothing left to measure.
CompletedIsComplete == run \in {"completed", "failed"} /\ ~agg.late => Pending = {}

\* Why: cells are pending from step 5 of the planner on, which is over before a run can
\* end, no cell becomes pending again, and the aggregation looks before it finishes.
EndInv ==
    /\ run \in {"completed", "failed"} => planner.pc = "end"
    /\ agg.job # "none" => planner.pc = "end"
    /\ agg.pc # "idle" => agg.job = "active"
    /\ planner.pc = "empty" => planner.plan = {}
    /\ agg.pc \in {"assemble", "finish", "deliver"} /\ ~agg.late => Pending = {}
    /\ \A u \in Units : unit[u] # "skipped"
    /\ CompletedIsComplete

\* After such an aggregation the only figures that can still move are those of a cell in
\* 'error' whose job is being retried, and of a cell two handlers work on: every other
\* handler is through with it.
OnlyRetriesComeLate ==
    [][run = "completed" /\ ~agg.late =>
        \A u \in Units : judged'[u] # judged[u] => unit[u] = "error" \/ beside[u] > 0]_vars

\* A run is never reported complete while cells of it are pending: at the deadline
\* it is aggregated in part "and marked as failed" (runCycle.ts:1057-1060).
TimedOutIsNotCompleted == run = "completed" => Pending = {}

\* An aggregate job that was enqueued ends the run or is dead-lettered, even if units
\* stay pending for ever.
RunEnds == agg.job = "created" ~> run \in Finished \/ agg.job = "dead"

-----------------------------------------------------------------------------
(* What a run implements: each cell of a frozen plan is measured once      *)

FrozenPlan == IF nTotal = 0 THEN {} ELSE planner.plan

\* A cell two handlers worked on side by side is given up: nothing is promised of it.
CellState == [u \in Units |->
    IF beside[u] > 0 THEN "void" ELSE IF unit[u] \in {"done", "error"} THEN unit[u] ELSE "open"]

\* A judgment stands unless its handler was cut off before it marked the cell.
Standing == [u \in Units |-> IF beside[u] > 0 THEN 0 ELSE judged[u] - cut[u]]

CompletedInTime == run = "completed" /\ ~agg.late

Promise == INSTANCE MeasureOnce WITH
    Cells <- Units, plan <- FrozenPlan, state <- CellState, live <- Standing,
    complete <- CompletedInTime

\* Every step of the three handlers is a step of MeasureOnce or changes nothing there:
\* the plan is frozen before the first judgment, a cell is given a second judgment only
\* when the first was cut off, a done cell is never touched again, a run is completed in
\* time only when no cell is open, and all this survives an aggregation that is delivered
\* again and withdraws the report (DESIGN.md:221; runCycle.ts, steps 2b and 4).
ImplementsMeasureOnce == Promise!Spec

\* Why: the judgments of a cell are those cut off, and one more where the cell is done
\* or a handler is about to mark it.
LiveInv ==
    \A u \in Units : beside[u] = 0 =>
        judged[u] = cut[u] + (IF unit[u] = "done" \/ Marking(u) THEN 1 ELSE 0)

\* Why: n_total is written once, after which the plan stays, an aggregation is of a plan
\* with units and finds them all, and a run is completed by the planner of an empty plan or by an
\* aggregate job.
FreezeInv ==
    /\ planner.pc \in {"plan", "preflight", "snapshot"} => nTotal = 0
    /\ nTotal # 0 => nTotal = Cardinality(planner.plan)
    /\ planner.pc \in {"persist", "enqueue"} \/ agg.job # "none" => nTotal # 0
    /\ agg.job # "none" => planner.plan \subseteq Present
    /\ run = "completed" => agg.job # "none" \/ (nTotal = 0 /\ planner.pc = "end")

=============================================================================
