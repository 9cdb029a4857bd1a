------------------------- MODULE OperatingCycleProofs -------------------------
(***************************************************************************)
(* Proofs about OperatingCycle, for any units, plans, tiers and handlers,  *)
(* any retry limits and any faults, jobs delivered again beside a handler  *)
(* that still runs included: types, the frozen plan, what redelivery and   *)
(* crashes cost a cell, that a run that ended in time is complete, and     *)
(* that all of it implements MeasureOnce.                                  *)
(***************************************************************************)
EXTENDS OperatingCycle, FiniteSetTheorems, TLAPS

-----------------------------------------------------------------------------
(* The steps of runResponse: what a handler works on, and that its steps   *)
(* keep the tables of the units well typed.                                *)

Results == {"none", "ok", "budget", "retryable", "unexpected"}

Busy == [pc: {"start", "failing", "judge", "mark", "returned"}, unit: Units,
         carried: BOOLEAN, result: Results]

\* A handler that is not idle works on a unit.
LEMMA BusyHandler ==
    ASSUME ResponsesTypeOK, NEW e \in Executors, exec[e] # Idle
    PROVE  exec[e] \in Busy
BY DEF ResponsesTypeOK, ExecType, Busy, Results

LEMMA BusyByLabel ==
    ASSUME ResponsesTypeOK, NEW e \in Executors, exec[e].pc # "idle"
    PROVE  exec[e] # Idle /\ exec[e] \in Busy
BY BusyHandler DEF Idle

LEMMA IdleHandler ==
    ASSUME ResponsesTypeOK, NEW e \in Executors, exec[e].pc = "idle"
    PROVE  exec[e] = Idle
BY BusyHandler DEF Busy

\* Moving a busy handler on keeps its type.
LEMMA GotoType ==
    ASSUME ResponsesTypeOK, NEW e \in Executors, exec[e].pc # "idle",
           NEW label \in {"start", "failing", "judge", "mark", "returned"},
           NEW result \in Results,
           Goto(e, label, result)
    PROVE  exec' \in [Executors -> ExecType]
<1>1. [exec[e] EXCEPT !.pc = label, !.result = result] \in Busy
  BY BusyByLabel DEF Busy
<1>2. exec' = [exec EXCEPT ![e] = [exec[e] EXCEPT !.pc = label, !.result = result]]
  BY DEF Goto
<1> QED
  BY <1>1, <1>2 DEF ResponsesTypeOK, ExecType, Busy, Results

LEMMA CutType ==
    ASSUME ResponsesTypeOK, NEW e \in Executors
    PROVE  CutShort(e) \in [Units -> Nat]
<1>1. CASE exec[e].pc = "mark"
  <2>1. exec[e].unit \in Units
    BY <1>1, BusyByLabel DEF Busy
  <2> QED
    BY <1>1, <2>1 DEF CutShort, ResponsesTypeOK
<1>2. CASE exec[e].pc # "mark"
  BY <1>2 DEF CutShort, ResponsesTypeOK
<1> QED
  BY <1>1, <1>2

\* The steps of runResponse keep the tables of the units well typed.
LEMMA ResponseType ==
    ASSUME ResponsesTypeOK, NEW e \in Executors, ResponseStep(e) \/ Throw(e)
    PROVE  ResponsesTypeOK'
<1>1. CASE Generate(e)
  BY <1>1, GotoType DEF ResponsesTypeOK, Generate, Results
<1>2. CASE MarkWorkUnitError(e)
  <2>1. exec[e] \in Busy
    BY <1>2, BusyByLabel DEF MarkWorkUnitError
  <2>2. exec' \in [Executors -> ExecType]
    BY <1>2, <2>1, GotoType DEF MarkWorkUnitError, Busy
  <2> QED
    BY <1>2, <2>2 DEF ResponsesTypeOK, MarkWorkUnitError, FailedStatus, UnitStatus
<1>3. CASE InsertJudgment(e)
  <2>1. exec[e] \in Busy
    BY <1>3, BusyByLabel DEF InsertJudgment
  <2>2. exec' \in [Executors -> ExecType]
    BY <1>3, <2>1, GotoType DEF InsertJudgment, Busy
  <2> QED
    BY <1>3, <2>1, <2>2 DEF ResponsesTypeOK, InsertJudgment, Busy
<1>4. CASE MarkWorkUnitDone(e)
  <2>1. exec[e] \in Busy
    BY <1>4, BusyByLabel DEF MarkWorkUnitDone
  <2>2. exec' \in [Executors -> ExecType]
    BY <1>4, <2>1, GotoType DEF MarkWorkUnitDone, Busy
  <2> QED
    BY <1>4, <2>2 DEF ResponsesTypeOK, MarkWorkUnitDone, UnitStatus
<1>5. CASE Throw(e)
  <2>1. exec' \in [Executors -> ExecType]
    BY <1>5, GotoType DEF Throw, Results
  <2> QED
    BY <1>5, <2>1, CutType DEF ResponsesTypeOK, Throw
<1> QED
  BY <1>1, <1>2, <1>3, <1>4, <1>5 DEF ResponseStep

LEMMA IdleType ==
    ASSUME ResponsesTypeOK, NEW e \in Executors
    PROVE  [exec EXCEPT ![e] = Idle] \in [Executors -> ExecType]
BY DEF ResponsesTypeOK, ExecType

LEMMA BeginType ==
    ASSUME ResponsesTypeOK, NEW e \in Executors, NEW u \in Units, BeginResponse(e, u)
    PROVE  ResponsesTypeOK'
<1>1. [pc |-> Entry(u), unit |-> u, carried |-> FALSE, result |-> "ok"] \in ExecType
  BY DEF Entry, ExecType
<1> QED
  BY <1>1 DEF ResponsesTypeOK, BeginResponse

\* A step of runResponse keeps its handler on the unit it works on.
LEMMA HandlerKeepsUnit ==
    ASSUME ResponsesTypeOK, NEW e \in Executors, ResponseStep(e) \/ Throw(e)
    PROVE  /\ exec[e].pc # "idle"
           /\ \E label \in {"failing", "judge", "mark", "returned"}, r \in Results :
                exec' = [exec EXCEPT ![e] = [@ EXCEPT !.pc = label, !.result = r]]
<1>1. exec[e].pc # "idle"
  BY DEF ResponseStep, Throw, Generate, MarkWorkUnitError, InsertJudgment, MarkWorkUnitDone
<1>2. exec[e].result \in Results
  BY <1>1, BusyByLabel DEF Busy
<1>3. \E label \in {"failing", "judge", "mark", "returned"}, r \in Results : Goto(e, label, r)
  <2>1. CASE Generate(e)
    BY <2>1 DEF Generate, Results
  <2>2. CASE MarkWorkUnitError(e) \/ InsertJudgment(e) \/ MarkWorkUnitDone(e)
    BY <1>2, <2>2 DEF MarkWorkUnitError, InsertJudgment, MarkWorkUnitDone
  <2>3. CASE Throw(e)
    BY <2>3 DEF Throw, Results
  <2> QED
    BY <2>1, <2>2, <2>3 DEF ResponseStep
<1> QED
  BY <1>1, <1>3 DEF Goto

-----------------------------------------------------------------------------
(* The local state of processes and jobs *)

JobType == [state: {"none", "created", "active", "ended"}, left: 0..ResponseRetries]

AggType == [job: {"none", "created", "active", "completed", "dead"},
            left: 0..AggregateRetries,
            pc: {"idle", "poll", "check", "assemble", "finish", "deliver"},
            status: {"completed", "failed", "over_budget"},
            late: BOOLEAN]

PlannerType ==
    [pc: {"plan", "preflight", "snapshot", "empty", "persist", "enqueue", "end"},
     plan: SUBSET Units, todo: SUBSET Units]

-----------------------------------------------------------------------------
(* Types *)

LEMMA RetriedJobType ==
    ASSUME NEW job \in JobType
    PROVE  RetriedJob(job) \in JobType
<1>1. CASE job.left = 0
  BY <1>1 DEF RetriedJob, JobType
<1>2. CASE job.left # 0
  <2>1. job.left - 1 \in 0..ResponseRetries
    BY <1>2, OperatingAssumption DEF JobType
  <2> QED
    BY <1>2, <2>1 DEF RetriedJob, JobType
<1> QED
  BY <1>1, <1>2

LEMMA RetriedAggType ==
    ASSUME agg \in AggType
    PROVE  RetriedAggregate \in AggType
<1>1. CASE agg.left = 0
  BY <1>1 DEF RetriedAggregate, AggType
<1>2. CASE agg.left # 0
  <2>1. agg.left - 1 \in 0..AggregateRetries
    BY <1>2, OperatingAssumption DEF AggType
  <2> QED
    BY <1>2, <2>1 DEF RetriedAggregate, AggType
<1> QED
  BY <1>1, <1>2

LEMMA TypeInit == ASSUME Init PROVE TypeOK
<1>1. ResponsesTypeOK
  BY DEF Init, ResponsesInit, ResponsesTypeOK, UnitStatus, ExecType
<1>2. ResponseRetries \in 0..ResponseRetries /\ AggregateRetries \in 0..AggregateRetries
  BY OperatingAssumption
<1>3. nTotal \in 0..Cardinality(Units)
  BY FS_CardinalityType, ResponsesAssumption DEF Init
<1> QED
  BY <1>1, <1>2, <1>3 DEF Init, TypeOK, RunStatus

LEMMA TypePlanner ==
    ASSUME TypeOK, PlannerStep \/ PlannerDies
    PROVE  TypeOK'
<1>0. planner \in PlannerType /\ agg \in AggType /\ jobs \in [Units -> JobType]
  BY DEF TypeOK, PlannerType, AggType, JobType
<1> USE DEF PlannerType
<1>1. CASE CreateRun
  <2>1. planner' \in PlannerType
    BY <1>1, OperatingAssumption DEF CreateRun
  <2> QED
    BY <1>1, <2>1 DEF TypeOK, CreateRun, RunStatus, responseVars, ResponsesTypeOK
<1>2. CASE Preflight
  BY <1>0, <1>2 DEF TypeOK, Preflight, GoOn, At, RunStatus, responseVars, ResponsesTypeOK
<1>3. CASE SnapshotNTotal
  <2>1. nTotal' \in 0..Cardinality(Units)
    BY <1>0, <1>3, FS_Subset, FS_CardinalityType, ResponsesAssumption DEF SnapshotNTotal
  <2> QED
    BY <1>0, <1>3, <2>1
    DEF TypeOK, SnapshotNTotal, GoOn, At, responseVars, ResponsesTypeOK
<1>4. CASE FinishEmpty
  BY <1>0, <1>4 DEF TypeOK, FinishEmpty, GoOn, At, RunStatus, responseVars, ResponsesTypeOK
<1>5. ASSUME NEW u \in Units, PersistUnit(u) PROVE TypeOK'
  BY <1>5 DEF TypeOK, PersistUnit, InsertWorkUnit, ResponsesTypeOK, UnitStatus, cycleVars
<1>6. ASSUME NEW t \in Tiers, AdvanceRotationState(t) PROVE TypeOK'
  BY <1>6 DEF TypeOK, AdvanceRotationState, responseVars, ResponsesTypeOK
<1>7. CASE StartRun
  BY <1>0, <1>7 DEF TypeOK, StartRun, GoOn, At, RunStatus, responseVars, ResponsesTypeOK
<1>8. ASSUME NEW u \in Units, EnqueueResponse(u) PROVE TypeOK'
  <2>1. planner' \in PlannerType
    BY <1>0, <1>8 DEF EnqueueResponse
  <2>2. jobs' \in [Units -> JobType]
    BY <1>0, <1>8 DEF EnqueueResponse, JobType
  <2> QED
    BY <1>8, <2>1, <2>2 DEF TypeOK, EnqueueResponse, JobType, responseVars, ResponsesTypeOK
<1>9. CASE EnqueueAggregate
  <2>1. agg' \in AggType
    BY <1>0, <1>9 DEF EnqueueAggregate, AggType
  <2>2. planner' \in PlannerType
    BY <1>0, <1>9 DEF EnqueueAggregate, GoOn
  <2> QED
    BY <1>9, <2>1, <2>2
    DEF TypeOK, EnqueueAggregate, AggType, responseVars, ResponsesTypeOK
<1>10. CASE PlannerDies
  BY <1>0, <1>10 DEF TypeOK, PlannerDies, GoOn, responseVars, ResponsesTypeOK
<1> QED
  BY <1>1, <1>2, <1>3, <1>4, <1>5, <1>6, <1>7, <1>8, <1>9, <1>10 DEF PlannerStep

LEMMA TypeHandler ==
    ASSUME TypeOK, NEW e \in Executors,
           (\E u \in Units : TakeResponse(e, u)) \/ HandlerStep(e) \/ ResponseDies(e)
    PROVE  TypeOK'
<1>0. ResponsesTypeOK /\ jobs \in [Units -> JobType]
  BY DEF TypeOK, JobType
<1>1. ASSUME NEW u \in Units, TakeResponse(e, u) PROVE TypeOK'
  <2>1. ResponsesTypeOK'
    BY <1>0, <1>1, BeginType DEF TakeResponse
  <2>2. jobs' \in [Units -> JobType]
    BY <1>0, <1>1 DEF TakeResponse, JobType
  <2> QED
    BY <1>1, <2>1, <2>2 DEF TypeOK, TakeResponse, JobType
<1>2. CASE RunResponse(e)
  <2>1. ResponsesTypeOK'
    BY <1>0, <1>2, ResponseType DEF RunResponse
  <2> QED
    BY <1>2, <2>1 DEF TypeOK, RunResponse, cycleVars
<1>3. CASE FinishResponse(e)
  <2>1. exec[e].unit \in Units
    BY <1>0, <1>3, BusyByLabel DEF FinishResponse, Busy
  <2>2. jobs' \in [Units -> JobType]
    <3> DEFINE job == jobs[exec[e].unit]
    <3>1. job \in JobType /\ [job EXCEPT !.state = "ended"] \in JobType
      BY <1>0, <2>1 DEF JobType
    <3>2. RetriedJob(job) \in JobType
      BY <3>1, RetriedJobType
    <3> QED
      BY <1>0, <1>3, <3>1, <3>2 DEF FinishResponse
  <2>3. ResponsesTypeOK'
    BY <1>0, <1>3, IdleType DEF FinishResponse, ResponsesTypeOK
  <2> QED
    BY <1>3, <2>2, <2>3 DEF TypeOK, FinishResponse, JobType
<1>4. CASE ResponseDies(e)
  <2>1. ResponsesTypeOK'
    BY <1>0, <1>4, IdleType, CutType DEF ResponseDies, Abandon, ResponsesTypeOK
  <2> QED
    BY <1>4, <2>1 DEF TypeOK, ResponseDies, cycleVars
<1> QED
  BY <1>1, <1>2, <1>3, <1>4 DEF HandlerStep

LEMMA TypeAggregate ==
    ASSUME TypeOK,
           (\E u \in Units : ExpireResponse(u)) \/ AggregateStep \/ AggregateDies
    PROVE  TypeOK'
<1>0. agg \in AggType /\ jobs \in [Units -> JobType]
  BY DEF TypeOK, AggType, JobType
<1>1. ASSUME NEW u \in Units, ExpireResponse(u) PROVE TypeOK'
  <2>1. jobs' \in [Units -> JobType]
    BY <1>0, <1>1, RetriedJobType DEF ExpireResponse
  <2> QED
    BY <1>1, <2>1 DEF TypeOK, ExpireResponse, JobType, responseVars, ResponsesTypeOK
<1>2. ASSUME TakeAggregate \/ EndPoll \/ Deadline \/ CheckCounts \/ AssembleReport
             \/ FinishRun \/ EnqueueDelivery \/ AggregateDies
      PROVE  TypeOK'
  <2>1. agg' \in AggType
    BY <1>0, <1>2, RetriedAggType
    DEF TakeAggregate, EndPoll, Deadline, CheckCounts, AssembleReport, FinishRun,
        EnqueueDelivery, AggregateDies, AggType
  <2>2. run' \in RunStatus
    BY <1>0, <1>2
    DEF TypeOK, TakeAggregate, EndPoll, Deadline, CheckCounts, AssembleReport, FinishRun,
        EnqueueDelivery, AggregateDies, AggType, RunStatus
  <2>3. UNCHANGED <<responseVars, nTotal, advanced, planner, jobs, beside>>
    BY <1>2 DEF TakeAggregate, EndPoll, Deadline, CheckCounts, AssembleReport, FinishRun,
                EnqueueDelivery, AggregateDies
  <2> QED
    BY <2>1, <2>2, <2>3 DEF TypeOK, AggType, responseVars, ResponsesTypeOK
<1> QED
  BY <1>1, <1>2 DEF AggregateStep

LEMMA TypeStep ==
    ASSUME TypeOK, [Next]_vars
    PROVE  TypeOK'
<1>1. CASE UNCHANGED vars
  BY <1>1 DEF TypeOK, ResponsesTypeOK, vars, responseVars, cycleVars
<1> QED
  BY <1>1, TypePlanner, TypeHandler, TypeAggregate DEF Next

\* The tables and the local states of the planner, the handlers and the aggregation
\* are well typed; n_total never exceeds the number of cells (runCycle.ts, runResponse.ts).
THEOREM TypeCorrect == Spec => []TypeOK
<1>1. Init => TypeOK
  BY TypeInit
<1>2. TypeOK /\ [Next]_vars => TypeOK'
  BY TypeStep
<1> QED
  BY <1>1, <1>2, PTL DEF Spec

-----------------------------------------------------------------------------
(* The frozen plan *)

LEMMA PlanInit == ASSUME Init PROVE PlanInv
BY DEF Init, ResponsesInit, Idle, PlanInv, Present, MeasuredUnderFrozenPlan

\* Steps that leave the units alone leave Present alone.
LEMMA SamePresent == ASSUME unit' = unit PROVE Present' = Present
BY DEF Present

LEMMA PlanPlanner ==
    ASSUME TypeOK, PlanInv, PlannerStep \/ PlannerDies
    PROVE  PlanInv'
<1>0. planner \in PlannerType /\ jobs \in [Units -> JobType]
  BY DEF TypeOK, PlannerType, JobType
<1> USE DEF PlanInv, PlannerType, MeasuredUnderFrozenPlan
<1>1. CASE CreateRun
  <2>1. UNCHANGED <<jobs, exec>> /\ Present' = Present
    BY <1>1, SamePresent DEF CreateRun, responseVars
  <2>2. Present = {} /\ planner'.pc = "preflight" /\ planner'.todo = planner'.plan
    BY <1>1 DEF CreateRun, At
  <2>3. \A u \in Units : jobs[u].state = "none"
    BY <1>1 DEF CreateRun, At
  <2> QED
    BY <1>0, <2>1, <2>2, <2>3
<1>2. CASE Preflight \/ FinishEmpty \/ PlannerDies
  <2>1. UNCHANGED <<jobs, exec, nTotal>> /\ Present' = Present
    BY <1>2, SamePresent DEF Preflight, FinishEmpty, PlannerDies, responseVars
  <2>2. /\ planner'.plan = planner.plan /\ planner'.todo = planner.todo
        /\ planner'.pc \in {"snapshot", "end"}
        /\ planner'.pc = "snapshot" => planner.pc = "preflight"
    BY <1>0, <1>2 DEF Preflight, FinishEmpty, PlannerDies, GoOn, At
  <2>3. PlannerDies \/ \A u \in Units : jobs[u].state = "none"
    BY <1>2 DEF Preflight, FinishEmpty, At
  <2>4. PlannerDies => run' = run
    BY DEF PlannerDies
  <2> QED
    BY <1>0, <2>1, <2>2, <2>3, <2>4
<1>3. CASE SnapshotNTotal
  <2>1. UNCHANGED <<jobs, exec>> /\ Present' = Present
    BY <1>3, SamePresent DEF SnapshotNTotal, responseVars
  <2>2. /\ planner'.plan = planner.plan /\ planner'.todo = planner.todo
        /\ planner'.pc \in {"empty", "persist"} /\ planner.pc = "snapshot"
        /\ nTotal' = Cardinality(planner.plan)
    BY <1>0, <1>3 DEF SnapshotNTotal, GoOn, At
  <2>3. \A u \in Units : jobs[u].state = "none"
    BY <2>2
  <2> QED
    BY <1>0, <2>1, <2>2, <2>3
<1>4. ASSUME NEW u \in Units, PersistUnit(u) PROVE PlanInv'
  <2>1. UNCHANGED <<jobs, exec, planner, run, nTotal>> /\ planner.pc = "persist"
    BY <1>4 DEF PersistUnit, cycleVars, At
  <2>2. Present' = Present \cup {u} /\ u \in planner.plan
    BY <1>4 DEF PersistUnit, InsertWorkUnit, Present, TypeOK, ResponsesTypeOK
  <2>3. \A v \in Units : jobs[v].state = "none"
    BY <2>1
  <2> QED
    BY <1>0, <2>1, <2>2, <2>3
<1>5. ASSUME NEW t \in Tiers, AdvanceRotationState(t) PROVE PlanInv'
  <2>1. UNCHANGED <<jobs, exec, planner, run, nTotal>> /\ Present' = Present
    BY <1>5, SamePresent DEF AdvanceRotationState, responseVars
  <2> QED
    BY <1>0, <2>1
<1>6. CASE StartRun
  <2>1. UNCHANGED <<jobs, exec, nTotal>> /\ Present' = Present /\ run' = "running"
    BY <1>6, SamePresent DEF StartRun, responseVars
  <2>2. /\ planner'.plan = planner.plan /\ planner'.todo = planner.todo
        /\ planner'.pc = "enqueue" /\ planner.pc = "persist"
        /\ planner.plan \subseteq Present
    BY <1>0, <1>6 DEF StartRun, GoOn, At, AllPersisted
  <2> QED
    BY <1>0, <2>1, <2>2
<1>7. ASSUME NEW u \in Units, EnqueueResponse(u) PROVE PlanInv'
  <2>1. UNCHANGED <<exec, run, nTotal>> /\ Present' = Present
    BY <1>7, SamePresent DEF EnqueueResponse, responseVars
  <2>2. /\ planner'.plan = planner.plan /\ planner'.todo \subseteq planner.todo
        /\ planner'.pc = "enqueue" /\ planner.pc = "enqueue" /\ u \in planner.todo
    BY <1>0, <1>7 DEF EnqueueResponse, At
  <2>3. \A v \in Units : jobs'[v].state # "none" => v = u \/ jobs[v].state # "none"
    BY <1>0, <1>7 DEF EnqueueResponse
  <2>4. \A v \in Units : jobs[v].state # "none" => jobs'[v].state # "none"
    BY <1>0, <1>7 DEF EnqueueResponse, JobType
  <2>5. \A e \in Executors : exec[e].pc # "idle" => exec[e].unit \in Units
    BY BusyByLabel DEF TypeOK, Busy
  <2>6. Present = planner.plan /\ Cardinality(Present) = nTotal
    <3>1. Present = planner.plan
      BY <2>2
    <3>2. nTotal = Cardinality(planner.plan)
      BY <2>2
    <3> QED
      BY <3>1, <3>2
  <2> QED
    BY <1>0, <2>1, <2>2, <2>3, <2>4, <2>5, <2>6
<1>8. CASE EnqueueAggregate
  <2>1. UNCHANGED <<jobs, exec, run, nTotal>> /\ Present' = Present
    BY <1>8, SamePresent DEF EnqueueAggregate, responseVars
  <2>2. /\ planner'.plan = planner.plan /\ planner'.todo = planner.todo
        /\ planner'.pc = "end"
    BY <1>0, <1>8 DEF EnqueueAggregate, GoOn
  <2> QED
    BY <1>0, <2>1, <2>2
<1> QED
  BY <1>1, <1>2, <1>3, <1>4, <1>5, <1>6, <1>7, <1>8 DEF PlannerStep

\* A handler writes to a unit of the plan only, and the plan is complete by then.
LEMMA HandlerKeepsPresent ==
    ASSUME TypeOK, PlanInv, NEW e \in Executors, ResponseStep(e) \/ Throw(e)
    PROVE  Present' = Present
<1>0. exec[e].pc # "idle"
  BY DEF ResponseStep, Throw, Generate, MarkWorkUnitError, InsertJudgment, MarkWorkUnitDone
<1>1. exec[e].unit \in Units
  BY <1>0, BusyByLabel DEF TypeOK, Busy
<1>2. unit[exec[e].unit] # "absent"
  BY <1>0, <1>1 DEF PlanInv, MeasuredUnderFrozenPlan, Present
<1>3. unit' = unit \/ \E s \in {"error", "done"} : unit' = [unit EXCEPT ![exec[e].unit] = s]
  BY DEF ResponseStep, Throw, Generate, MarkWorkUnitError, FailedStatus, InsertJudgment,
         MarkWorkUnitDone
<1> QED
  BY <1>1, <1>2, <1>3 DEF Present, TypeOK, ResponsesTypeOK

LEMMA PlanHandler ==
    ASSUME TypeOK, PlanInv, NEW e \in Executors,
           (\E u \in Units : TakeResponse(e, u)) \/ HandlerStep(e) \/ ResponseDies(e)
    PROVE  PlanInv'
<1>0. jobs \in [Units -> JobType] /\ exec \in [Executors -> ExecType]
  BY DEF TypeOK, JobType, ResponsesTypeOK
<1>a. \A f \in Executors : exec[f].pc # "idle" => exec[f].unit \in Units
  BY BusyByLabel DEF TypeOK, Busy
<1> USE DEF PlanInv, MeasuredUnderFrozenPlan
<1>1. ASSUME NEW u \in Units, TakeResponse(e, u) PROVE PlanInv'
  <2>1. UNCHANGED <<planner, run, nTotal>> /\ Present' = Present
    BY <1>1, SamePresent DEF TakeResponse, BeginResponse
  <2>2. \A v \in Units : jobs'[v].state = "none" <=> jobs[v].state = "none"
    BY <1>0, <1>1 DEF TakeResponse, JobType
  <2>3. jobs[u].state # "none" /\ exec'[e].unit = u
        /\ \A f \in Executors : f # e => exec'[f] = exec[f]
    BY <1>0, <1>1 DEF TakeResponse, BeginResponse
  <2> QED
    BY <1>a, <2>1, <2>2, <2>3
<1>2. CASE RunResponse(e)
  <2>1. UNCHANGED <<planner, run, nTotal, jobs>> /\ Present' = Present
    BY <1>2, HandlerKeepsPresent DEF RunResponse, cycleVars
  <2>2. \A f \in Executors : exec'[f].pc # "idle" =>
            exec[f].pc # "idle" /\ exec'[f].unit = exec[f].unit
    <3>1. PICK label \in {"failing", "judge", "mark", "returned"}, r \in Results :
            exec' = [exec EXCEPT ![e] = [@ EXCEPT !.pc = label, !.result = r]]
      BY <1>2, HandlerKeepsUnit DEF RunResponse, TypeOK
    <3>2. exec[e].pc # "idle"
      BY <1>2, HandlerKeepsUnit DEF RunResponse, TypeOK
    <3>3. exec[e] \in Busy
      BY <3>2, BusyByLabel DEF TypeOK
    <3> QED
      BY <1>0, <3>1, <3>2, <3>3 DEF Busy
  <2> QED
    BY <1>a, <2>1, <2>2
<1>3. CASE FinishResponse(e)
  <2>1. UNCHANGED <<planner, run, nTotal>> /\ Present' = Present
    BY <1>3, SamePresent DEF FinishResponse
  <2>2. \A v \in Units : jobs'[v].state = "none" <=> jobs[v].state = "none"
    BY <1>0, <1>3, <1>a DEF FinishResponse, JobType, RetriedJob
  <2>3. exec' = [exec EXCEPT ![e] = Idle]
    BY <1>3 DEF FinishResponse
  <2> QED
    BY <1>0, <1>a, <2>1, <2>2, <2>3 DEF Idle
<1>4. CASE ResponseDies(e)
  <2>1. UNCHANGED <<planner, run, nTotal, jobs>> /\ Present' = Present
    BY <1>4, SamePresent DEF ResponseDies, Abandon, cycleVars
  <2>2. exec' = [exec EXCEPT ![e] = Idle]
    BY <1>4 DEF ResponseDies, Abandon
  <2> QED
    BY <1>0, <1>a, <2>1, <2>2 DEF Idle
<1> QED
  BY <1>1, <1>2, <1>3, <1>4 DEF HandlerStep

LEMMA PlanAggregate ==
    ASSUME TypeOK, PlanInv,
           (\E u \in Units : ExpireResponse(u)) \/ AggregateStep \/ AggregateDies
    PROVE  PlanInv'
<1>0. jobs \in [Units -> JobType] /\ agg \in AggType
  BY DEF TypeOK, JobType, AggType
<1>1. UNCHANGED <<planner, nTotal, exec>> /\ Present' = Present
  BY SamePresent
  DEF ExpireResponse, AggregateStep, TakeAggregate, EndPoll, Deadline, CheckCounts,
      AssembleReport, FinishRun, EnqueueDelivery, AggregateDies, responseVars
<1>2. \A v \in Units : jobs'[v].state = "none" <=> jobs[v].state = "none"
  BY <1>0
  DEF ExpireResponse, RetriedJob, JobType, AggregateStep, TakeAggregate, EndPoll, Deadline,
      CheckCounts, AssembleReport, FinishRun, EnqueueDelivery, AggregateDies
<1>3. run' = run \/ run' \in Finished
  BY <1>0
  DEF ExpireResponse, AggregateStep, TakeAggregate, EndPoll, Deadline, CheckCounts,
      AssembleReport, FinishRun, EnqueueDelivery, AggregateDies, AggType, Finished
<1>4. \A f \in Executors : exec[f].pc # "idle" => exec[f].unit \in Units
  BY BusyByLabel DEF TypeOK, Busy
<1> QED
  BY <1>1, <1>2, <1>3, <1>4 DEF PlanInv, MeasuredUnderFrozenPlan, Finished

LEMMA PlanStep ==
    ASSUME TypeOK, PlanInv, [Next]_vars
    PROVE  PlanInv'
<1>1. CASE UNCHANGED vars
  BY <1>1, SamePresent
  DEF PlanInv, MeasuredUnderFrozenPlan, vars, responseVars, cycleVars
<1> QED
  BY <1>1, PlanPlanner, PlanHandler, PlanAggregate DEF Next

\* No job is outstanding, and no handler runs, before the run has started with exactly
\* the n_total units of its plan (runCycle.ts, steps 4 to 8).
THEOREM PlanIsFrozen == Spec => []MeasuredUnderFrozenPlan
<1>1. Init => PlanInv
  BY PlanInit
<1>2. TypeOK /\ PlanInv /\ [Next]_vars => PlanInv'
  BY PlanStep
<1>3. PlanInv => MeasuredUnderFrozenPlan
  BY DEF PlanInv
<1> QED
  BY <1>1, <1>2, <1>3, TypeCorrect, PTL DEF Spec

-----------------------------------------------------------------------------
(* What redelivery and crashes cost a cell *)

\* A set and one of its members.
LEMMA OneMore ==
    ASSUME NEW S, IsFiniteSet(S), NEW x
    PROVE  /\ Cardinality(S \ {x}) \in Nat
           /\ Cardinality(S) = Cardinality(S \ {x}) + (IF x \in S THEN 1 ELSE 0)
           /\ S \ {x} = {} => Cardinality(S \ {x}) = 0
<1>1. IsFiniteSet(S \ {x}) /\ Cardinality(S \ {x}) \in Nat /\ Cardinality(S) \in Nat
  BY FS_Subset, FS_CardinalityType
<1>2. CASE x \in S
  BY <1>1, <1>2, FS_RemoveElement, FS_EmptySet
<1>3. CASE x \notin S
  <2>1. S \ {x} = S
    BY <1>3
  <2> QED
    BY <1>1, <1>3, <2>1, FS_EmptySet
<1> QED
  BY <1>2, <1>3

LEMMA CountInit == ASSUME Init PROVE CountInv /\ AloneInv
<1>1. \A u \in Units : Fresh(u) = {} /\ judged[u] = 0 /\ cut[u] = 0 /\ beside[u] = 0
  BY DEF Init, ResponsesInit, Idle, Fresh
<1>2. CountInv
  BY <1>1, FS_EmptySet DEF CountInv
<1>3. AloneInv
  BY DEF Init, ResponsesInit, Idle, AloneInv
<1> QED
  BY <1>2, <1>3

\* Steps that leave handlers and judgments alone, and no cell done or undone.
LEMMA CountQuiet ==
    ASSUME TypeOK, CountInv, AloneInv, UNCHANGED <<judged, cut, exec, beside>>,
           \A u \in Units : unit'[u] = "done" <=> unit[u] = "done"
    PROVE  CountInv' /\ AloneInv'
<1>1. \A f \in Executors : exec[f].pc # "idle" => exec[f].unit \in Units
  BY BusyByLabel DEF TypeOK, Busy
<1>2. \A u \in Units : Fresh(u)' = Fresh(u) /\ (Marking(u)' <=> Marking(u))
  BY DEF Fresh, Marking
<1>3. CountInv'
  BY <1>2 DEF CountInv
<1>4. AloneInv'
  BY <1>1 DEF AloneInv
<1> QED
  BY <1>3, <1>4

LEMMA CountPlanner ==
    ASSUME TypeOK, CountInv, AloneInv, PlannerStep \/ PlannerDies
    PROVE  CountInv' /\ AloneInv' /\ \A u \in Units : unit[u] = "done" => unit'[u] = "done"
<1>1. UNCHANGED <<judged, cut, exec, beside>>
  BY DEF PlannerStep, PlannerDies, CreateRun, Preflight, SnapshotNTotal, FinishEmpty,
         PersistUnit, EnqueueResponse, AdvanceRotationState, StartRun, EnqueueAggregate,
         responseVars, cycleVars
<1>2. unit' = unit \/ \E u \in Units : InsertWorkUnit(u)
  BY DEF PlannerStep, PlannerDies, CreateRun, Preflight, SnapshotNTotal, FinishEmpty,
         PersistUnit, EnqueueResponse, AdvanceRotationState, StartRun, EnqueueAggregate,
         responseVars
<1>3. \A u \in Units : unit'[u] = "done" <=> unit[u] = "done"
  BY <1>2 DEF InsertWorkUnit, TypeOK, ResponsesTypeOK
<1> QED
  BY <1>1, <1>3, CountQuiet

\* Handlers of a cell besides e that may still judge it.
Others(e, c) == Cardinality(Fresh(c) \ {e})

FreshLabels == {"start", "failing", "judge"}

\* A step of one handler on its cell: it is enough to look at that cell, with the other
\* handlers of the cell that may still judge it.
LEMMA CountMoves ==
    ASSUME TypeOK, CountInv, NEW e \in Executors, NEW c \in Units,
           \A f \in Executors : f # e => exec'[f] = exec[f],
           exec[e].pc # "idle" => exec[e].unit = c,
           exec'[e].pc # "idle" => exec'[e].unit = c,
           \A u \in Units \ {c} : /\ unit'[u] = unit[u] /\ judged'[u] = judged[u]
                                  /\ cut'[u] = cut[u] /\ beside'[u] = beside[u],
           exec'[e].pc \in FreshLabels =>
                judged'[c] + (Others(e, c) + 1) <= 1 + cut'[c] + beside'[c],
           exec'[e].pc \notin FreshLabels =>
                judged'[c] + Others(e, c) <= 1 + cut'[c] + beside'[c],
           unit'[c] # "done" => Fresh(c) \ {e} # {} \/ Marking(c)'
                \/ exec'[e].pc \in FreshLabels \/ judged'[c] <= cut'[c] + beside'[c]
    PROVE  CountInv'
<1>1. ASSUME NEW u \in Units, u # c
      PROVE  Fresh(u)' = Fresh(u) /\ (Marking(u)' <=> Marking(u))
  <2>1. \A f \in Executors :
          /\ exec'[f].unit = u /\ exec'[f].pc # "idle" <=> exec[f].unit = u /\ exec[f].pc # "idle"
          /\ exec[f].unit = u /\ exec[f].pc # "idle" => exec'[f] = exec[f]
    BY <1>1
  <2> QED
    BY <2>1 DEF Fresh, Marking
<1>2. Fresh(c)' \ {e} = Fresh(c) \ {e}
  BY DEF Fresh
<1>3. e \in Fresh(c)' <=> exec'[e].pc \in FreshLabels
  BY DEF Fresh, FreshLabels
<1>4. IsFiniteSet(Fresh(c)')
  BY FS_Subset, ResponsesAssumption DEF Fresh
<1> DEFINE fresh == Cardinality(Fresh(c)')
<1>5. /\ e \in Fresh(c)' => fresh = Others(e, c) + 1
      /\ e \notin Fresh(c)' => fresh = Others(e, c)
  <2>1. fresh = Cardinality(Fresh(c)' \ {e}) + (IF e \in Fresh(c)' THEN 1 ELSE 0)
        /\ Cardinality(Fresh(c)' \ {e}) \in Nat
    BY <1>4, OneMore
  <2>2. Others(e, c) = Cardinality(Fresh(c)' \ {e})
    BY <1>2 DEF Others
  <2> HIDE DEF fresh
  <2> QED
    BY <2>1, <2>2
<1> HIDE DEF fresh
<1>6. judged'[c] + fresh <= 1 + cut'[c] + beside'[c]
  BY <1>3, <1>5
<1>7. (\A u \in Units : judged[u] + Cardinality(Fresh(u)) <= 1 + cut[u] + beside[u])'
  <2> SUFFICES ASSUME NEW u \in Units
               PROVE  judged'[u] + Cardinality(Fresh(u)') <= 1 + cut'[u] + beside'[u]
    OBVIOUS
  <2>1. CASE u = c
    BY <1>6, <2>1 DEF fresh
  <2>2. CASE u # c
    BY <1>1, <2>2 DEF CountInv
  <2> QED
    BY <2>1, <2>2
<1>8. (\A u \in Units : unit[u] # "done" /\ Fresh(u) = {} /\ ~Marking(u)
            => judged[u] <= cut[u] + beside[u])'
  <2> SUFFICES ASSUME NEW u \in Units,
                      unit'[u] # "done", Fresh(u)' = {}, ~Marking(u)'
               PROVE  judged'[u] <= cut'[u] + beside'[u]
    OBVIOUS
  <2>1. CASE u = c
    BY <1>2, <1>3, <2>1
  <2>2. CASE u # c
    BY <1>1, <2>2 DEF CountInv
  <2> QED
    BY <2>1, <2>2
<1> QED
  BY <1>7, <1>8 DEF CountInv

\* What CountInv says of the cell of a handler, the handler itself taken apart.
LEMMA CountAt ==
    ASSUME TypeOK, CountInv, NEW e \in Executors, NEW c \in Units
    PROVE  /\ judged[c] \in Nat /\ cut[c] \in Nat /\ beside[c] \in Nat
           /\ Others(e, c) \in Nat
           /\ Fresh(c) \ {e} = {} => Others(e, c) = 0
           /\ e \in Fresh(c) => judged[c] + (Others(e, c) + 1) <= 1 + cut[c] + beside[c]
           /\ e \notin Fresh(c) => judged[c] + Others(e, c) <= 1 + cut[c] + beside[c]
<1>1. IsFiniteSet(Fresh(c))
  BY FS_Subset, ResponsesAssumption DEF Fresh
<1> DEFINE fresh == Cardinality(Fresh(c))
<1>2. judged[c] + fresh <= 1 + cut[c] + beside[c]
  BY DEF CountInv
<1>3. judged[c] \in Nat /\ cut[c] \in Nat /\ beside[c] \in Nat
  BY DEF TypeOK, ResponsesTypeOK
<1>4. /\ Others(e, c) \in Nat
      /\ fresh = Others(e, c) + (IF e \in Fresh(c) THEN 1 ELSE 0)
      /\ Fresh(c) \ {e} = {} => Others(e, c) = 0
  BY <1>1, OneMore DEF Others
<1> HIDE DEF fresh
<1>5. /\ e \in Fresh(c) => judged[c] + (Others(e, c) + 1) <= 1 + cut[c] + beside[c]
      /\ e \notin Fresh(c) => judged[c] + Others(e, c) <= 1 + cut[c] + beside[c]
  BY <1>2, <1>4
<1> QED
  BY <1>3, <1>4, <1>5

\* A step of runResponse writes to its own cell only, and a judgment it adds, or writes
\* off, is one of its own.
LEMMA CountResponse ==
    ASSUME TypeOK, CountInv, NEW e \in Executors, NEW c \in Units, c = exec[e].unit,
           RunResponse(e) \/ ResponseDies(e)
    PROVE  CountInv'
<1>0. ResponsesTypeOK /\ UNCHANGED beside
  BY DEF TypeOK, RunResponse, ResponseDies, cycleVars
<1>2. exec[e].pc # "idle" /\ exec[e] \in Busy
  BY <1>0, HandlerKeepsUnit, BusyByLabel, BusyHandler DEF RunResponse, ResponseDies, Busy
<1>3. /\ \A f \in Executors : f # e => exec'[f] = exec[f]
      /\ exec'[e].pc # "idle" => exec'[e].unit = c
  <2>1. CASE RunResponse(e)
    <3>1. PICK label \in {"failing", "judge", "mark", "returned"}, r \in Results :
            exec' = [exec EXCEPT ![e] = [@ EXCEPT !.pc = label, !.result = r]]
      BY <1>0, <2>1, HandlerKeepsUnit DEF RunResponse
    <3> QED
      BY <1>0, <1>2, <3>1 DEF ResponsesTypeOK, Busy
  <2>2. CASE ResponseDies(e)
    BY <1>0, <2>2 DEF ResponseDies, Abandon, ResponsesTypeOK, Idle
  <2> QED
    BY <2>1, <2>2
<1>4. /\ judged \in [Units -> Nat] /\ cut \in [Units -> Nat] /\ unit \in [Units -> UnitStatus]
      /\ judged[c] \in Nat /\ cut[c] \in Nat /\ beside[c] \in Nat /\ Others(e, c) \in Nat
      /\ Fresh(c) \ {e} = {} => Others(e, c) = 0
      /\ exec[e].pc \in FreshLabels =>
            judged[c] + (Others(e, c) + 1) <= 1 + cut[c] + beside[c]
      /\ exec[e].pc \notin FreshLabels =>
            judged[c] + Others(e, c) <= 1 + cut[c] + beside[c]
  <2>1. e \in Fresh(c) <=> exec[e].pc \in FreshLabels
    BY DEF Fresh, FreshLabels
  <2> QED
    BY <1>0, <2>1, CountAt DEF ResponsesTypeOK
<1>5. beside'[c] = beside[c]
  BY <1>0
\* It is enough to look at the cell of the handler.
<1> DEFINE Local ==
             \A u \in Units \ {c} :
                unit'[u] = unit[u] /\ judged'[u] = judged[u] /\ cut'[u] = cut[u]
           Going ==
             exec'[e].pc \in FreshLabels =>
                judged'[c] + (Others(e, c) + 1) <= 1 + cut'[c] + beside[c]
           Through ==
             exec'[e].pc \notin FreshLabels =>
                judged'[c] + Others(e, c) <= 1 + cut'[c] + beside[c]
           Ended ==
             unit'[c] # "done" => Fresh(c) \ {e} # {} \/ Marking(c)'
                \/ exec'[e].pc \in FreshLabels \/ judged'[c] <= cut'[c] + beside[c]
<1>6. ASSUME Local, Going, Through, Ended PROVE CountInv'
  <2>1. \A u \in Units \ {c} : /\ unit'[u] = unit[u] /\ judged'[u] = judged[u]
                                /\ cut'[u] = cut[u] /\ beside'[u] = beside[u]
    BY <1>0, <1>6
  <2>2. /\ exec'[e].pc \in FreshLabels =>
              judged'[c] + (Others(e, c) + 1) <= 1 + cut'[c] + beside'[c]
        /\ exec'[e].pc \notin FreshLabels =>
              judged'[c] + Others(e, c) <= 1 + cut'[c] + beside'[c]
        /\ unit'[c] # "done" => Fresh(c) \ {e} # {} \/ Marking(c)'
                \/ exec'[e].pc \in FreshLabels \/ judged'[c] <= cut'[c] + beside'[c]
    BY <1>5, <1>6
  <2>3. /\ exec[e].pc # "idle" => exec[e].unit = c
        /\ exec'[e].pc # "idle" => exec'[e].unit = c
        /\ \A f \in Executors : f # e => exec'[f] = exec[f]
    BY <1>3
  <2> QED
    BY <2>1, <2>2, <2>3, CountMoves
<1>7. CASE Generate(e)
  <2>1. /\ exec'[e].pc \in FreshLabels /\ exec[e].pc \in FreshLabels
        /\ UNCHANGED <<unit, judged, cut>>
    <3>1. PICK label \in {"failing", "judge"}, r \in Results : Goto(e, label, r)
      BY <1>7 DEF Generate, Results
    <3> QED
      BY <1>0, <1>2, <1>7, <3>1 DEF Generate, Goto, ResponsesTypeOK, Busy, FreshLabels
  <2>2. judged'[c] = judged[c] /\ cut'[c] = cut[c] /\ Local
    BY <2>1
  <2> QED
    BY <1>4, <1>6, <2>1, <2>2
<1>8. CASE MarkWorkUnitError(e)
  <2>1. /\ exec'[e].pc \notin FreshLabels /\ exec[e].pc \in FreshLabels
        /\ UNCHANGED <<judged, cut>> /\ \A u \in Units \ {c} : unit'[u] = unit[u]
    BY <1>0, <1>2, <1>8 DEF MarkWorkUnitError, Goto, ResponsesTypeOK, Busy, FreshLabels
  <2>2. judged'[c] = judged[c] /\ cut'[c] = cut[c] /\ Local
    BY <2>1
  <2> QED
    BY <1>4, <1>6, <2>1, <2>2
<1>9. CASE InsertJudgment(e)
  <2>1. /\ exec'[e].pc = "mark" /\ exec[e].pc = "judge" /\ UNCHANGED <<unit, cut>>
        /\ judged'[c] = judged[c] + 1 /\ \A u \in Units \ {c} : judged'[u] = judged[u]
    BY <1>0, <1>2, <1>4, <1>9 DEF InsertJudgment, Goto, ResponsesTypeOK, Busy
  <2>2. Marking(c)'
    BY <1>3, <2>1 DEF Marking
  <2>3. /\ exec'[e].pc \notin FreshLabels /\ exec[e].pc \in FreshLabels
        /\ cut'[c] = cut[c] /\ Local
    BY <2>1 DEF FreshLabels
  <2> QED
    BY <1>4, <1>6, <2>1, <2>2, <2>3
<1>10. CASE MarkWorkUnitDone(e)
  <2>1. /\ exec'[e].pc \notin FreshLabels /\ exec[e].pc \notin FreshLabels
        /\ UNCHANGED <<judged, cut>>
        /\ unit'[c] = "done" /\ \A u \in Units \ {c} : unit'[u] = unit[u]
    BY <1>0, <1>2, <1>4, <1>10
    DEF MarkWorkUnitDone, Goto, ResponsesTypeOK, Busy, FreshLabels
  <2>2. judged'[c] = judged[c] /\ cut'[c] = cut[c] /\ Local
    BY <2>1
  <2> QED
    BY <1>4, <1>6, <2>1, <2>2
\* A handler that is cut off, by an error or by the end of its process.
<1>11. CASE Throw(e) \/ ResponseDies(e)
  <2>1. UNCHANGED <<unit, judged>> /\ cut' = CutShort(e)
    BY <1>11 DEF Throw, ResponseDies, Abandon
  <2>2. Local /\ judged'[c] = judged[c]
    BY <1>4, <2>1 DEF CutShort
  <2>3. exec'[e].pc \in {"failing", "returned", "idle"}
        /\ (exec'[e].pc = "failing" => exec[e].pc # "returned")
    <3>1. CASE Throw(e)
      BY <1>0, <1>2, <3>1 DEF Throw, Goto, ResponsesTypeOK, Busy
    <3>2. CASE ResponseDies(e)
      BY <1>0, <3>2 DEF ResponseDies, Abandon, Idle, ResponsesTypeOK
    <3> QED
      BY <1>11, <3>1, <3>2
  <2>4. CASE exec[e].pc = "mark"
    <3>1. cut'[c] = cut[c] + 1 /\ exec[e].pc \notin FreshLabels
      BY <1>4, <2>1, <2>4 DEF CutShort, FreshLabels
    <3>2. Going /\ Through
      BY <1>4, <2>2, <3>1
    <3>3. Ended
      BY <1>4, <2>2, <3>1
    <3> QED
      BY <1>6, <2>2, <3>2, <3>3
  <2>5. CASE exec[e].pc \in FreshLabels
    <3>1. cut' = cut
      BY <2>1, <2>5 DEF CutShort, FreshLabels
    <3> QED
      BY <1>4, <1>6, <2>2, <2>5, <3>1
  <2>6. CASE exec[e].pc = "returned"
    <3>1. cut' = cut /\ exec'[e].pc \notin FreshLabels /\ exec[e].pc \notin FreshLabels
      BY <2>1, <2>3, <2>6 DEF CutShort, FreshLabels
    <3>2. Marking(c)' <=> Marking(c)
      BY <1>3, <2>6, <2>3 DEF Marking
    <3>3. Fresh(c) \ {e} = {} => Fresh(c) = {}
      BY <3>1 DEF Fresh, FreshLabels
    <3>4. Ended
      BY <1>4, <2>1, <3>1, <3>2, <3>3 DEF CountInv
    <3> QED
      BY <1>4, <1>6, <2>2, <3>1, <3>4
  <2> QED
    BY <1>2, <2>4, <2>5, <2>6 DEF Busy, FreshLabels
<1> QED
  BY <1>7, <1>8, <1>9, <1>10, <1>11 DEF RunResponse, ResponseStep

\* A delivery beside a handler that still runs allows for one judgment more.
LEMMA CountTake ==
    ASSUME TypeOK, CountInv, NEW e \in Executors, NEW u \in Units, TakeResponse(e, u)
    PROVE  CountInv'
<1>0. /\ ResponsesTypeOK /\ UNCHANGED <<unit, judged, cut>>
      /\ unit'[u] = unit[u] /\ judged'[u] = judged[u] /\ cut'[u] = cut[u]
  BY DEF TypeOK, TakeResponse, BeginResponse
<1>1. /\ exec[e].pc = "idle" /\ exec'[e].unit = u /\ exec'[e].pc = Entry(u)
      /\ \A f \in Executors : f # e => exec'[f] = exec[f]
  BY <1>0 DEF TakeResponse, BeginResponse, Idle, ResponsesTypeOK
<1>2. \/ exec'[e].pc \notin FreshLabels /\ unit[u] = "done"
      \/ exec'[e].pc \in FreshLabels /\ unit[u] # "done"
  BY <1>1 DEF Entry, FreshLabels
<1>3. /\ judged[u] \in Nat /\ cut[u] \in Nat /\ beside[u] \in Nat /\ Others(e, u) \in Nat
      /\ Fresh(u) \ {e} = {} => Others(e, u) = 0
      /\ judged[u] + Others(e, u) <= 1 + cut[u] + beside[u]
  <2>1. e \notin Fresh(u)
    BY <1>1 DEF Fresh
  <2> QED
    BY <2>1, CountAt
<1>4. \A v \in Units \ {u} : beside'[v] = beside[v]
  BY DEF TakeResponse, TypeOK
<1>5. \/ beside'[u] = beside[u] + 1
      \/ beside'[u] = beside[u] /\ Others(e, u) = 0
           /\ (unit[u] # "done" => judged[u] <= cut[u] + beside[u])
  <2>1. CASE Running(u)
    BY <2>1 DEF TakeResponse, TypeOK
  <2>2. CASE ~Running(u)
    <3>1. beside' = beside /\ Fresh(u) = {} /\ ~Marking(u)
      BY <2>2 DEF TakeResponse, Running, Fresh, Marking
    <3> QED
      BY <1>3, <3>1 DEF CountInv
  <2> QED
    BY <2>1, <2>2
<1>6. exec'[e].pc \in FreshLabels =>
        judged'[u] + (Others(e, u) + 1) <= 1 + cut'[u] + beside'[u]
  BY <1>0, <1>2, <1>3, <1>5
<1>7. exec'[e].pc \notin FreshLabels =>
        judged'[u] + Others(e, u) <= 1 + cut'[u] + beside'[u]
  BY <1>0, <1>3, <1>5
<1>8. unit'[u] # "done" => Fresh(u) \ {e} # {} \/ Marking(u)'
            \/ exec'[e].pc \in FreshLabels \/ judged'[u] <= cut'[u] + beside'[u]
  BY <1>0, <1>2
<1>9. \A v \in Units \ {u} : /\ unit'[v] = unit[v] /\ judged'[v] = judged[v]
                              /\ cut'[v] = cut[v] /\ beside'[v] = beside[v]
  BY <1>0, <1>4
<1>10. /\ exec[e].pc # "idle" => exec[e].unit = u
       /\ exec'[e].pc # "idle" => exec'[e].unit = u
  BY <1>1
<1> QED
  BY <1>1, <1>6, <1>7, <1>8, <1>9, <1>10, CountMoves, Zenon

\* Without a delivery beside a running handler, a cell has one handler, and it is not done.
LEMMA AloneHandler ==
    ASSUME TypeOK, AloneInv, NEW e \in Executors,
           (\E u \in Units : TakeResponse(e, u)) \/ HandlerStep(e) \/ ResponseDies(e)
    PROVE  AloneInv' /\ \A u \in Units : unit[u] = "done" /\ beside[u] = 0 => unit'[u] = "done"
<1>0. ResponsesTypeOK /\ beside \in [Units -> Nat]
  BY DEF TypeOK
<1>a. \A f \in Executors : exec[f].pc # "idle" => exec[f].unit \in Units
  BY <1>0, BusyByLabel DEF Busy
<1>1. ASSUME NEW u \in Units, TakeResponse(e, u)
      PROVE  AloneInv' /\ UNCHANGED unit
  <2>1. UNCHANGED unit
    BY <1>1 DEF TakeResponse, BeginResponse
  <2>2. /\ exec[e].pc = "idle" /\ exec'[e].unit = u /\ exec'[e].pc = Entry(u)
        /\ \A f \in Executors : f # e => exec'[f] = exec[f]
    BY <1>0, <1>1 DEF TakeResponse, BeginResponse, Idle, ResponsesTypeOK
  <2>3. \A v \in Units : beside'[v] = 0 => beside[v] = 0 /\ (v = u => ~Running(u))
    BY <1>0, <1>1 DEF TakeResponse
  <2>4. ASSUME NEW f \in Executors, NEW g \in Executors, exec'[f].pc # "idle",
               exec'[g].pc # "idle", exec'[f].unit = exec'[g].unit, beside'[exec'[f].unit] = 0
        PROVE  f = g
    <3>1. CASE f # e /\ g # e
      BY <1>a, <2>2, <2>3, <2>4, <3>1 DEF AloneInv
    <3>2. CASE f = e /\ g # e
      <4>1. exec[g].pc # "idle" /\ exec[g].unit = u
        BY <2>2, <2>4, <3>2
      <4> QED
        BY <2>2, <2>3, <2>4, <3>2, <4>1 DEF Running
    <3>3. CASE f # e /\ g = e
      <4>1. exec[f].pc # "idle" /\ exec[f].unit = u /\ exec'[f].unit = u
        BY <2>2, <2>4, <3>3
      <4> QED
        BY <2>3, <2>4, <4>1 DEF Running
    <3> QED
      BY <3>1, <3>2, <3>3
  <2>5. ASSUME NEW f \in Executors, exec'[f].pc \in {"start", "failing", "judge", "mark"},
               beside'[exec'[f].unit] = 0
        PROVE  unit'[exec'[f].unit] # "done"
    <3>1. CASE f = e
      BY <2>1, <2>2, <2>5, <3>1 DEF Entry
    <3>2. CASE f # e
      BY <1>a, <2>1, <2>2, <2>3, <2>5, <3>2 DEF AloneInv
    <3> QED
      BY <3>1, <3>2
  <2> QED
    BY <2>1, <2>4, <2>5 DEF AloneInv
<1>2. ASSUME RunResponse(e)
      PROVE  AloneInv' /\ \A u \in Units : unit[u] = "done" /\ beside[u] = 0 => unit'[u] = "done"
  <2> DEFINE c == exec[e].unit
  <2>1. PICK label \in {"failing", "judge", "mark", "returned"}, r \in Results :
          exec' = [exec EXCEPT ![e] = [@ EXCEPT !.pc = label, !.result = r]]
    BY <1>0, <1>2, HandlerKeepsUnit DEF RunResponse
  <2>2. exec[e].pc # "idle" /\ exec[e] \in Busy /\ c \in Units
    BY <1>0, <1>2, HandlerKeepsUnit, BusyByLabel DEF RunResponse, Busy
  <2>3. /\ exec'[e].pc = label /\ exec'[e].unit = c /\ UNCHANGED beside
        /\ \A f \in Executors : f # e => exec'[f] = exec[f]
    BY <1>0, <1>2, <2>1, <2>2 DEF ResponsesTypeOK, Busy, RunResponse, cycleVars
  <2>4. exec[e].pc \in {"start", "failing", "judge", "mark"}
    BY <1>2 DEF RunResponse, ResponseStep, Generate, MarkWorkUnitError, InsertJudgment,
                MarkWorkUnitDone, Throw
  <2>5. beside[c] = 0 => unit[c] # "done"
    BY <2>4 DEF AloneInv
  <2>6. /\ \A u \in Units : u # c => unit'[u] = unit[u]
        /\ label # "returned" => unit'[c] = unit[c]
    <3>1. CASE Generate(e) \/ InsertJudgment(e) \/ Throw(e)
      BY <3>1 DEF Generate, InsertJudgment, Throw
    <3>2. CASE MarkWorkUnitError(e) \/ MarkWorkUnitDone(e)
      <4>1. exec'[e].pc = "returned"
        <5>1. PICK result : Goto(e, "returned", result)
          BY <3>2 DEF MarkWorkUnitError, MarkWorkUnitDone
        <5> QED
          BY <1>0, <2>2, <5>1 DEF Goto, ResponsesTypeOK, Busy
      <4>2. label = "returned"
        BY <2>3, <4>1
      <4>3. \A u \in Units : u # exec[e].unit => unit'[u] = unit[u]
        BY <1>0, <3>2 DEF MarkWorkUnitError, MarkWorkUnitDone, ResponsesTypeOK
      <4> QED
        BY <4>2, <4>3
    <3> QED
      BY <1>2, <3>1, <3>2 DEF RunResponse, ResponseStep
  <2>7. \A f \in Executors : exec'[f].pc # "idle" =>
            exec[f].pc # "idle" /\ exec'[f].unit = exec[f].unit
    BY <2>2, <2>3
  <2>8. \A f, g \in Executors :
            exec'[f].pc # "idle" /\ exec'[g].pc # "idle" /\ exec'[f].unit = exec'[g].unit =>
                f = g \/ beside[exec'[f].unit] # 0
    BY <2>7 DEF AloneInv
  <2>9. ASSUME NEW f \in Executors, exec'[f].pc \in {"start", "failing", "judge", "mark"},
               beside[exec'[f].unit] = 0
        PROVE  unit'[exec'[f].unit] # "done"
    <3>1. CASE f = e
      BY <2>3, <2>5, <2>6, <2>9, <3>1
    <3>2. CASE f # e
      <4>1. exec[f] = exec'[f] /\ exec[f].unit # c
        BY <2>2, <2>3, <2>9, <3>2 DEF AloneInv
      <4>2. unit[exec[f].unit] # "done"
        BY <2>9, <4>1 DEF AloneInv
      <4> QED
        BY <1>a, <2>6, <2>9, <4>1, <4>2
    <3> QED
      BY <3>1, <3>2
  <2> QED
    BY <2>3, <2>5, <2>6, <2>8, <2>9 DEF AloneInv
<1>3. ASSUME FinishResponse(e) \/ ResponseDies(e)
      PROVE  AloneInv' /\ UNCHANGED unit
  <2>1. UNCHANGED <<unit, beside>> /\ exec' = [exec EXCEPT ![e] = Idle]
    BY <1>3 DEF FinishResponse, ResponseDies, Abandon, cycleVars
  <2>2. exec'[e].pc = "idle" /\ \A f \in Executors : f # e => exec'[f] = exec[f]
    BY <1>0, <2>1 DEF Idle, ResponsesTypeOK
  <2>3. \A f \in Executors : exec'[f].pc # "idle" => exec'[f] = exec[f]
    BY <2>2
  <2>4. \A f \in Executors : exec'[f].pc \in {"start", "failing", "judge", "mark"} =>
            exec'[f] = exec[f]
    BY <2>2
  <2> QED
    BY <2>1, <2>3, <2>4 DEF AloneInv
<1> QED
  BY <1>1, <1>2, <1>3 DEF HandlerStep

LEMMA CountHandler ==
    ASSUME TypeOK, CountInv, AloneInv, NEW e \in Executors,
           (\E u \in Units : TakeResponse(e, u)) \/ HandlerStep(e) \/ ResponseDies(e)
    PROVE  CountInv'
<1>1. CASE FinishResponse(e)
  <2>1. UNCHANGED <<unit, judged, cut, beside>> /\ exec[e].pc = "returned"
        /\ exec' = [exec EXCEPT ![e] = Idle]
    BY <1>1 DEF FinishResponse
  <2>2. exec'[e].pc = "idle" /\ \A f \in Executors : f # e => exec'[f] = exec[f]
    BY <2>1 DEF Idle, TypeOK, ResponsesTypeOK
  <2>3. \A u \in Units : Fresh(u)' = Fresh(u) /\ (Marking(u)' <=> Marking(u))
    <3> SUFFICES ASSUME NEW u \in Units
                 PROVE  Fresh(u)' = Fresh(u) /\ (Marking(u)' <=> Marking(u))
      OBVIOUS
    <3>1. \A f \in Executors :
            exec'[f].pc \in {"start", "failing", "judge", "mark"}
              \/ exec[f].pc \in {"start", "failing", "judge", "mark"} => exec'[f] = exec[f]
      BY <2>1, <2>2
    <3> QED
      BY <3>1 DEF Fresh, Marking
  <2> QED
    BY <2>1, <2>3 DEF CountInv
<1>2. CASE RunResponse(e) \/ ResponseDies(e)
  <2>1. exec[e].unit \in Units
    BY <1>2, HandlerKeepsUnit, BusyByLabel, BusyHandler
    DEF RunResponse, ResponseDies, Busy, TypeOK
  <2> QED
    BY <1>2, <2>1, CountResponse
<1> QED
  BY <1>1, <1>2, CountTake DEF HandlerStep

LEMMA CountStep ==
    ASSUME TypeOK, CountInv, AloneInv, [Next]_vars
    PROVE  /\ CountInv' /\ AloneInv'
           /\ \A u \in Units : unit[u] = "done" /\ beside[u] = 0 => unit'[u] = "done"
<1>1. CASE UNCHANGED vars
  BY <1>1, CountQuiet DEF vars, responseVars, cycleVars
<1>2. CASE (\E u \in Units : ExpireResponse(u)) \/ AggregateStep \/ AggregateDies
  <2>1. UNCHANGED <<unit, judged, cut, exec, beside>>
    BY <1>2 DEF ExpireResponse, AggregateStep, TakeAggregate, EndPoll, Deadline, CheckCounts,
         AssembleReport, FinishRun, EnqueueDelivery, AggregateDies, responseVars
  <2> QED
    BY <2>1, CountQuiet
<1> QED
  BY <1>1, <1>2, CountPlanner, CountHandler, AloneHandler DEF Next

\* However often the job of a cell is retried, the cell is counted once in the numerator
\* of the SMR, save for one judgment of each handler cut off between insertJudgment and
\* markWorkUnitDone, and one of each delivery beside a handler that still runs
\* (runResponse.ts, steps 9-11).
THEOREM CellsAreCountedOnce == Spec => []CountedOnce
<1>1. Init => CountInv /\ AloneInv
  BY CountInit
<1>2. TypeOK /\ CountInv /\ AloneInv /\ [Next]_vars => CountInv' /\ AloneInv'
  BY CountStep
<1>3. TypeOK /\ CountInv => CountedOnce
  <2> SUFFICES ASSUME TypeOK, CountInv, NEW u \in Units
               PROVE  judged[u] <= 1 + cut[u] + beside[u]
    BY DEF CountedOnce
  <2>1. IsFiniteSet(Fresh(u))
    BY FS_Subset, ResponsesAssumption DEF Fresh
  <2>2. Cardinality(Fresh(u)) \in Nat
    BY <2>1, FS_CardinalityType
  <2>3. judged[u] + Cardinality(Fresh(u)) <= 1 + cut[u] + beside[u]
    BY DEF CountInv
  <2> QED
    BY <2>2, <2>3 DEF TypeOK, ResponsesTypeOK
<1> QED
  BY <1>1, <1>2, <1>3, TypeCorrect, PTL DEF Spec

\* No late failure, retry or restart takes back a cell that is done, unless the queue has
\* handed the cell to a second handler beside the first (markWorkUnitError of
\* runResponse.ts has no condition on the status).
THEOREM DoneStaysDone == Spec => DoneIsFinal
<1>1. Init => CountInv /\ AloneInv
  BY CountInit
<1>2. TypeOK /\ CountInv /\ AloneInv /\ [Next]_vars => CountInv' /\ AloneInv'
  BY CountStep
<1>3. TypeOK /\ CountInv /\ AloneInv /\ [Next]_vars
        => [\A u \in Units : unit[u] = "done" /\ beside[u] = 0 => unit'[u] = "done"]_vars
  BY CountStep
<1> QED
  BY <1>1, <1>2, <1>3, TypeCorrect, PTL DEF Spec, DoneIsFinal

-----------------------------------------------------------------------------
(* The end of a run *)

\* Cells that do not become pending, and are not skipped, stay accounted for.
LEMMA PendingShrinks ==
    ASSUME \A u \in Units : unit'[u] = "pending" => unit[u] = "pending"
    PROVE  Pending = {} => Pending' = {}
BY DEF Pending

LEMMA EndInit == ASSUME Init PROVE EndInv
BY DEF Init, ResponsesInit, EndInv, CompletedIsComplete

LEMMA EndPlanner ==
    ASSUME TypeOK, PlanInv, EndInv, PlannerStep \/ PlannerDies
    PROVE  EndInv'
<1>0. planner \in PlannerType /\ agg \in AggType /\ unit \in [Units -> UnitStatus]
  BY DEF TypeOK, PlannerType, AggType, ResponsesTypeOK
<1>1. planner.pc # "end" /\ agg.job = "none" /\ agg.pc = "idle"
      /\ run \notin {"completed", "failed"}
  <2>1. planner.pc # "end"
    BY DEF PlannerStep, PlannerDies, CreateRun, Preflight, SnapshotNTotal, FinishEmpty,
           PersistUnit, EnqueueResponse, AdvanceRotationState, StartRun, EnqueueAggregate, At
  <2> QED
    BY <2>1 DEF EndInv
<1>2. \A u \in Units : unit'[u] # "skipped"
  <2>1. UNCHANGED unit \/ \E u \in Units : InsertWorkUnit(u)
    BY DEF PlannerStep, PlannerDies, CreateRun, Preflight, SnapshotNTotal, FinishEmpty,
           PersistUnit, EnqueueResponse, AdvanceRotationState, StartRun, EnqueueAggregate,
           responseVars
  <2> QED
    BY <1>0, <2>1 DEF EndInv, InsertWorkUnit
<1>3. CASE EnqueueAggregate
  <2>1. /\ planner'.pc = "end" /\ agg'.pc = "idle" /\ run' = run
    BY <1>0, <1>1, <1>3 DEF EnqueueAggregate, GoOn, PlannerType, AggType
  <2> QED
    BY <1>1, <1>2, <2>1 DEF EndInv, CompletedIsComplete
<1>4. CASE FinishEmpty
  <2>1. planner'.pc = "end" /\ UNCHANGED <<unit, agg>>
    BY <1>0, <1>4 DEF FinishEmpty, GoOn, PlannerType, responseVars
  <2>2. Pending = {}
    BY <1>4 DEF FinishEmpty, At, EndInv, PlanInv, Present, Pending
  <2>3. Pending' = {}
    BY <2>1, <2>2, PendingShrinks
  <2> QED
    BY <1>1, <1>2, <2>1, <2>3 DEF EndInv, CompletedIsComplete
<1>5. ASSUME ~EnqueueAggregate, ~FinishEmpty
      PROVE  EndInv'
  <2>1. UNCHANGED agg /\ run' \notin {"completed", "failed"}
    BY <1>1, <1>5 DEF PlannerStep, PlannerDies, CreateRun, Preflight, SnapshotNTotal,
       PersistUnit, EnqueueResponse, AdvanceRotationState, StartRun, cycleVars
  <2>2. planner'.pc = "empty" => planner'.plan = {}
    BY <1>0, <1>5 DEF PlannerStep, PlannerDies, CreateRun, Preflight, SnapshotNTotal,
       PersistUnit, EnqueueResponse, AdvanceRotationState, StartRun, cycleVars, At, GoOn,
       PlannerType, EndInv
  <2> QED
    BY <1>1, <1>2, <2>1, <2>2 DEF EndInv, CompletedIsComplete
<1> QED
  BY <1>3, <1>4, <1>5

LEMMA EndHandler ==
    ASSUME TypeOK, EndInv, NEW e \in Executors,
           (\E u \in Units : TakeResponse(e, u)) \/ HandlerStep(e) \/ ResponseDies(e)
    PROVE  EndInv'
<1>1. UNCHANGED <<run, planner, agg>>
  BY DEF TakeResponse, HandlerStep, RunResponse, FinishResponse, ResponseDies, cycleVars
<1>2. UNCHANGED unit \/ MarkWorkUnitError(e) \/ MarkWorkUnitDone(e)
  BY DEF TakeResponse, BeginResponse, HandlerStep, RunResponse, ResponseStep, Generate,
         InsertJudgment, Throw, FinishResponse, ResponseDies, Abandon
<1>3. \A u \in Units : unit'[u] = unit[u] \/ unit'[u] \in {"done", "error"}
  BY <1>2 DEF MarkWorkUnitError, MarkWorkUnitDone, FailedStatus, TypeOK, ResponsesTypeOK
<1>4. Pending = {} => Pending' = {}
  BY <1>3, PendingShrinks
<1> QED
  BY <1>1, <1>3, <1>4 DEF EndInv, CompletedIsComplete

LEMMA EndAggregate ==
    ASSUME TypeOK, EndInv,
           (\E u \in Units : ExpireResponse(u)) \/ AggregateStep \/ AggregateDies
    PROVE  EndInv'
<1>0. agg \in AggType
  BY DEF TypeOK, AggType
<1>1. UNCHANGED <<unit, planner>> /\ Pending' = Pending
  BY DEF ExpireResponse, AggregateStep, TakeAggregate, EndPoll, Deadline, CheckCounts,
         AssembleReport, FinishRun, EnqueueDelivery, AggregateDies, responseVars, Pending
<1>2. ASSUME NEW u \in Units, ExpireResponse(u) PROVE EndInv'
  BY <1>1, <1>2 DEF ExpireResponse, EndInv, CompletedIsComplete
<1>3. ASSUME AggregateStep \/ AggregateDies PROVE planner.pc = "end"
  BY <1>3 DEF EndInv, AggregateStep, TakeAggregate, EndPoll, Deadline, CheckCounts,
       AssembleReport, FinishRun, EnqueueDelivery, AggregateDies
<1>4. CASE TakeAggregate
  <2>1. agg'.job = "active" /\ agg'.pc = "poll" /\ agg'.late = agg.late /\ run' = run
    BY <1>0, <1>4 DEF TakeAggregate, AggType
  <2> QED
    BY <1>1, <1>3, <1>4, <2>1 DEF EndInv, CompletedIsComplete, AggregateStep
<1>5. CASE EndPoll \/ Deadline
  <2>1. agg'.job = agg.job /\ agg'.pc = "check" /\ agg'.late = agg.late /\ run' = run
    BY <1>0, <1>5 DEF EndPoll, Deadline, AggType
  <2>2. agg.job = "active"
    BY <1>5 DEF EndPoll, Deadline, EndInv
  <2> QED
    BY <1>1, <1>3, <1>5, <2>1, <2>2 DEF EndInv, CompletedIsComplete, AggregateStep
<1>6. CASE CheckCounts
  <2>1. agg'.job = agg.job /\ agg'.pc = "assemble" /\ run' = run
        /\ agg'.late = ~AllTerminal
    BY <1>0, <1>6 DEF CheckCounts, AggType
  <2>2. agg.job = "active"
    BY <1>6 DEF CheckCounts, EndInv
  <2> QED
    BY <1>1, <1>3, <1>6, <2>1, <2>2 DEF EndInv, CompletedIsComplete, AggregateStep, AllTerminal
<1>7. agg.job = "active" =>
        RetriedAggregate.pc = "idle" /\ RetriedAggregate.late = agg.late
  BY <1>0 DEF RetriedAggregate, AggType
<1>8. CASE AssembleReport
  <2>1. agg.job = "active" /\ (~agg.late => Pending = {})
    BY <1>8 DEF AssembleReport, EndInv
  <2>2. CASE agg' = [agg EXCEPT !.pc = "finish"] /\ run' = run
    <3>1. agg'.pc = "finish" /\ agg'.late = agg.late /\ agg'.job = agg.job
      BY <1>0, <2>2 DEF AggType
    <3> QED
      BY <1>1, <1>3, <1>8, <2>1, <2>2, <3>1 DEF EndInv, CompletedIsComplete, AggregateStep
  <2>3. CASE agg' = RetriedAggregate /\ run' = "failed"
    BY <1>1, <1>3, <1>7, <1>8, <2>1, <2>3 DEF EndInv, CompletedIsComplete, AggregateStep
  <2> QED
    BY <1>8, <2>2, <2>3 DEF AssembleReport
<1>9. CASE FinishRun
  <2>1. agg'.pc = "deliver" /\ agg'.late = agg.late /\ agg'.job = agg.job
    BY <1>0, <1>9 DEF FinishRun, AggType
  <2>2. agg.job = "active" /\ (~agg.late => Pending = {})
    BY <1>9 DEF FinishRun, EndInv
  <2> QED
    BY <1>1, <1>3, <1>9, <2>1, <2>2 DEF FinishRun, EndInv, CompletedIsComplete, AggregateStep
<1>10. CASE EnqueueDelivery \/ AggregateDies
  <2>1. agg.job = "active" /\ run' = run
    BY <1>10 DEF EnqueueDelivery, AggregateDies, EndInv
  <2>2. agg'.pc = "idle" /\ agg'.late = agg.late
    BY <1>0, <1>7, <1>10, <2>1 DEF EnqueueDelivery, AggregateDies, AggType
  <2> QED
    BY <1>1, <1>3, <1>10, <2>1, <2>2 DEF EndInv, CompletedIsComplete, AggregateStep
<1> QED
  BY <1>2, <1>4, <1>5, <1>6, <1>8, <1>9, <1>10 DEF AggregateStep

LEMMA EndStep ==
    ASSUME TypeOK, PlanInv, EndInv, [Next]_vars
    PROVE  EndInv'
<1>1. CASE UNCHANGED vars
  BY <1>1 DEF EndInv, CompletedIsComplete, Pending, vars, responseVars, cycleVars
<1> QED
  BY <1>1, EndPlanner, EndHandler, EndAggregate DEF Next

\* A run that ended without reaching the deadline of its aggregation has nothing left to
\* measure: whatever dies or is retried, the report of runCycle.ts saw every cell.
THEOREM CompletedRunsAreComplete == Spec => []CompletedIsComplete
<1>1. Init => PlanInv /\ EndInv
  BY PlanInit, EndInit
<1>2. TypeOK /\ PlanInv /\ EndInv /\ [Next]_vars => PlanInv' /\ EndInv'
  BY PlanStep, EndStep
<1>3. EndInv => CompletedIsComplete
  BY DEF EndInv
<1> QED
  BY <1>1, <1>2, <1>3, TypeCorrect, PTL DEF Spec

\* What still moves after the report of such a run is the judgment of a cell in 'error',
\* or of a cell the queue gave to a second handler beside the first: the other cells are
\* done and their handlers are through with them (runResponse.ts, markWorkUnitError).
THEOREM LateJudgmentsAreRetries == Spec => OnlyRetriesComeLate
<1> DEFINE Late == run = "completed" /\ ~agg.late =>
              \A u \in Units : judged'[u] # judged[u] => unit[u] = "error" \/ beside[u] > 0
           Inv == PlanInv /\ CountInv /\ AloneInv /\ EndInv
<1>1. Init => Inv
  BY PlanInit, CountInit, EndInit
<1>2. TypeOK /\ Inv /\ [Next]_vars => Inv'
  BY PlanStep, CountStep, EndStep
<1>3. TypeOK /\ Inv /\ [Next]_vars => [Late]_vars
  <2> SUFFICES ASSUME TypeOK, Inv, Next, run = "completed", ~agg.late,
                      NEW u \in Units, judged'[u] # judged[u], beside[u] = 0
               PROVE  unit[u] = "error"
    BY DEF TypeOK
  <2>1. PICK e \in Executors : InsertJudgment(e)
    BY DEF Next, PlannerStep, PlannerDies, CreateRun, Preflight, SnapshotNTotal, FinishEmpty,
           PersistUnit, EnqueueResponse, AdvanceRotationState, StartRun, EnqueueAggregate,
           TakeResponse, BeginResponse, HandlerStep, RunResponse, ResponseStep, Generate,
           MarkWorkUnitError, MarkWorkUnitDone, Throw, FinishResponse, ResponseDies, Abandon,
           ExpireResponse, AggregateStep, TakeAggregate, EndPoll, Deadline, CheckCounts,
           AssembleReport, FinishRun, EnqueueDelivery, AggregateDies, responseVars
  <2>2. exec[e].pc = "judge" /\ exec[e].unit = u
    BY <2>1 DEF InsertJudgment, TypeOK, ResponsesTypeOK
  <2>3. unit[u] # "done" /\ jobs[u].state # "none"
    BY <2>2 DEF AloneInv, PlanInv
  <2>4. unit[u] # "absent"
    BY <2>3 DEF PlanInv, MeasuredUnderFrozenPlan, Present
  <2>5. unit[u] # "pending"
    BY DEF EndInv, CompletedIsComplete, Pending
  <2>6. unit[u] # "skipped" /\ unit[u] \in UnitStatus
    BY DEF EndInv, TypeOK, ResponsesTypeOK
  <2> QED
    BY <2>3, <2>4, <2>5, <2>6 DEF UnitStatus
<1> HIDE DEF Inv
<1> QED
  BY <1>1, <1>2, <1>3, TypeCorrect, PTL DEF Spec, OnlyRetriesComeLate

-----------------------------------------------------------------------------
(* The run implements MeasureOnce *)

LEMMA PromiseInit == ASSUME Init PROVE LiveInv /\ FreezeInv /\ Promise!Init
<1>1. LiveInv /\ FreezeInv
  BY DEF Init, ResponsesInit, Idle, LiveInv, FreezeInv, Marking
<1>2. FrozenPlan = {} /\ CompletedInTime = FALSE
  BY DEF Init, FrozenPlan, CompletedInTime
<1>3. CellState = [u \in Units |-> "open"] /\ Standing = [u \in Units |-> 0]
  BY DEF Init, ResponsesInit, CellState, Standing
<1> QED
  BY <1>1, <1>2, <1>3 DEF Promise!Init

\* While n_total is not written there are no units, and their number is n_total.
LEMMA FreezePlanner ==
    ASSUME TypeOK, PlanInv, EndInv, FreezeInv, PlannerStep \/ PlannerDies
    PROVE  FreezeInv'
<1>0. planner \in PlannerType /\ agg \in AggType
  BY DEF TypeOK, PlannerType, AggType
<1>1. planner.pc # "end" /\ agg.job = "none" /\ run # "completed"
  <2>1. planner.pc # "end"
    BY DEF PlannerStep, PlannerDies, CreateRun, Preflight, SnapshotNTotal, FinishEmpty,
           PersistUnit, EnqueueResponse, AdvanceRotationState, StartRun, EnqueueAggregate, At
  <2> QED
    BY <2>1 DEF EndInv
<1> USE DEF PlannerType
<1>2. CASE CreateRun
  BY <1>0, <1>1, <1>2 DEF CreateRun, At, FreezeInv
<1>3. CASE SnapshotNTotal
  <2>1. /\ planner'.plan = planner.plan /\ run' = run
        /\ planner'.pc = IF planner.plan = {} THEN "empty" ELSE "persist"
    BY <1>0, <1>3 DEF SnapshotNTotal, GoOn
  <2>2. planner.plan # {} => Cardinality(planner.plan) # 0
    <3>1. IsFiniteSet(planner.plan)
      BY <1>0, FS_Subset, ResponsesAssumption
    <3> QED
      BY <3>1, FS_EmptySet
  <2> QED
    BY <1>1, <1>3, <2>1, <2>2 DEF SnapshotNTotal, FreezeInv
<1>4. CASE FinishEmpty
  <2>1. planner'.plan = planner.plan /\ planner'.pc = "end" /\ UNCHANGED <<nTotal, agg>>
    BY <1>0, <1>4 DEF FinishEmpty, GoOn
  <2>2. nTotal = 0
    <3>1. planner.plan = {}
      BY <1>4 DEF FinishEmpty, At, EndInv
    <3> QED
      BY <3>1, FS_EmptySet DEF FreezeInv
  <2> QED
    BY <1>1, <2>1, <2>2 DEF FreezeInv
<1>5. CASE Preflight \/ StartRun \/ EnqueueAggregate \/ PlannerDies
  <2>1. /\ nTotal' = nTotal /\ planner'.plan = planner.plan /\ run' # "completed"
        /\ planner'.pc \in {"plan", "preflight", "snapshot"} =>
              planner.pc \in {"plan", "preflight", "snapshot"}
        /\ planner'.pc \in {"persist", "enqueue"} => planner.pc = "persist"
        /\ agg' # agg => planner.pc = "enqueue"
    BY <1>0, <1>1, <1>5 DEF Preflight, StartRun, EnqueueAggregate, PlannerDies, GoOn, At
  <2>2. agg' = agg \/ planner.plan \subseteq Present
    BY <1>5 DEF Preflight, StartRun, EnqueueAggregate, PlannerDies, At, PlanInv
  <2>3. Present' = Present
    BY <1>5, SamePresent DEF Preflight, StartRun, EnqueueAggregate, PlannerDies, responseVars
  <2> QED
    BY <1>1, <2>1, <2>2, <2>3 DEF FreezeInv
<1>6. ASSUME NEW u \in Units, PersistUnit(u) \/ EnqueueResponse(u) PROVE FreezeInv'
  <2>1. /\ nTotal' = nTotal /\ run' = run /\ agg' = agg
        /\ planner'.plan = planner.plan /\ planner'.pc = planner.pc
    BY <1>0, <1>6 DEF PersistUnit, EnqueueResponse, cycleVars
  <2> QED
    BY <1>1, <2>1 DEF FreezeInv
<1>7. ASSUME NEW t \in Tiers, AdvanceRotationState(t) PROVE FreezeInv'
  BY <1>1, <1>7 DEF AdvanceRotationState, FreezeInv
<1> QED
  BY <1>2, <1>3, <1>4, <1>5, <1>6, <1>7 DEF PlannerStep

LEMMA FreezeAggregate ==
    ASSUME TypeOK, EndInv, FreezeInv, AggregateStep \/ AggregateDies
    PROVE  FreezeInv' /\ agg.job # "none"
<1>0. agg \in AggType /\ UNCHANGED <<nTotal, planner>>
  BY DEF TypeOK, AggType, AggregateStep, TakeAggregate, EndPoll, Deadline, CheckCounts,
         AssembleReport, FinishRun, EnqueueDelivery, AggregateDies
<1>1. agg.job \in {"created", "active"}
  BY DEF EndInv, AggregateStep, TakeAggregate, EndPoll, Deadline, CheckCounts,
         AssembleReport, FinishRun, EnqueueDelivery, AggregateDies
<1>2. Present' = Present
  BY SamePresent DEF AggregateStep, TakeAggregate, EndPoll, Deadline, CheckCounts,
         AssembleReport, FinishRun, EnqueueDelivery, AggregateDies, responseVars
<1>3. agg'.job # "none"
  BY <1>0, <1>1 DEF AggregateStep, TakeAggregate, EndPoll, Deadline, CheckCounts,
         AssembleReport, FinishRun, EnqueueDelivery, AggregateDies, RetriedAggregate, AggType
<1> QED
  BY <1>0, <1>1, <1>2, <1>3 DEF FreezeInv

LEMMA FreezeStep ==
    ASSUME TypeOK, PlanInv, EndInv, FreezeInv, [Next]_vars
    PROVE  FreezeInv'
<1>1. CASE UNCHANGED vars
  BY <1>1, SamePresent DEF FreezeInv, vars, responseVars, cycleVars
<1>2. ASSUME NEW e \in Executors,
             (\E u \in Units : TakeResponse(e, u)) \/ HandlerStep(e) \/ ResponseDies(e)
      PROVE  FreezeInv'
  <2>1. UNCHANGED <<run, nTotal, planner, agg>>
    BY <1>2 DEF TakeResponse, HandlerStep, RunResponse, FinishResponse, ResponseDies, cycleVars
  <2>2. \A u \in Units : unit[u] # "absent" => unit'[u] # "absent"
    <3>1. unit' = unit \/ MarkWorkUnitError(e) \/ MarkWorkUnitDone(e)
      BY <1>2 DEF TakeResponse, BeginResponse, HandlerStep, RunResponse, ResponseStep, Generate,
                  InsertJudgment, Throw, FinishResponse, ResponseDies, Abandon
    <3> QED
      BY <3>1 DEF MarkWorkUnitError, MarkWorkUnitDone, FailedStatus, TypeOK, ResponsesTypeOK
  <2> QED
    BY <2>1, <2>2 DEF FreezeInv, Present
<1>3. ASSUME NEW u \in Units, ExpireResponse(u) PROVE FreezeInv'
  BY <1>3, SamePresent DEF FreezeInv, ExpireResponse, responseVars
<1> QED
  BY <1>1, <1>2, <1>3, FreezePlanner, FreezeAggregate DEF Next

\* Where the only handler of a cell takes a step, what is about to be marked elsewhere
\* stays the same.
LEMMA MarkingMoves ==
    ASSUME AloneInv, NEW e \in Executors, exec[e].pc # "idle", beside[exec[e].unit] = 0,
           \A f \in Executors : f # e => exec'[f] = exec[f],
           exec'[e].pc # "idle" => exec'[e].unit = exec[e].unit
    PROVE  /\ \A u \in Units : u # exec[e].unit => (Marking(u)' <=> Marking(u))
           /\ Marking(exec[e].unit) <=> exec[e].pc = "mark"
           /\ (\E f \in Executors : exec'[f].pc = "mark" /\ exec'[f].unit = exec[e].unit)
                 <=> exec'[e].pc = "mark"
<1>1. \A f \in Executors : f # e /\ exec[f].pc # "idle" => exec[f].unit # exec[e].unit
  BY DEF AloneInv
<1>2. ASSUME NEW u \in Units, u # exec[e].unit PROVE Marking(u)' <=> Marking(u)
  <2>1. \A f \in Executors :
          (exec'[f].pc = "mark" /\ exec'[f].unit = u) <=> (exec[f].pc = "mark" /\ exec[f].unit = u)
    BY <1>2
  <2> QED
    BY <2>1 DEF Marking
<1>3. Marking(exec[e].unit) <=> exec[e].pc = "mark"
  BY <1>1 DEF Marking
<1>4. (\E f \in Executors : exec'[f].pc = "mark" /\ exec'[f].unit = exec[e].unit)
        <=> exec'[e].pc = "mark"
  BY <1>1
<1> QED
  BY <1>2, <1>3, <1>4

\* A cell with a job is one of the frozen plan.
LEMMA JobIsFrozen ==
    ASSUME TypeOK, PlanInv, NEW u \in Units, jobs[u].state # "none"
    PROVE  u \in FrozenPlan /\ unit[u] # "absent"
<1>1. Present = planner.plan /\ Cardinality(Present) = nTotal /\ u \in planner.plan
  BY DEF PlanInv, MeasuredUnderFrozenPlan
<1>2. nTotal # 0
  <2>1. IsFiniteSet(Present)
    BY FS_Subset, ResponsesAssumption DEF Present
  <2> QED
    BY <1>1, <2>1, FS_EmptySet
<1> QED
  BY <1>1, <1>2 DEF FrozenPlan, Present

\* The cell of a handler that has not returned may be worked on: it is in the frozen
\* plan, not done, and in error once the run has been completed in time.
LEMMA CellIsUnsettled ==
    ASSUME TypeOK, PlanInv, AloneInv, EndInv, NEW e \in Executors,
           exec[e].pc \in {"start", "failing", "judge", "mark"}, beside[exec[e].unit] = 0
    PROVE  exec[e].unit \in Units /\ exec[e].unit \in Promise!Unsettled
<1> DEFINE c == exec[e].unit
<1>1. c \in Units
  BY BusyByLabel DEF TypeOK, Busy
<1>2. unit[c] # "done" /\ jobs[c].state # "none"
  BY DEF AloneInv, PlanInv
<1>5. c \in FrozenPlan /\ unit[c] # "absent"
  BY <1>1, <1>2, JobIsFrozen
<1>6. unit[c] \in {"pending", "error"}
  <2>1. unit[c] \in UnitStatus /\ unit[c] # "absent" /\ unit[c] # "skipped"
    BY <1>1, <1>5 DEF TypeOK, ResponsesTypeOK, EndInv
  <2> QED
    BY <1>2, <2>1 DEF UnitStatus
<1>7. CompletedInTime => unit[c] = "error"
  BY <1>1, <1>6 DEF CompletedInTime, EndInv, CompletedIsComplete, Pending
<1>8. CellState[c] = (IF unit[c] = "error" THEN "error" ELSE "open")
  BY <1>1, <1>6 DEF CellState
<1> QED
  BY <1>1, <1>5, <1>7, <1>8 DEF Promise!Unsettled

\* The tables of a cell that is not done and that nobody is about to mark.
LEMMA StandingOf ==
    ASSUME TypeOK, LiveInv, NEW u \in Units, beside[u] = 0
    PROVE  /\ judged[u] \in Nat /\ cut[u] \in Nat
           /\ Standing[u] = IF unit[u] = "done" \/ Marking(u) THEN 1 ELSE 0
           /\ judged[u] = cut[u] + Standing[u]
<1>1. judged[u] \in Nat /\ cut[u] \in Nat
  BY DEF TypeOK, ResponsesTypeOK
<1>2. judged[u] = cut[u] + (IF unit[u] = "done" \/ Marking(u) THEN 1 ELSE 0)
  BY DEF LiveInv
<1>3. Standing[u] = judged[u] - cut[u]
  BY DEF Standing
<1> HIDE DEF Marking
<1> QED
  BY <1>1, <1>2, <1>3

\* Any step of a handler that is alone at work on its cell: the cell is all it touches.
LEMMA PromiseAlone ==
    ASSUME TypeOK, PlanInv, AloneInv, EndInv, LiveInv, NEW e \in Executors,
           beside[exec[e].unit] = 0,
           RunResponse(e) \/ ResponseDies(e) \/ FinishResponse(e)
    PROVE  /\ LiveInv'
           /\ UNCHANGED <<FrozenPlan, CompletedInTime>>
           /\ \/ UNCHANGED <<CellState, Standing>>
              \/ \E c \in Units : \/ Promise!Measure(c) \/ Promise!WriteOff(c)
                                  \/ Promise!Count(c) \/ Promise!Miss(c)
<1> DEFINE c == exec[e].unit
           marks == exec[e].pc = "mark"
           marks1 == exec'[e].pc = "mark"
<1>0. ResponsesTypeOK /\ UNCHANGED <<run, nTotal, planner, agg, beside>>
  BY DEF TypeOK, RunResponse, ResponseDies, FinishResponse, cycleVars
<1>1. UNCHANGED <<FrozenPlan, CompletedInTime>>
  BY <1>0 DEF FrozenPlan, CompletedInTime
<1>2. exec[e].pc # "idle" /\ exec[e] \in Busy /\ c \in Units
  <2>1. exec[e].pc # "idle"
    BY <1>0, HandlerKeepsUnit, BusyHandler DEF RunResponse, ResponseDies, FinishResponse, Busy
  <2> QED
    BY <1>0, <2>1, BusyByLabel DEF Busy
<1>3. /\ \A f \in Executors : f # e => exec'[f] = exec[f]
      /\ exec'[e].pc # "idle" => exec'[e].unit = c
  <2>1. CASE RunResponse(e)
    <3>1. PICK label \in {"failing", "judge", "mark", "returned"}, r \in Results :
            exec' = [exec EXCEPT ![e] = [@ EXCEPT !.pc = label, !.result = r]]
      BY <1>0, <2>1, HandlerKeepsUnit DEF RunResponse
    <3> QED
      BY <1>0, <1>2, <3>1 DEF ResponsesTypeOK, Busy
  <2>2. CASE ResponseDies(e) \/ FinishResponse(e)
    BY <1>0, <2>2 DEF ResponseDies, Abandon, FinishResponse, ResponsesTypeOK, Idle
  <2> QED
    BY <2>1, <2>2
<1>4. /\ \A u \in Units : u # c => (Marking(u)' <=> Marking(u))
      /\ Marking(c) <=> marks
      /\ (\E f \in Executors : exec'[f].pc = "mark" /\ exec'[f].unit = c) <=> marks1
  BY <1>2, <1>3, MarkingMoves
<1>5. /\ judged \in [Units -> Nat] /\ cut \in [Units -> Nat] /\ unit \in [Units -> UnitStatus]
      /\ judged[c] = cut[c] + Standing[c]
      /\ Standing[c] = IF unit[c] = "done" \/ marks THEN 1 ELSE 0
  BY <1>0, <1>2, <1>4, StandingOf DEF ResponsesTypeOK
<1>6. exec[e].pc # "returned" => unit[c] # "done" /\ c \in Promise!Unsettled
  <2>1. exec[e].pc # "returned" => exec[e].pc \in {"start", "failing", "judge", "mark"}
    BY <1>2 DEF Busy
  <2> QED
    BY <2>1, CellIsUnsettled DEF AloneInv
\* It is enough to look at the cell.
<1>7. ASSUME \A u \in Units : u # c => /\ unit'[u] = unit[u] /\ judged'[u] = judged[u]
                                       /\ cut'[u] = cut[u],
             judged'[c] = cut'[c] + (IF unit'[c] = "done" \/ marks1 THEN 1 ELSE 0)
      PROVE  /\ LiveInv'
             /\ CellState' = [CellState EXCEPT
                    ![c] = IF unit'[c] \in {"done", "error"} THEN unit'[c] ELSE "open"]
             /\ Standing' = [Standing EXCEPT ![c] = judged'[c] - cut'[c]]
  <2>0. beside'[c] = 0 /\ \A u \in Units : beside'[u] = beside[u]
    BY <1>0
  <2> HIDE DEF c
  <2>1. CellState' = [CellState EXCEPT
            ![c] = IF unit'[c] \in {"done", "error"} THEN unit'[c] ELSE "open"]
    <3> DEFINE become == IF unit'[c] \in {"done", "error"} THEN unit'[c] ELSE "open"
    <3>1. \A u \in Units : u # c => CellState'[u] = CellState[u]
      BY <1>7, <2>0 DEF CellState
    <3>2. CellState'[c] = become
      BY <1>2, <2>0 DEF CellState
    <3>3. /\ CellState = [u \in Units |-> CellState[u]]
          /\ CellState' = [u \in Units |-> CellState'[u]]
      BY DEF CellState
    <3> HIDE DEF become
    <3>4. CellState' = [CellState EXCEPT ![c] = become]
      BY <1>2, <3>1, <3>2, <3>3
    <3> QED
      BY <3>4 DEF become
  <2>2. Standing' = [Standing EXCEPT ![c] = judged'[c] - cut'[c]]
    <3> DEFINE become == judged'[c] - cut'[c]
    <3>1. \A u \in Units : u # c => Standing'[u] = Standing[u]
      BY <1>7, <2>0 DEF Standing
    <3>2. Standing'[c] = become
      BY <1>2, <2>0 DEF Standing
    <3>3. /\ Standing = [u \in Units |-> Standing[u]]
          /\ Standing' = [u \in Units |-> Standing'[u]]
      BY DEF Standing
    <3> HIDE DEF become
    <3>4. Standing' = [Standing EXCEPT ![c] = become]
      BY <1>2, <3>1, <3>2, <3>3
    <3> QED
      BY <3>4 DEF become
  <2>3. ASSUME NEW u \in Units, beside[u] = 0
        PROVE  judged'[u] = cut'[u] + (IF unit'[u] = "done" \/ Marking(u)' THEN 1 ELSE 0)
    <3>1. CASE u = c
      <4>1. Marking(u)' <=> marks1
        BY <1>3, <1>4, <3>1 DEF Marking
      <4> QED
        BY <1>7, <3>1, <4>1
    <3>2. CASE u # c
      <4>1. Marking(u)' <=> Marking(u)
        BY <1>4, <3>2
      <4>2. judged[u] = cut[u] + (IF unit[u] = "done" \/ Marking(u) THEN 1 ELSE 0)
        BY <2>3 DEF LiveInv
      <4> QED
        BY <1>7, <3>2, <4>1, <4>2
    <3> QED
      BY <3>1, <3>2
  <2>4. LiveInv'
    BY <1>0, <2>3 DEF LiveInv
  <2> QED
    BY <2>1, <2>2, <2>4
<1> HIDE DEF c, marks, marks1
<1>9. CASE exec[e].pc = "mark" /\ (Throw(e) \/ ResponseDies(e))
  <2>1. unit' = unit /\ judged' = judged /\ cut' = [cut EXCEPT ![c] = @ + 1]
    BY <1>9 DEF Throw, ResponseDies, Abandon, CutShort, c
  <2>2. ~marks1 /\ marks
    <3>1. CASE Throw(e)
      BY <1>0, <1>2, <1>9, <3>1 DEF Throw, Goto, ResponsesTypeOK, Busy, marks, marks1
    <3>2. CASE ResponseDies(e)
      BY <1>0, <1>9, <3>2 DEF ResponseDies, Abandon, Idle, ResponsesTypeOK, marks, marks1
    <3> QED
      BY <1>9, <3>1, <3>2
  <2>3. /\ unit[c] # "done" /\ judged[c] = cut[c] + 1 /\ Standing[c] = 1
        /\ cut'[c] = cut[c] + 1 /\ \A u \in Units : u # c => cut'[u] = cut[u]
    BY <1>2, <1>5, <1>6, <1>9, <2>1, <2>2
  <2>4. LiveInv' /\ Standing' = [Standing EXCEPT ![c] = 0] /\ CellState' = CellState
    <3>1. judged'[c] = cut'[c] /\ judged'[c] \in Nat /\ unit'[c] # "done"
      BY <1>2, <1>5, <2>1, <2>3
    <3>2. LiveInv' /\ Standing' = [Standing EXCEPT ![c] = judged'[c] - cut'[c]]
      BY <1>7, <2>1, <2>2, <2>3, <3>1
    <3>3. judged'[c] - cut'[c] = 0
      BY <3>1
    <3>4. CellState' = CellState
      BY <1>0, <2>1 DEF CellState
    <3> QED
      BY <3>2, <3>3, <3>4
  <2>5. Promise!WriteOff(c)
    BY <1>1, <1>6, <1>9, <2>3, <2>4 DEF Promise!WriteOff
  <2> QED
    BY <1>1, <1>2, <2>4, <2>5
<1>10. CASE InsertJudgment(e)
  <2>1. /\ unit' = unit /\ cut' = cut /\ judged' = [judged EXCEPT ![c] = @ + 1] /\ marks1
        /\ exec[e].pc = "judge" /\ ~marks
    BY <1>0, <1>2, <1>10 DEF InsertJudgment, Goto, ResponsesTypeOK, Busy, c, marks, marks1
  <2>2. /\ unit[c] # "done" /\ judged[c] = cut[c] /\ Standing[c] = 0
        /\ judged'[c] = judged[c] + 1 /\ \A u \in Units : u # c => judged'[u] = judged[u]
    BY <1>2, <1>5, <1>6, <2>1
  <2>3. LiveInv' /\ Standing' = [Standing EXCEPT ![c] = 1] /\ CellState' = CellState
    <3>1. judged'[c] = cut'[c] + 1 /\ cut'[c] \in Nat
      BY <1>2, <1>5, <2>1, <2>2
    <3>2. LiveInv' /\ Standing' = [Standing EXCEPT ![c] = judged'[c] - cut'[c]]
      BY <1>7, <2>1, <2>2, <3>1
    <3>3. judged'[c] - cut'[c] = 1
      BY <3>1
    <3>4. CellState' = CellState
      BY <1>0, <2>1 DEF CellState
    <3> QED
      BY <3>2, <3>3, <3>4
  <2>4. Promise!Measure(c)
    BY <1>1, <1>6, <2>1, <2>2, <2>3 DEF Promise!Measure
  <2> QED
    BY <1>1, <1>2, <2>3, <2>4
<1>11. CASE MarkWorkUnitDone(e)
  <2>1. /\ unit' = [unit EXCEPT ![c] = "done"] /\ cut' = cut /\ judged' = judged /\ ~marks1
        /\ exec[e].pc = "mark" /\ marks
    BY <1>0, <1>2, <1>11 DEF MarkWorkUnitDone, Goto, ResponsesTypeOK, Busy, c, marks, marks1
  <2>2. /\ judged[c] = cut[c] + 1 /\ Standing[c] = 1
        /\ unit'[c] = "done" /\ \A u \in Units : u # c => unit'[u] = unit[u]
    BY <1>2, <1>5, <1>6, <2>1
  <2>3. LiveInv' /\ CellState' = [CellState EXCEPT ![c] = "done"]
    BY <1>7, <2>1, <2>2
  <2>4. Standing' = Standing
    BY <1>0, <2>1 DEF Standing
  <2>5. Promise!Count(c)
    BY <1>1, <1>6, <2>1, <2>2, <2>3, <2>4 DEF Promise!Count
  <2> QED
    BY <1>1, <1>2, <2>3, <2>5
<1>12. CASE MarkWorkUnitError(e)
  <2>1. /\ unit' = [unit EXCEPT ![c] = "error"] /\ cut' = cut /\ judged' = judged /\ ~marks1
        /\ exec[e].pc = "failing" /\ ~marks
    BY <1>0, <1>2, <1>12 DEF MarkWorkUnitError, FailedStatus, Goto, ResponsesTypeOK, Busy, c, marks, marks1
  <2>2. /\ judged[c] = cut[c] /\ Standing[c] = 0
        /\ unit'[c] = "error" /\ \A u \in Units : u # c => unit'[u] = unit[u]
    BY <1>2, <1>5, <1>6, <2>1
  <2>3. LiveInv' /\ CellState' = [CellState EXCEPT ![c] = "error"]
    <3>1. judged'[c] = cut'[c] + 0
      BY <1>2, <1>5, <2>1, <2>2
    <3> QED
      BY <1>7, <2>1, <2>2, <3>1
  <2>4. Standing' = Standing
    BY <1>0, <2>1 DEF Standing
  <2>5. Promise!Miss(c)
    BY <1>1, <1>6, <2>1, <2>2, <2>3, <2>4 DEF Promise!Miss
  <2> QED
    BY <1>1, <1>2, <2>3, <2>5
\* The others write nothing.
<1>13. CASE \/ Generate(e) \/ FinishResponse(e)
            \/ exec[e].pc # "mark" /\ (Throw(e) \/ ResponseDies(e))
  <2>1. unit' = unit /\ judged' = judged /\ cut' = cut /\ exec[e].pc # "mark"
    BY <1>13 DEF Generate, FinishResponse, Throw, ResponseDies, Abandon, CutShort
  <2>2. exec'[e].pc # "mark"
    <3>1. CASE Generate(e)
      BY <1>0, <1>2, <3>1 DEF Generate, Goto, ResponsesTypeOK, Busy
    <3>2. CASE Throw(e)
      BY <1>0, <1>2, <3>2 DEF Throw, Goto, ResponsesTypeOK, Busy
    <3>3. CASE FinishResponse(e) \/ ResponseDies(e)
      BY <1>0, <3>3 DEF FinishResponse, ResponseDies, Abandon, Idle, ResponsesTypeOK
    <3> QED
      BY <1>13, <3>1, <3>2, <3>3
  <2>3. \A u \in Units : Marking(u)' <=> Marking(u)
    BY <1>2, <1>4, <2>1, <2>2 DEF Marking, marks, marks1
  <2>4. LiveInv'
    BY <1>0, <2>1, <2>3 DEF LiveInv
  <2>5. UNCHANGED <<CellState, Standing>>
    BY <1>0, <2>1 DEF CellState, Standing
  <2> QED
    BY <1>1, <2>4, <2>5
<1> QED
  BY <1>9, <1>10, <1>11, <1>12, <1>13 DEF RunResponse, ResponseStep

\* Of a cell that two handlers worked on side by side, nothing is promised.
LEMMA PromiseHandler ==
    ASSUME TypeOK, PlanInv, AloneInv, EndInv, LiveInv, NEW e \in Executors,
           RunResponse(e) \/ ResponseDies(e) \/ FinishResponse(e)
    PROVE  /\ LiveInv'
           /\ UNCHANGED <<FrozenPlan, CompletedInTime>>
           /\ \/ UNCHANGED <<CellState, Standing>>
              \/ \E c \in Units : \/ Promise!Measure(c) \/ Promise!WriteOff(c)
                                  \/ Promise!Count(c) \/ Promise!Miss(c)
<1> DEFINE c == exec[e].unit
<1>0. /\ ResponsesTypeOK /\ UNCHANGED <<run, nTotal, planner, agg, beside>>
      /\ beside \in [Units -> Nat]
  BY DEF TypeOK, RunResponse, ResponseDies, FinishResponse, cycleVars
<1>1. exec[e].pc # "idle" /\ c \in Units
  <2>1. exec[e].pc # "idle"
    BY <1>0, HandlerKeepsUnit, BusyHandler DEF RunResponse, ResponseDies, FinishResponse, Busy
  <2> QED
    BY <1>0, <2>1, BusyByLabel DEF Busy
<1>2. CASE beside[c] = 0
  BY <1>2, PromiseAlone
<1>3. CASE beside[c] # 0
  <2>1. /\ \A f \in Executors : f # e => exec'[f] = exec[f]
        /\ exec'[e].pc # "idle" => exec'[e].unit = c
    <3>1. CASE RunResponse(e)
      <4>1. PICK label \in {"failing", "judge", "mark", "returned"}, r \in Results :
              exec' = [exec EXCEPT ![e] = [@ EXCEPT !.pc = label, !.result = r]]
        BY <1>0, <3>1, HandlerKeepsUnit DEF RunResponse
      <4>2. exec[e] \in Busy
        BY <1>0, <1>1, BusyByLabel
      <4> QED
        BY <1>0, <4>1, <4>2 DEF ResponsesTypeOK, Busy
    <3>2. CASE ResponseDies(e) \/ FinishResponse(e)
      BY <1>0, <3>2 DEF ResponseDies, Abandon, FinishResponse, ResponsesTypeOK, Idle
    <3> QED
      BY <3>1, <3>2
  <2>2. \A u \in Units : u # c => (Marking(u)' <=> Marking(u))
    <3> SUFFICES ASSUME NEW u \in Units, u # c PROVE Marking(u)' <=> Marking(u)
      OBVIOUS
    <3>1. \A f \in Executors :
            (exec'[f].pc = "mark" /\ exec'[f].unit = u) <=> (exec[f].pc = "mark" /\ exec[f].unit = u)
      BY <2>1
    <3> QED
      BY <3>1 DEF Marking
  <2>3. \A u \in Units : u # c =>
            unit'[u] = unit[u] /\ judged'[u] = judged[u] /\ cut'[u] = cut[u]
    BY <1>0 DEF RunResponse, ResponseStep, Generate, MarkWorkUnitError, InsertJudgment,
       MarkWorkUnitDone, Throw, ResponseDies, Abandon, FinishResponse, CutShort, ResponsesTypeOK
  <2>4. UNCHANGED <<CellState, Standing>>
    BY <1>0, <1>3, <2>3 DEF CellState, Standing
  <2>5. LiveInv'
    BY <1>0, <1>3, <2>2, <2>3 DEF LiveInv
  <2> QED
    BY <1>0, <2>4, <2>5 DEF FrozenPlan, CompletedInTime
<1> QED
  BY <1>2, <1>3

\* A step that leaves cells and handlers alone.
LEMMA QuietPromise ==
    ASSUME LiveInv, UNCHANGED <<unit, judged, cut, exec, beside>>
    PROVE  LiveInv' /\ UNCHANGED <<CellState, Standing>>
BY DEF LiveInv, Marking, CellState, Standing

\* The planner freezes the plan. A cell is open before it has a row and after.
LEMMA PromisePlanner ==
    ASSUME TypeOK, EndInv, FreezeInv, LiveInv, PlannerStep \/ PlannerDies
    PROVE  /\ LiveInv' /\ UNCHANGED <<CellState, Standing>>
           /\ \/ UNCHANGED <<FrozenPlan, CompletedInTime>>
              \/ \E P \in SUBSET Units : Promise!Freeze(P)
              \/ Promise!Complete
<1>0. planner \in PlannerType /\ agg \in AggType /\ unit \in [Units -> UnitStatus]
  BY DEF TypeOK, PlannerType, AggType, ResponsesTypeOK
<1>1. planner.pc # "end" /\ run # "completed"
  <2>1. planner.pc # "end"
    BY DEF PlannerStep, PlannerDies, CreateRun, Preflight, SnapshotNTotal, FinishEmpty,
           PersistUnit, EnqueueResponse, AdvanceRotationState, StartRun, EnqueueAggregate, At
  <2> QED
    BY <2>1 DEF EndInv
<1>2. ASSUME NEW u \in Units, PersistUnit(u)
      PROVE  /\ LiveInv' /\ UNCHANGED <<CellState, Standing>>
             /\ UNCHANGED <<FrozenPlan, CompletedInTime>>
  <2>1. UNCHANGED <<judged, cut, exec, run, nTotal, planner, agg, beside>>
    BY <1>2 DEF PersistUnit, cycleVars
  <2>2. \A v \in Units : \/ unit'[v] = unit[v]
                         \/ unit[v] = "absent" /\ unit'[v] = "pending"
    BY <1>0, <1>2 DEF PersistUnit, InsertWorkUnit
  <2>3. CellState' = CellState
    BY <2>1, <2>2 DEF CellState
  <2>4. \A v \in Units : Marking(v)' <=> Marking(v)
    BY <2>1 DEF Marking
  <2>5. LiveInv'
    BY <2>1, <2>2, <2>4 DEF LiveInv
  <2> QED
    BY <2>1, <2>3, <2>5 DEF Standing, FrozenPlan, CompletedInTime
<1>3. ASSUME ~\E u \in Units : PersistUnit(u)
      PROVE  LiveInv' /\ UNCHANGED <<CellState, Standing>>
  <2>1. UNCHANGED <<unit, judged, cut, exec, beside>>
    BY <1>3 DEF PlannerStep, PlannerDies, CreateRun, Preflight, SnapshotNTotal, FinishEmpty,
           EnqueueResponse, AdvanceRotationState, StartRun, EnqueueAggregate, responseVars
  <2> QED
    BY <2>1, QuietPromise
<1>4. CASE SnapshotNTotal
  <2>1. /\ nTotal = 0 /\ nTotal' = Cardinality(planner.plan) /\ planner'.plan = planner.plan
        /\ UNCHANGED <<run, agg>> /\ planner.plan \in SUBSET Units
    BY <1>0, <1>4 DEF SnapshotNTotal, At, GoOn, FreezeInv, PlannerType
  <2>2. FrozenPlan = {} /\ CompletedInTime = FALSE /\ CompletedInTime' = FALSE
    BY <1>1, <2>1 DEF FrozenPlan, CompletedInTime
  <2>3. FrozenPlan' = planner.plan
    <3>1. IsFiniteSet(planner.plan)
      BY <2>1, FS_Subset, ResponsesAssumption
    <3>2. Cardinality(planner.plan) = 0 => planner.plan = {}
      BY <3>1, FS_EmptySet
    <3> QED
      BY <2>1, <3>2 DEF FrozenPlan
  <2>4. LiveInv' /\ UNCHANGED <<CellState, Standing>>
    BY <1>3, <1>4 DEF SnapshotNTotal, PersistUnit, At
  <2>5. Promise!Freeze(planner.plan)
    BY <2>2, <2>3, <2>4 DEF Promise!Freeze
  <2> QED
    BY <2>1, <2>4, <2>5
<1>5. CASE FinishEmpty
  <2>1. planner.plan = {} /\ planner'.plan = planner.plan /\ UNCHANGED <<nTotal, agg>>
        /\ run' = "completed"
    BY <1>0, <1>5 DEF FinishEmpty, At, GoOn, EndInv, PlannerType
  <2>2. FrozenPlan = {} /\ FrozenPlan' = {}
    BY <2>1 DEF FrozenPlan
  <2>3. LiveInv' /\ UNCHANGED <<CellState, Standing>>
    BY <1>3, <1>5 DEF FinishEmpty, PersistUnit, At
  <2>4. CASE agg.late
    BY <1>1, <2>1, <2>2, <2>3, <2>4 DEF CompletedInTime
  <2>5. CASE ~agg.late
    <3>1. CompletedInTime' = TRUE
      BY <2>1, <2>5 DEF CompletedInTime
    <3>2. Promise!Complete
      BY <2>2, <2>3, <3>1 DEF Promise!Complete
    <3> QED
      BY <2>3, <3>2
  <2> QED
    BY <2>4, <2>5
<1>6. CASE CreateRun
  <2>1. nTotal = 0 /\ UNCHANGED <<nTotal, agg>> /\ run' # "completed"
    BY <1>6 DEF CreateRun, At, FreezeInv
  <2>2. UNCHANGED <<FrozenPlan, CompletedInTime>>
    BY <1>1, <2>1 DEF FrozenPlan, CompletedInTime
  <2>3. LiveInv' /\ UNCHANGED <<CellState, Standing>>
    BY <1>3, <1>6 DEF CreateRun, PersistUnit, At
  <2> QED
    BY <2>2, <2>3
<1>7. CASE Preflight \/ StartRun \/ EnqueueAggregate \/ PlannerDies
  <2>1. nTotal' = nTotal /\ planner'.plan = planner.plan /\ run' # "completed"
    BY <1>0, <1>1, <1>7
    DEF Preflight, StartRun, EnqueueAggregate, PlannerDies, GoOn, PlannerType
  <2>2. UNCHANGED <<FrozenPlan, CompletedInTime>>
    BY <1>1, <2>1 DEF FrozenPlan, CompletedInTime
  <2>3. UNCHANGED <<unit, judged, cut, exec, beside>>
    BY <1>7 DEF Preflight, StartRun, EnqueueAggregate, PlannerDies, responseVars
  <2> QED
    BY <2>2, <2>3, QuietPromise
<1>8. ASSUME (\E u \in Units : EnqueueResponse(u)) \/ (\E t \in Tiers : AdvanceRotationState(t))
      PROVE  /\ LiveInv' /\ UNCHANGED <<CellState, Standing>>
             /\ UNCHANGED <<FrozenPlan, CompletedInTime>>
  <2>1. nTotal' = nTotal /\ planner'.plan = planner.plan /\ UNCHANGED <<run, agg>>
    BY <1>0, <1>8 DEF EnqueueResponse, AdvanceRotationState, PlannerType
  <2>2. UNCHANGED <<FrozenPlan, CompletedInTime>>
    BY <2>1 DEF FrozenPlan, CompletedInTime
  <2>3. UNCHANGED <<unit, judged, cut, exec, beside>>
    BY <1>8 DEF EnqueueResponse, AdvanceRotationState, responseVars
  <2> QED
    BY <2>2, <2>3, QuietPromise
<1> QED
  BY <1>2, <1>4, <1>5, <1>6, <1>7, <1>8 DEF PlannerStep

\* The aggregation completes the run when it has looked in time, and one that is
\* delivered again may withdraw the report.
LEMMA PromiseAggregate ==
    ASSUME TypeOK, EndInv, FreezeInv, LiveInv, AggregateStep \/ AggregateDies
    PROVE  /\ LiveInv' /\ UNCHANGED <<CellState, Standing>>
           /\ \/ UNCHANGED <<FrozenPlan, CompletedInTime>>
              \/ Promise!Complete \/ Promise!Withdraw
<1>1. UNCHANGED <<unit, judged, cut, exec, nTotal, planner, beside>>
  BY DEF AggregateStep, TakeAggregate, EndPoll, Deadline, CheckCounts, AssembleReport,
         FinishRun, EnqueueDelivery, AggregateDies, responseVars
<1>2. LiveInv' /\ UNCHANGED <<CellState, Standing, FrozenPlan>>
  BY <1>1, QuietPromise DEF FrozenPlan
<1>3. agg.job # "none" /\ nTotal # 0 /\ planner.plan \subseteq Present
  BY FreezeAggregate DEF FreezeInv
<1>4. CompletedInTime \in BOOLEAN /\ CompletedInTime' \in BOOLEAN
  BY DEF CompletedInTime
<1>5. CASE CompletedInTime'
  <2>1. Pending = {}
    BY <1>1, <1>5, EndAggregate DEF EndInv, CompletedIsComplete, CompletedInTime, Pending
  <2>2. ASSUME NEW u \in FrozenPlan PROVE CellState[u] # "open"
    <3>1. u \in Units /\ unit[u] # "absent"
      BY <1>3 DEF FrozenPlan, Present
    <3>2. unit[u] # "pending" /\ unit[u] # "skipped" /\ unit[u] \in UnitStatus
      BY <2>1, <3>1 DEF EndInv, Pending, TypeOK, ResponsesTypeOK
    <3> QED
      BY <3>1, <3>2 DEF CellState, UnitStatus
  <2> QED
    BY <1>2, <1>4, <1>5, <2>2 DEF Promise!Complete
<1>6. CASE ~CompletedInTime' /\ CompletedInTime
  <2>1. planner.plan # {}
    BY <1>3, FS_EmptySet DEF FreezeInv
  <2>2. FrozenPlan # {}
    BY <1>3, <2>1 DEF FrozenPlan
  <2> QED
    BY <1>2, <1>4, <1>6, <2>2 DEF Promise!Withdraw
<1> QED
  BY <1>2, <1>4, <1>5, <1>6

\* A job that is delivered beside a running handler makes its cell void.
LEMMA PromiseTake ==
    ASSUME TypeOK, PlanInv, LiveInv, NEW e \in Executors, NEW u \in Units, TakeResponse(e, u)
    PROVE  /\ LiveInv' /\ UNCHANGED <<FrozenPlan, CompletedInTime>>
           /\ UNCHANGED <<CellState, Standing>> \/ Promise!Void(u)
<1>1. UNCHANGED <<unit, judged, cut, run, nTotal, planner, agg>>
  BY DEF TakeResponse, BeginResponse
<1>2. UNCHANGED <<FrozenPlan, CompletedInTime>>
  BY <1>1 DEF FrozenPlan, CompletedInTime
<1>3. \A v \in Units : Marking(v)' <=> Marking(v)
  <2>1. /\ exec[e] = Idle /\ exec'[e].pc # "mark"
        /\ \A f \in Executors : f # e => exec'[f] = exec[f]
    BY DEF TakeResponse, BeginResponse, Entry, TypeOK, ResponsesTypeOK
  <2> QED
    BY <2>1 DEF Marking, Idle
<1>4. /\ beside \in [Units -> Nat] /\ beside' \in [Units -> Nat]
      /\ \A v \in Units : beside'[v] = 0 => beside[v] = 0
  BY DEF TypeOK, TakeResponse
<1>5. LiveInv'
  BY <1>1, <1>3, <1>4 DEF LiveInv
<1>6. CASE ~Running(u)
  <2>1. beside' = beside
    BY <1>6 DEF TakeResponse
  <2> QED
    BY <1>1, <1>2, <1>5, <2>1 DEF CellState, Standing
<1>7. CASE Running(u)
  <2>1. beside' = [beside EXCEPT ![u] = @ + 1]
    BY <1>7 DEF TakeResponse
  <2>2. beside'[u] > 0 /\ \A v \in Units : v # u => beside'[v] = beside[v]
    BY <1>4, <2>1
  <2>3. CellState' = [CellState EXCEPT ![u] = "void"]
    BY <1>1, <2>2 DEF CellState
  <2>4. Standing' = [Standing EXCEPT ![u] = 0]
    BY <1>1, <2>2 DEF Standing
  <2>5. u \in FrozenPlan
    BY JobIsFrozen DEF TakeResponse
  <2> QED
    BY <1>2, <1>5, <2>3, <2>4, <2>5 DEF Promise!Void
<1> QED
  BY <1>6, <1>7

\* Each step of the run is one of MeasureOnce, or changes nothing there.
LEMMA PromiseStep ==
    ASSUME TypeOK, PlanInv, AloneInv, EndInv, FreezeInv, LiveInv, [Next]_vars
    PROVE  /\ LiveInv'
           /\ [Promise!Next]_<<FrozenPlan, CellState, Standing, CompletedInTime>>
<1>1. CASE UNCHANGED vars
  <2>1. UNCHANGED <<unit, judged, cut, exec, run, nTotal, planner, agg, beside>>
    BY <1>1 DEF vars, responseVars, cycleVars
  <2> QED
    BY <2>1, QuietPromise DEF FrozenPlan, CompletedInTime
<1>2. CASE PlannerStep \/ PlannerDies
  BY <1>2, PromisePlanner DEF Promise!Next
<1>3. ASSUME NEW e \in Executors, HandlerStep(e) \/ ResponseDies(e)
      PROVE  /\ LiveInv'
             /\ [Promise!Next]_<<FrozenPlan, CellState, Standing, CompletedInTime>>
  BY <1>3, PromiseHandler DEF HandlerStep, Promise!Next
<1>4. ASSUME NEW e \in Executors, NEW u \in Units, TakeResponse(e, u)
      PROVE  /\ LiveInv'
             /\ [Promise!Next]_<<FrozenPlan, CellState, Standing, CompletedInTime>>
  BY <1>4, PromiseTake DEF Promise!Next
<1>5. ASSUME NEW u \in Units, ExpireResponse(u)
      PROVE  /\ LiveInv'
             /\ UNCHANGED <<FrozenPlan, CellState, Standing, CompletedInTime>>
  <2>1. UNCHANGED <<unit, judged, cut, exec, run, nTotal, planner, agg, beside>>
    BY <1>5 DEF ExpireResponse, responseVars
  <2> QED
    BY <2>1, QuietPromise DEF FrozenPlan, CompletedInTime
<1>6. CASE AggregateStep \/ AggregateDies
  BY <1>6, PromiseAggregate DEF Promise!Next
<1> QED
  BY <1>1, <1>2, <1>3, <1>4, <1>5, <1>6 DEF Next

\* An operating run measures each cell of a frozen plan once: planner, response handlers
\* and aggregation implement MeasureOnce, whatever dies, fails, is retried or is delivered
\* twice, the aggregation of a run that has ended included (runCycle.ts, runResponse.ts).
THEOREM CycleRefinesMeasureOnce == Spec => ImplementsMeasureOnce
<1> DEFINE Inv == PlanInv /\ CountInv /\ AloneInv /\ EndInv /\ FreezeInv /\ LiveInv
<1>1. Init => Inv /\ Promise!Init
  BY PlanInit, CountInit, EndInit, PromiseInit
<1>2. TypeOK /\ Inv /\ [Next]_vars => Inv'
  BY PlanStep, CountStep, EndStep, FreezeStep, PromiseStep
<1>3. TypeOK /\ Inv /\ [Next]_vars
        => [Promise!Next]_<<FrozenPlan, CellState, Standing, CompletedInTime>>
  BY PromiseStep
<1> HIDE DEF Inv
<1> QED
  BY <1>1, <1>2, <1>3, TypeCorrect, PTL DEF Spec, ImplementsMeasureOnce, Promise!Spec

=============================================================================
