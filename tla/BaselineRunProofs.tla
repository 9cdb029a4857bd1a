-------------------------- MODULE BaselineRunProofs --------------------------
(***************************************************************************)
(* Proofs about BaselineRun, for any units, plans and processes, any number *)
(* of kills, and any faults, also when several processes work on the run   *)
(* at once: types, and what 'completed' means.                             *)
(***************************************************************************)
EXTENDS BaselineRun, FiniteSetTheorems, TLAPS

-----------------------------------------------------------------------------
(* The steps of runResponse: what a handler works on, and that its steps   *)
(* keep the tables of the units well typed.                                *)

Results == {"none", "ok", "budget", "retryable", "unexpected"}

Busy == [pc: {"start", "failing", "judge", "mark", "returned"}, unit: Units,
         carried: BOOLEAN, result: Results]

\* A handler that is not idle works on a unit.
LEMMA BusyHandler ==
    ASSUME ResponsesTypeOK, NEW e \in Executors, exec[e] # Idle
    PROVE  exec[e] \in Busy
BY DEF ResponsesTypeOK, ExecType, Busy, Results

LEMMA BusyByLabel ==
    ASSUME ResponsesTypeOK, NEW e \in Executors, exec[e].pc # "idle"
    PROVE  exec[e] # Idle /\ exec[e] \in Busy
BY BusyHandler DEF Idle

LEMMA IdleHandler ==
    ASSUME ResponsesTypeOK, NEW e \in Executors, exec[e].pc = "idle"
    PROVE  exec[e] = Idle
BY BusyHandler DEF Busy

\* Moving a busy handler on keeps its type.
LEMMA GotoType ==
    ASSUME ResponsesTypeOK, NEW e \in Executors, exec[e].pc # "idle",
           NEW label \in {"start", "failing", "judge", "mark", "returned"},
           NEW result \in Results,
           Goto(e, label, result)
    PROVE  exec' \in [Executors -> ExecType]
<1>1. [exec[e] EXCEPT !.pc = label, !.result = result] \in Busy
  BY BusyByLabel DEF Busy
<1>2. exec' = [exec EXCEPT ![e] = [exec[e] EXCEPT !.pc = label, !.result = result]]
  BY DEF Goto
<1> QED
  BY <1>1, <1>2 DEF ResponsesTypeOK, ExecType, Busy, Results

LEMMA CutType ==
    ASSUME ResponsesTypeOK, NEW e \in Executors
    PROVE  CutShort(e) \in [Units -> Nat]
<1>1. CASE exec[e].pc = "mark"
  <2>1. exec[e].unit \in Units
    BY <1>1, BusyByLabel DEF Busy
  <2> QED
    BY <1>1, <2>1 DEF CutShort, ResponsesTypeOK
<1>2. CASE exec[e].pc # "mark"
  BY <1>2 DEF CutShort, ResponsesTypeOK
<1> QED
  BY <1>1, <1>2

\* The steps of runResponse keep the tables of the units well typed.
LEMMA ResponseType ==
    ASSUME ResponsesTypeOK, NEW e \in Executors, ResponseStep(e) \/ Throw(e)
    PROVE  ResponsesTypeOK'
<1>1. CASE Generate(e)
  BY <1>1, GotoType DEF ResponsesTypeOK, Generate, Results
<1>2. CASE MarkWorkUnitError(e)
  <2>1. exec[e] \in Busy
    BY <1>2, BusyByLabel DEF MarkWorkUnitError
  <2>2. exec' \in [Executors -> ExecType]
    BY <1>2, <2>1, GotoType DEF MarkWorkUnitError, Busy
  <2> QED
    BY <1>2, <2>2 DEF ResponsesTypeOK, MarkWorkUnitError, FailedStatus, UnitStatus
<1>3. CASE InsertJudgment(e)
  <2>1. exec[e] \in Busy
    BY <1>3, BusyByLabel DEF InsertJudgment
  <2>2. exec' \in [Executors -> ExecType]
    BY <1>3, <2>1, GotoType DEF InsertJudgment, Busy
  <2> QED
    BY <1>3, <2>1, <2>2 DEF ResponsesTypeOK, InsertJudgment, Busy
<1>4. CASE MarkWorkUnitDone(e)
  <2>1. exec[e] \in Busy
    BY <1>4, BusyByLabel DEF MarkWorkUnitDone
  <2>2. exec' \in [Executors -> ExecType]
    BY <1>4, <2>1, GotoType DEF MarkWorkUnitDone, Busy
  <2> QED
    BY <1>4, <2>2 DEF ResponsesTypeOK, MarkWorkUnitDone, UnitStatus
<1>5. CASE Throw(e)
  <2>1. exec' \in [Executors -> ExecType]
    BY <1>5, GotoType DEF Throw, Results
  <2> QED
    BY <1>5, <2>1, CutType DEF ResponsesTypeOK, Throw
<1> QED
  BY <1>1, <1>2, <1>3, <1>4, <1>5 DEF ResponseStep

LEMMA IdleType ==
    ASSUME ResponsesTypeOK, NEW e \in Executors
    PROVE  [exec EXCEPT ![e] = Idle] \in [Executors -> ExecType]
BY DEF ResponsesTypeOK, ExecType

LEMMA BeginType ==
    ASSUME ResponsesTypeOK, NEW e \in Executors, NEW u \in Units, BeginResponse(e, u)
    PROVE  ResponsesTypeOK'
<1>1. [pc |-> Entry(u), unit |-> u, carried |-> FALSE, result |-> "ok"] \in ExecType
  BY DEF Entry, ExecType
<1> QED
  BY <1>1 DEF ResponsesTypeOK, BeginResponse

\* A step of runResponse keeps its handler on the unit it works on.
LEMMA HandlerKeepsUnit ==
    ASSUME ResponsesTypeOK, NEW e \in Executors, ResponseStep(e) \/ Throw(e)
    PROVE  /\ exec[e].pc # "idle"
           /\ \E label \in {"failing", "judge", "mark", "returned"}, r \in Results :
                exec' = [exec EXCEPT ![e] = [@ EXCEPT !.pc = label, !.result = r]]
<1>1. exec[e].pc # "idle"
  BY DEF ResponseStep, Throw, Generate, MarkWorkUnitError, InsertJudgment, MarkWorkUnitDone
<1>2. exec[e].result \in Results
  BY <1>1, BusyByLabel DEF Busy
<1>3. \E label \in {"failing", "judge", "mark", "returned"}, r \in Results : Goto(e, label, r)
  <2>1. CASE Generate(e)
    BY <2>1 DEF Generate, Results
  <2>2. CASE MarkWorkUnitError(e) \/ InsertJudgment(e) \/ MarkWorkUnitDone(e)
    BY <1>2, <2>2 DEF MarkWorkUnitError, InsertJudgment, MarkWorkUnitDone
  <2>3. CASE Throw(e)
    BY <2>3 DEF Throw, Results
  <2> QED
    BY <2>1, <2>2, <2>3 DEF ResponseStep
<1> QED
  BY <1>1, <1>3 DEF Goto

-----------------------------------------------------------------------------
(* The local state of processes and jobs *)

ProcType == [pc: {"away", "select", "preflight", "snapshot", "empty", "persist", "units"},
             resuming: BOOLEAN, todo: SUBSET Units, hadError: BOOLEAN,
             overBudget: BOOLEAN, beyond: SUBSET Units]

-----------------------------------------------------------------------------
(* Types *)

LEMMA ProcKeepsType ==
    ASSUME TypeOK, NEW p \in Executors, NEW s \in ProcType
    PROVE  [proc EXCEPT ![p] = s] \in [Executors -> ProcType]
BY DEF TypeOK, ProcType

LEMMA AwayType == Away \in ProcType
BY DEF Away, ProcType

LEMMA TypeInit == ASSUME Init PROVE TypeOK
<1>1. ResponsesTypeOK
  BY DEF Init, ResponsesInit, ResponsesTypeOK, UnitStatus, ExecType
<1>2. nTotal \in 0..Cardinality(Units)
  BY FS_CardinalityType, ResponsesAssumption DEF Init
<1>3. proc \in [Executors -> ProcType]
  BY AwayType DEF Init
<1>4. kills \in 0..MaxKills
  BY BaselineAssumption DEF Init
<1> QED
  BY <1>1, <1>2, <1>3, <1>4 DEF Init, TypeOK, RunStatus, ProcType

\* Steps that only move a process, and set the status of the run.
LEMMA TypeMove ==
    ASSUME TypeOK, NEW p \in Executors, UNCHANGED <<responseVars, nTotal, kills>>, stranded' \in SUBSET Units,
           \E s \in ProcType : proc' = [proc EXCEPT ![p] = s],
           run' \in RunStatus, stale' \in BOOLEAN
    PROVE  TypeOK'
<1>1. proc' \in [Executors -> ProcType]
  BY ProcKeepsType
<1> QED
  BY <1>1 DEF TypeOK, ProcType, responseVars, ResponsesTypeOK

LEMMA TypeSelect ==
    ASSUME TypeOK, NEW p \in Executors,
           CreateRun(p) \/ ResumeRun(p) \/ SelectUnits(p) \/ Refused(p) \/ Preflight(p)
    PROVE  TypeOK'
<1>0. /\ proc[p] \in ProcType /\ run \in RunStatus /\ stale \in BOOLEAN
      /\ stranded \in SUBSET Units
  BY DEF TypeOK, ProcType
<1>1. \E s \in ProcType : proc' = [proc EXCEPT ![p] = s]
  <2>1. CASE CreateRun(p)
    <3>1. PICK plan \in Plans :
            proc' = [proc EXCEPT ![p] = [Away EXCEPT !.pc = "preflight", !.todo = plan]]
      BY <2>1 DEF CreateRun
    <3>2. [Away EXCEPT !.pc = "preflight", !.todo = plan] \in ProcType
      BY BaselineAssumption DEF Away, ProcType
    <3> QED
      BY <3>1, <3>2
  <2>2. CASE ResumeRun(p)
    <3>1. [Away EXCEPT !.pc = "select", !.resuming = TRUE] \in ProcType
      BY DEF Away, ProcType
    <3> QED
      BY <2>2, <3>1 DEF ResumeRun
  <2>3. CASE SelectUnits(p)
    <3>1. PICK plan \in Regenerated :
            \/ Leave(p)
            \/ proc' = [proc EXCEPT ![p] =
                        [@ EXCEPT !.pc = "preflight", !.todo = Executable(plan),
                                  !.beyond = Pending \ plan]]
      BY <2>3 DEF SelectUnits
    <3>2. [proc[p] EXCEPT !.pc = "preflight", !.todo = Executable(plan),
                          !.beyond = Pending \ plan] \in ProcType
      BY <1>0 DEF ProcType, Executable, Pending
    <3> QED
      BY <3>1, <3>2, AwayType DEF Leave
  <2>4. CASE Refused(p)
    BY <2>4, AwayType DEF Refused, Leave
  <2>5. CASE Preflight(p)
    <3>1. [proc[p] EXCEPT !.pc = IF proc[p].resuming THEN "units" ELSE "snapshot"] \in ProcType
      BY <1>0 DEF ProcType
    <3> QED
      BY <2>5, <3>1 DEF Preflight
  <2> QED
    BY <2>1, <2>2, <2>3, <2>4, <2>5
<1>2. /\ UNCHANGED <<responseVars, nTotal, kills>> /\ run' \in RunStatus /\ stale' \in BOOLEAN
      /\ stranded' \in SUBSET Units
  BY <1>0 DEF TypeOK, CreateRun, ResumeRun, SelectUnits, Refused, Preflight, RunStatus
<1> QED
  BY <1>1, <1>2, TypeMove

LEMMA TypeCreate ==
    ASSUME TypeOK, NEW p \in Executors,
           \/ SnapshotNTotal(p) \/ FinishEmpty(p) \/ StartRun(p)
           \/ \E u \in Units : PersistUnit(p, u)
    PROVE  TypeOK'
<1>0. /\ proc[p] \in ProcType /\ run \in RunStatus /\ stale \in BOOLEAN
      /\ stranded \in SUBSET Units
  BY DEF TypeOK, ProcType
<1>1. CASE SnapshotNTotal(p)
  <2>1. nTotal' \in 0..Cardinality(Units)
    BY <1>0, <1>1, FS_Subset, FS_CardinalityType, ResponsesAssumption
    DEF SnapshotNTotal, Denominator, ProcType
  <2>2. [proc[p] EXCEPT !.pc = IF proc[p].todo = {} THEN "empty" ELSE "persist"] \in ProcType
    BY <1>0 DEF ProcType
  <2>3. proc' \in [Executors -> ProcType]
    BY <1>1, <2>2, ProcKeepsType DEF SnapshotNTotal
  <2> QED
    BY <1>1, <2>1, <2>3 DEF SnapshotNTotal, TypeOK, ProcType, responseVars, ResponsesTypeOK
<1>2. CASE FinishEmpty(p)
  BY <1>0, <1>2, AwayType, TypeMove DEF FinishEmpty, Leave, RunStatus
<1>3. CASE StartRun(p)
  <2>1. [proc[p] EXCEPT !.pc = "units"] \in ProcType
    BY <1>0 DEF ProcType
  <2>2. /\ \E t \in ProcType : proc' = [proc EXCEPT ![p] = t]
        /\ UNCHANGED <<responseVars, nTotal, kills>> /\ stranded' \in SUBSET Units
        /\ run' \in RunStatus /\ stale' \in BOOLEAN
    BY <1>0, <1>3, <2>1 DEF StartRun, RunStatus
  <2> QED
    BY <2>2, TypeMove
<1>4. ASSUME NEW u \in Units, PersistUnit(p, u) PROVE TypeOK'
  BY <1>4 DEF TypeOK, PersistUnit, InsertWorkUnit, ResponsesTypeOK, UnitStatus, runVars
<1> QED
  BY <1>1, <1>2, <1>3, <1>4

LEMMA TypeUnits ==
    ASSUME TypeOK, NEW p \in Executors,
           \/ \E u \in Units : SkipUnit(p, u) \/ CarryForward(p, u) \/ RunUnit(p, u)
           \/ RunResponse(p) \/ UnitReturns(p) \/ FinishRun(p) \/ Kill(p)
    PROVE  TypeOK'
<1>0. /\ proc[p] \in ProcType /\ run \in RunStatus /\ stale \in BOOLEAN /\ ResponsesTypeOK
      /\ stranded \in SUBSET Units /\ proc[p].beyond \in SUBSET Units
  BY DEF TypeOK, ProcType
<1>1. ASSUME NEW u \in Units, Drop(p, u) PROVE proc' \in [Executors -> ProcType]
  <2>1. [proc[p] EXCEPT !.todo = @ \ {u}] \in ProcType
    BY <1>0 DEF ProcType
  <2> QED
    BY <1>1, <2>1, ProcKeepsType DEF Drop
<1>2. ASSUME NEW u \in Units, SkipUnit(p, u) PROVE TypeOK'
  BY <1>0, <1>1, <1>2 DEF SkipUnit, TypeOK, ProcType, ResponsesTypeOK, UnitStatus
<1>3. ASSUME NEW u \in Units, CarryForward(p, u) PROVE TypeOK'
  <2>1. [pc |-> "judge", unit |-> u, carried |-> TRUE, result |-> "ok"] \in ExecType
    BY DEF ExecType
  <2> QED
    BY <1>0, <1>1, <1>3, <2>1 DEF CarryForward, TypeOK, ProcType, ResponsesTypeOK
<1>4. ASSUME NEW u \in Units, RunUnit(p, u) PROVE TypeOK'
  <2>1. ResponsesTypeOK'
    BY <1>0, <1>4, BeginType DEF RunUnit
  <2> QED
    BY <1>1, <1>4, <2>1 DEF RunUnit, TypeOK, ProcType
<1>5. CASE RunResponse(p)
  <2>1. ResponsesTypeOK'
    BY <1>0, <1>5, ResponseType DEF RunResponse
  <2> QED
    BY <1>5, <2>1 DEF RunResponse, TypeOK, runVars
<1>6. CASE UnitReturns(p)
  <2>1. /\ [proc[p] EXCEPT !.overBudget = TRUE, !.todo = {}] \in ProcType
        /\ [proc[p] EXCEPT !.hadError = @ \/ FailsRun(exec[p].result)] \in ProcType
    <3> DEFINE b == proc[p].hadError \/ FailsRun(exec[p].result)
    <3>1. b \in BOOLEAN
      OBVIOUS
    <3> HIDE DEF b
    <3>2. [proc[p] EXCEPT !.hadError = b] \in ProcType
      BY <1>0, <3>1 DEF ProcType
    <3>3. [proc[p] EXCEPT !.hadError = @ \/ FailsRun(exec[p].result)] \in ProcType
      BY <3>2 DEF b
    <3>4. [proc[p] EXCEPT !.overBudget = TRUE, !.todo = {}] \in ProcType
      BY <1>0 DEF ProcType
    <3> QED
      BY <3>3, <3>4
  <2>2. proc' \in [Executors -> ProcType]
    BY <1>6, <2>1, ProcKeepsType DEF UnitReturns
  <2> QED
    BY <1>0, <1>6, <2>2, IdleType DEF UnitReturns, TypeOK, ProcType, ResponsesTypeOK
<1>7. CASE FinishRun(p)
  BY <1>0, <1>7, AwayType, TypeMove DEF FinishRun, Leave, RunStatus
<1>8. CASE Kill(p)
  <2>1. proc' \in [Executors -> ProcType]
    BY <1>8, AwayType, ProcKeepsType DEF Kill, Leave
  <2>2. kills' \in 0..MaxKills
    BY <1>8, BaselineAssumption DEF Kill, TypeOK
  <2>3. ResponsesTypeOK'
    BY <1>0, <1>8, IdleType, CutType DEF Kill, Abandon, ResponsesTypeOK
  <2> QED
    BY <1>8, <2>1, <2>2, <2>3 DEF Kill, TypeOK, ProcType
<1> QED
  BY <1>2, <1>3, <1>4, <1>5, <1>6, <1>7, <1>8

LEMMA TypeStep ==
    ASSUME TypeOK, [Next]_vars
    PROVE  TypeOK'
<1>1. CASE UNCHANGED vars
  BY <1>1 DEF TypeOK, ResponsesTypeOK, vars, responseVars, runVars
<1>2. CASE GrowStale
  BY <1>2 DEF GrowStale, TypeOK, ResponsesTypeOK, responseVars
<1> QED
  BY <1>1, <1>2, TypeSelect, TypeCreate, TypeUnits DEF Next, ProcessStep

\* The tables, the processes and n_total stay well typed, however many processes work on
\* the run (runCycle.ts, PATH A).
THEOREM TypeCorrect == Spec => []TypeOK
<1>1. Init => TypeOK
  BY TypeInit
<1>2. TypeOK /\ [Next]_vars => TypeOK'
  BY TypeStep
<1> QED
  BY <1>1, <1>2, PTL DEF Spec

-----------------------------------------------------------------------------
(* What 'completed' means *)

\* All that is known of a reachable state.
Sound == TypeOK /\ CreateInv /\ WorkInv

LEMMA SoundInit == ASSUME Init PROVE CreateInv /\ WorkInv
<1>1. Present = {} /\ Pending = {}
  BY DEF Init, ResponsesInit, Present, Pending
<1> QED
  BY <1>1 DEF Init, ResponsesInit, Idle, Away, CreateInv, WorkInv, Creating, CompletedExecutesItsPlan

\* A process that is neither creating the run nor working on it, and has forgotten its
\* cells, is bound by nothing.
LEMMA AwayIsFree ==
    /\ Away.pc = "away" /\ ~Away.resuming /\ ~Away.overBudget /\ ~Away.hadError
    /\ Away.todo = {} /\ Idle.pc = "idle"
BY DEF Away, Idle

\* While the cells stay as they are, a step of one process has to be looked at for that
\* process alone.
LEMMA OneMoves ==
    ASSUME Sound, NEW p \in Executors, NEW s,
           proc' = [proc EXCEPT ![p] = s], UNCHANGED <<unit, exec>>,
           exec[p].pc # "idle" => s.pc = "units",
           s.pc = "select" => s.resuming,
           s.pc = "preflight" /\ s.resuming =>
                Pending \subseteq s.todo \cup s.beyond /\ s.todo \subseteq Present,
           s.pc = "units" => s.todo \subseteq Present,
           s.pc = "units" /\ ~s.overBudget /\ ~s.hadError
                => Pending \subseteq s.todo \cup InHand(p) \cup s.beyond,
           run' = "completed" => Pending \subseteq stranded'
    PROVE  WorkInv'
<1>1. proc'[p] = s /\ \A q \in Executors \ {p} : proc'[q] = proc[q]
  BY DEF Sound, TypeOK
<1>2. /\ Pending' = Pending /\ Present' = Present
      /\ \A q \in Executors : InHand(q)' = InHand(q)
  BY DEF Pending, Present, InHand
<1> QED
  BY <1>1, <1>2 DEF Sound, WorkInv, CompletedExecutesItsPlan

\* Nobody creates the run any more, and the cells that have rows stay the same.
LEMMA NobodyCreates ==
    ASSUME CreateInv, Present' = Present, run' # "none", \A p \in Executors : ~Creating(p)'
    PROVE  CreateInv'
BY DEF CreateInv

\* A step that is not the creator's leaves the creation of the run alone.
LEMMA WorkersDoNotCreate ==
    ASSUME Sound, NEW p \in Executors, proc[p] # Away, ~Creating(p)
    PROVE  \A q \in Executors : ~Creating(q)
BY DEF Sound, CreateInv

LEMMA SoundSelect ==
    ASSUME Sound, NEW p \in Executors,
           CreateRun(p) \/ ResumeRun(p) \/ SelectUnits(p) \/ Refused(p) \/ Preflight(p)
    PROVE  CreateInv' /\ WorkInv'
<1>0. /\ proc \in [Executors -> ProcType] /\ proc[p] \in ProcType
      /\ UNCHANGED <<unit, exec>> /\ Present' = Present
  BY DEF Sound, TypeOK, ProcType, CreateRun, ResumeRun, SelectUnits, Refused, Preflight,
         responseVars, Present
<1>1. CASE CreateRun(p)
  <2>1. PICK plan \in Plans :
          proc' = [proc EXCEPT ![p] = [Away EXCEPT !.pc = "preflight", !.todo = plan]]
    BY <1>1 DEF CreateRun
  <2> DEFINE s == [Away EXCEPT !.pc = "preflight", !.todo = plan]
  <2>2. s.pc = "preflight" /\ ~s.resuming /\ s.todo = plan
    BY DEF Away
  <2> HIDE DEF s
  <2>3. Present = {} /\ run' = "planned" /\ \A q \in Executors : proc[q] = Away
    BY <1>1 DEF CreateRun, Sound, CreateInv
  <2>4. proc'[p] = s /\ \A q \in Executors \ {p} : proc'[q] = Away
    BY <1>0, <2>1, <2>3 DEF s
  <2>5. WorkInv'
    <3>1. exec[p].pc = "idle"
      BY <2>3, AwayIsFree DEF Sound, WorkInv
    <3>2. proc' = [proc EXCEPT ![p] = s]
      BY <2>1 DEF s
    <3> QED
      BY <1>0, <2>2, <2>3, <3>1, <3>2, OneMoves
  <2>6. CreateInv'
    <3>1. \A q \in Executors : Creating(q)' => q = p
      BY <2>4, AwayIsFree DEF Creating
    <3> QED
      BY <1>0, <2>2, <2>3, <2>4, <3>1 DEF CreateInv
  <2> QED
    BY <2>5, <2>6
<1>2. CASE ResumeRun(p)
  <2> DEFINE s == [Away EXCEPT !.pc = "select", !.resuming = TRUE]
  <2>1. s.pc = "select" /\ s.resuming
    BY DEF Away
  <2>2. proc' = [proc EXCEPT ![p] = s] /\ run = "running" /\ run' = run /\ proc[p] = Away
    BY <1>2 DEF ResumeRun, Resumable
  <2> HIDE DEF s
  <2>3. exec[p].pc = "idle"
    BY <2>2, AwayIsFree DEF Sound, WorkInv
  <2>4. WorkInv'
    BY <1>0, <2>1, <2>2, <2>3, OneMoves
  <2>5. \A q \in Executors : ~Creating(q)'
    BY <1>0, <2>1, <2>2 DEF Sound, CreateInv, Creating
  <2> QED
    BY <1>0, <2>2, <2>4, <2>5, NobodyCreates DEF Sound
<1>3. CASE SelectUnits(p)
  <2>1. /\ proc[p].pc = "select" /\ run' = run /\ proc[p].resuming /\ exec[p].pc = "idle"
        /\ stranded' = stranded
    BY <1>3 DEF SelectUnits, Sound, WorkInv
  <2>2. \A q \in Executors : ~Creating(q)
    BY <2>1, AwayIsFree, WorkersDoNotCreate DEF Creating
  <2>3. run # "none"
    BY <2>1, AwayIsFree DEF Sound, CreateInv
  <2>4. PICK plan \in Regenerated :
          IF Executable(plan) = {} THEN Leave(p)
          ELSE proc' = [proc EXCEPT ![p] =
                [@ EXCEPT !.pc = "preflight", !.todo = Executable(plan),
                          !.beyond = Pending \ plan]]
    BY <1>3 DEF SelectUnits
  <2> DEFINE s == IF Executable(plan) = {} THEN Away
                  ELSE [proc[p] EXCEPT !.pc = "preflight", !.todo = Executable(plan),
                                       !.beyond = Pending \ plan]
  <2>5. proc' = [proc EXCEPT ![p] = s]
    BY <2>4 DEF Leave
  <2>6. \/ s.pc = "away"
        \/ /\ s.pc = "preflight" /\ s.resuming /\ s.todo = Executable(plan)
           /\ s.beyond = Pending \ plan
    BY <1>0, <2>1, AwayIsFree DEF ProcType
  <2> HIDE DEF s
  <2>7. /\ Pending \subseteq Executable(plan) \cup (Pending \ plan)
        /\ Executable(plan) \subseteq Present
    BY DEF Pending, Present, Executable
  <2>8. run' = "completed" => Pending \subseteq stranded'
    BY <2>1 DEF Sound, WorkInv, CompletedExecutesItsPlan
  <2>9. WorkInv'
    BY <1>0, <2>1, <2>5, <2>6, <2>7, <2>8, OneMoves
  <2>10. \A q \in Executors : ~Creating(q)'
    BY <1>0, <2>2, <2>5, <2>6 DEF Creating
  <2> QED
    BY <1>0, <2>1, <2>3, <2>9, <2>10, NobodyCreates DEF Sound
<1>4. CASE Refused(p)
  <2>1. /\ proc[p].pc = "preflight" /\ proc' = [proc EXCEPT ![p] = Away]
        /\ run' = (IF proc[p].resuming THEN run ELSE "over_budget") /\ stranded' = stranded
    BY <1>4 DEF Refused, Leave
  <2>2. exec[p].pc = "idle"
    BY <2>1 DEF Sound, WorkInv
  <2>3. run' = "completed" => Pending \subseteq stranded'
    BY <2>1 DEF Sound, WorkInv, CompletedExecutesItsPlan
  <2>4. WorkInv'
    BY <1>0, <2>1, <2>2, <2>3, AwayIsFree, OneMoves
  <2>5. proc'[p] = Away /\ \A q \in Executors \ {p} : proc'[q] = proc[q]
    BY <1>0, <2>1
  <2>6. \A q \in Executors : ~Creating(q)'
    <3>1. CASE Creating(p)
      BY <2>5, <3>1, AwayIsFree DEF Sound, CreateInv, Creating
    <3>2. CASE ~Creating(p)
      BY <2>1, <2>5, <3>2, AwayIsFree, WorkersDoNotCreate DEF Creating
    <3> QED
      BY <3>1, <3>2
  <2>7. run' # "none"
    BY <2>1, AwayIsFree DEF Sound, CreateInv
  <2> QED
    BY <1>0, <2>4, <2>6, <2>7, NobodyCreates DEF Sound
<1>5. CASE Preflight(p)
  <2> DEFINE s == [proc[p] EXCEPT !.pc = IF proc[p].resuming THEN "units" ELSE "snapshot"]
  <2>1. /\ proc[p].pc = "preflight" /\ proc' = [proc EXCEPT ![p] = s] /\ run' = run
        /\ stranded' = stranded
    BY <1>5 DEF Preflight
  <2>2. /\ s.pc = (IF proc[p].resuming THEN "units" ELSE "snapshot")
        /\ s.resuming = proc[p].resuming /\ s.todo = proc[p].todo
        /\ s.beyond = proc[p].beyond
    BY <1>0 DEF ProcType
  <2> HIDE DEF s
  <2>3. exec[p].pc = "idle"
    BY <2>1 DEF Sound, WorkInv
  <2>4. s.pc = "units" =>
          Pending \subseteq s.todo \cup s.beyond /\ s.todo \subseteq Present
    BY <2>1, <2>2 DEF Sound, WorkInv
  <2>5. run' = "completed" => Pending \subseteq stranded'
    BY <2>1 DEF Sound, WorkInv, CompletedExecutesItsPlan
  <2>6. WorkInv'
    BY <1>0, <2>1, <2>2, <2>3, <2>4, <2>5, OneMoves
  <2>7. proc'[p] = s /\ \A q \in Executors \ {p} : proc'[q] = proc[q]
    BY <1>0, <2>1
  <2>8. run' # "none"
    BY <2>1, AwayIsFree DEF Sound, CreateInv
  <2>9. CreateInv'
    <3>1. CASE Creating(p)
      <4>1. \A q \in Executors \ {p} : proc'[q] = Away
        BY <2>7, <3>1 DEF Sound, CreateInv
      <4>2. \A q \in Executors : Creating(q)' => q = p
        BY <4>1, AwayIsFree DEF Creating
      <4>3. /\ run' = "planned" /\ s.todo \in Plans /\ Present \subseteq s.todo /\ Present = {}
        BY <2>1, <2>2, <3>1 DEF Sound, CreateInv
      <4> QED
        BY <1>0, <2>7, <4>1, <4>2, <4>3 DEF Sound, CreateInv
    <3>2. CASE ~Creating(p)
      <4>1. proc[p] # Away /\ s.pc = "units"
        BY <2>1, <2>2, <3>2, AwayIsFree DEF Creating
      <4>2. \A q \in Executors : ~Creating(q)
        BY <3>2, <4>1, WorkersDoNotCreate
      <4>3. \A q \in Executors : ~Creating(q)'
        BY <2>7, <4>1, <4>2 DEF Creating
      <4> QED
        BY <1>0, <2>8, <4>3, NobodyCreates DEF Sound
    <3> QED
      BY <3>1, <3>2
  <2> QED
    BY <2>6, <2>9
<1> QED
  BY <1>1, <1>2, <1>3, <1>4, <1>5

LEMMA SoundCreate ==
    ASSUME Sound, NEW p \in Executors,
           \/ SnapshotNTotal(p) \/ FinishEmpty(p) \/ StartRun(p)
           \/ \E u \in Units : PersistUnit(p, u)
    PROVE  CreateInv' /\ WorkInv'
<1>0. /\ proc \in [Executors -> ProcType] /\ proc[p] \in ProcType
      /\ unit \in [Units -> UnitStatus]
  BY DEF Sound, TypeOK, ProcType, ResponsesTypeOK
<1>1. Creating(p)
  BY DEF SnapshotNTotal, FinishEmpty, StartRun, PersistUnit, Creating
<1>2. /\ run = "planned" /\ \A q \in Executors \ {p} : proc[q] = Away
      /\ proc[p].todo \in Plans /\ Present \subseteq proc[p].todo
      /\ proc[p].pc # "persist" => Present = {}
  BY <1>1 DEF Sound, CreateInv
<1>3. exec[p].pc = "idle" /\ \A q \in Executors : exec[q].pc = "idle"
  BY <1>1, <1>2, AwayIsFree DEF Sound, WorkInv, Creating
<1>4. Pending \subseteq Present
  BY DEF Pending, Present
<1>5. CASE SnapshotNTotal(p)
  <2> DEFINE s == [proc[p] EXCEPT !.pc = IF proc[p].todo = {} THEN "empty" ELSE "persist"]
  <2>1. /\ proc' = [proc EXCEPT ![p] = s] /\ run' = run /\ UNCHANGED <<unit, exec>>
        /\ Present' = Present /\ proc[p].pc = "snapshot"
    BY <1>5 DEF SnapshotNTotal, responseVars, Present
  <2>2. s.pc \in {"empty", "persist"} /\ s.todo = proc[p].todo
    BY <1>0 DEF ProcType
  <2> HIDE DEF s
  <2>3. WorkInv'
    BY <1>2, <1>3, <2>1, <2>2, OneMoves
  <2>4. proc'[p] = s /\ \A q \in Executors \ {p} : proc'[q] = Away
    BY <1>0, <1>2, <2>1
  <2>5. \A q \in Executors : Creating(q)' => q = p
    BY <2>4, AwayIsFree DEF Creating
  <2>6. CreateInv'
    BY <1>2, <2>1, <2>2, <2>4, <2>5 DEF Sound, CreateInv
  <2> QED
    BY <2>3, <2>6
<1>6. CASE FinishEmpty(p)
  <2>1. /\ proc' = [proc EXCEPT ![p] = Away] /\ run' = "completed" /\ UNCHANGED <<unit, exec>>
        /\ Present' = Present /\ proc[p].pc = "empty"
    BY <1>6 DEF FinishEmpty, Leave, responseVars, Present
  <2>2. Pending = {}
    BY <1>2, <1>4, <2>1
  <2>3. WorkInv'
    BY <1>3, <2>1, <2>2, AwayIsFree, OneMoves
  <2>4. \A q \in Executors : ~Creating(q)'
    BY <1>0, <1>2, <2>1, AwayIsFree DEF Creating
  <2> QED
    BY <2>1, <2>3, <2>4, NobodyCreates DEF Sound
<1>7. CASE StartRun(p)
  <2> DEFINE s == [proc[p] EXCEPT !.pc = "units"]
  <2>1. /\ proc' = [proc EXCEPT ![p] = s] /\ run' = "running" /\ UNCHANGED <<unit, exec>>
        /\ Present' = Present /\ proc[p].todo \subseteq Present
    BY <1>7 DEF StartRun, AllPersisted, responseVars, Present
  <2>2. s.pc = "units" /\ s.todo = proc[p].todo
    BY <1>0 DEF ProcType
  <2> HIDE DEF s
  <2>3. WorkInv'
    BY <1>2, <1>3, <1>4, <2>1, <2>2, OneMoves
  <2>4. \A q \in Executors : ~Creating(q)'
    BY <1>0, <1>2, <2>1, <2>2, AwayIsFree DEF Creating
  <2> QED
    BY <2>1, <2>3, <2>4, NobodyCreates DEF Sound
<1>8. ASSUME NEW u \in Units, PersistUnit(p, u) PROVE CreateInv' /\ WorkInv'
  <2>1. /\ UNCHANGED <<exec, run, proc>> /\ proc[p].pc = "persist" /\ u \in proc[p].todo
        /\ InsertWorkUnit(u)
    BY <1>8 DEF PersistUnit, runVars
  <2>2. Present' \subseteq Present \cup {u}
    BY <1>0, <2>1 DEF InsertWorkUnit, Present
  <2>3. CreateInv'
    <3>1. \A q \in Executors : Creating(q)' <=> Creating(q)
      BY <2>1 DEF Creating
    <3>2. \A q \in Executors : Creating(q) => q = p
      BY <1>2, AwayIsFree DEF Creating
    <3>3. Present' \subseteq proc[p].todo
      BY <1>2, <2>1, <2>2
    <3> QED
      BY <1>2, <2>1, <3>1, <3>2, <3>3 DEF CreateInv
  <2>4. WorkInv'
    <3>1. \A q \in Executors : proc[q].pc \in {"away", "persist"}
      BY <1>2, <2>1, AwayIsFree
    <3> QED
      BY <1>2, <1>3, <2>1, <3>1 DEF WorkInv, CompletedExecutesItsPlan
  <2> QED
    BY <2>3, <2>4
<1> QED
  BY <1>5, <1>6, <1>7, <1>8

\* A step of a process at work: no cell becomes pending, and what leaves the process's
\* list is in its hand, or no longer pending.
LEMMA OneWorks ==
    ASSUME Sound, NEW p \in Executors, proc[p].pc = "units", UNCHANGED <<run, stranded>>,
           unit' \in [Units -> UnitStatus], Present' = Present, Pending' \subseteq Pending,
           \A q \in Executors \ {p} : proc'[q] = proc[q] /\ exec'[q] = exec[q],
           proc'[p].pc = "units", proc'[p].todo \subseteq proc[p].todo,
           proc'[p].beyond = proc[p].beyond,
           exec'[p].pc # "idle" => exec'[p].unit \in Present,
           proc[p].overBudget => proc'[p].overBudget,
           proc[p].hadError => proc'[p].hadError,
           proc'[p].overBudget \/ proc'[p].hadError
               \/ (proc[p].todo \cup InHand(p)) \cap Pending' \subseteq proc'[p].todo \cup InHand(p)'
    PROVE  CreateInv' /\ WorkInv'
<1>1. \A q \in Executors : ~Creating(q)
  BY AwayIsFree, WorkersDoNotCreate DEF Creating
<1>2. run' # "none"
  BY AwayIsFree DEF Sound, CreateInv
<1>3. \A q \in Executors : ~Creating(q)'
  BY <1>1 DEF Creating
<1>4. CreateInv'
  BY <1>2, <1>3, NobodyCreates DEF Sound
<1>5. \A q \in Executors \ {p} : InHand(q)' = InHand(q)
  BY DEF InHand
<1>6. /\ (\A q \in Executors : exec[q].pc # "idle" =>
            proc[q].pc = "units" /\ exec[q].unit \in Present)'
      /\ (\A q \in Executors : proc[q].pc = "units" => proc[q].todo \subseteq Present)'
      /\ (\A q \in Executors : proc[q].pc = "select" => proc[q].resuming)'
      /\ (\A q \in Executors : proc[q].pc = "preflight" /\ proc[q].resuming =>
            Pending \subseteq proc[q].todo \cup proc[q].beyond
            /\ proc[q].todo \subseteq Present)'
      /\ CompletedExecutesItsPlan'
  BY DEF Sound, WorkInv, CompletedExecutesItsPlan
<1>7. ASSUME NEW q \in Executors,
             proc'[q].pc = "units", ~proc'[q].overBudget, ~proc'[q].hadError
      PROVE  Pending' \subseteq proc'[q].todo \cup InHand(q)' \cup proc'[q].beyond
  <2>1. CASE q = p
    BY <1>7, <2>1 DEF Sound, WorkInv
  <2>2. CASE q # p
    BY <1>5, <1>7, <2>2 DEF Sound, WorkInv
  <2> QED
    BY <2>1, <2>2
<1> QED
  BY <1>4, <1>6, <1>7 DEF WorkInv

LEMMA SoundUnits ==
    ASSUME Sound, NEW p \in Executors,
           \/ \E u \in Units : SkipUnit(p, u) \/ CarryForward(p, u) \/ RunUnit(p, u)
           \/ UnitReturns(p)
    PROVE  CreateInv' /\ WorkInv'
<1>0. /\ proc \in [Executors -> ProcType] /\ proc[p] \in ProcType
      /\ ResponsesTypeOK /\ unit \in [Units -> UnitStatus] /\ exec \in [Executors -> ExecType]
  BY DEF Sound, TypeOK, ProcType, ResponsesTypeOK
\* The process takes a cell off its list and leaves it done, skipped or in its hand.
<1>1. ASSUME NEW u \in Units, u \in proc[p].todo, Ready(p), Drop(p, u),
             UNCHANGED <<run, stranded>>,
             unit' \in [Units -> UnitStatus], Present' = Present, Pending' \subseteq Pending,
             \A q \in Executors \ {p} : exec'[q] = exec[q],
             exec'[p].pc # "idle" => exec'[p].unit = u,
             u \notin Pending' \/ u \in InHand(p)'
      PROVE  CreateInv' /\ WorkInv'
  <2> DEFINE s == [proc[p] EXCEPT !.todo = @ \ {u}]
  <2>1. /\ s.todo = proc[p].todo \ {u} /\ s.pc = "units"
        /\ s.overBudget = proc[p].overBudget /\ s.hadError = proc[p].hadError
        /\ s.beyond = proc[p].beyond
    BY <1>0, <1>1 DEF Ready, ProcType
  <2>2. proc' = [proc EXCEPT ![p] = s]
    BY <1>1 DEF Drop
  <2> HIDE DEF s
  <2>3. proc'[p] = s /\ \A q \in Executors \ {p} : proc'[q] = proc[q]
    BY <1>0, <2>2
  <2>4. InHand(p) = {}
    BY <1>1, AwayIsFree DEF Ready, InHand
  <2>5. (proc[p].todo \cup InHand(p)) \cap Pending' \subseteq proc'[p].todo \cup InHand(p)'
    BY <1>1, <2>1, <2>3, <2>4
  <2>6. proc[p].pc = "units" /\ u \in Present
    BY <1>1 DEF Ready, Sound, WorkInv
  <2> QED
    BY <1>1, <2>1, <2>3, <2>5, <2>6, OneWorks
<1>2. ASSUME NEW u \in Units, SkipUnit(p, u) PROVE CreateInv' /\ WorkInv'
  <2>1. /\ unit' = [unit EXCEPT ![u] = "skipped"] /\ u \in proc[p].todo /\ Ready(p)
        /\ Drop(p, u) /\ UNCHANGED <<exec, run, stranded>> /\ exec[p].pc = "idle"
    BY <1>2, AwayIsFree DEF SkipUnit, Ready
  <2>2. u \in Present
    BY <2>1 DEF Ready, Sound, WorkInv
  <2>3. /\ unit' \in [Units -> UnitStatus] /\ Present' = Present /\ Pending' \subseteq Pending
        /\ u \notin Pending'
    BY <1>0, <2>1, <2>2 DEF Present, Pending, UnitStatus
  <2> QED
    BY <1>1, <2>1, <2>3
<1>3. ASSUME NEW u \in Units, CarryForward(p, u) PROVE CreateInv' /\ WorkInv'
  <2>1. /\ exec' = [exec EXCEPT ![p] =
                [pc |-> "judge", unit |-> u, carried |-> TRUE, result |-> "ok"]]
        /\ u \in proc[p].todo /\ Ready(p) /\ Drop(p, u)
        /\ UNCHANGED <<unit, run, stranded>>
    BY <1>3 DEF CarryForward
  <2>2. exec'[p].pc = "judge" /\ exec'[p].unit = u
        /\ \A q \in Executors \ {p} : exec'[q] = exec[q]
    BY <1>0, <2>1
  <2>3. u \in InHand(p)'
    BY <2>2 DEF InHand
  <2>4. Present' = Present /\ Pending' = Pending
    BY <2>1 DEF Present, Pending
  <2> QED
    BY <1>0, <1>1, <2>1, <2>2, <2>3, <2>4
<1>4. ASSUME NEW u \in Units, RunUnit(p, u) PROVE CreateInv' /\ WorkInv'
  <2>1. /\ exec' = [exec EXCEPT ![p] =
                [pc |-> Entry(u), unit |-> u, carried |-> FALSE, result |-> "ok"]]
        /\ u \in proc[p].todo /\ Ready(p) /\ Drop(p, u)
        /\ UNCHANGED <<unit, run, stranded>>
    BY <1>4 DEF RunUnit, BeginResponse
  <2>2. exec'[p].pc = Entry(u) /\ exec'[p].unit = u
        /\ \A q \in Executors \ {p} : exec'[q] = exec[q]
    BY <1>0, <2>1
  <2>3. Present' = Present /\ Pending' = Pending
    BY <2>1 DEF Present, Pending
  <2>4. u \notin Pending' \/ u \in InHand(p)'
    BY <2>2, <2>3 DEF Entry, InHand, Pending
  <2> QED
    BY <1>0, <1>1, <2>1, <2>2, <2>3, <2>4
<1>5. CASE UnitReturns(p)
  <2> DEFINE s == IF exec[p].result = "budget"
                  THEN [proc[p] EXCEPT !.overBudget = TRUE, !.todo = {}]
                  ELSE [proc[p] EXCEPT !.hadError = @ \/ FailsRun(exec[p].result)]
  <2>1. /\ exec[p].pc = "returned" /\ exec' = [exec EXCEPT ![p] = Idle]
        /\ proc' = [proc EXCEPT ![p] = s] /\ UNCHANGED <<unit, run, stranded>>
    BY <1>5 DEF UnitReturns
  <2>2. proc[p].pc = "units"
    BY <2>1 DEF Sound, WorkInv
  <2>3. /\ s.pc = "units"
        /\ proc[p].overBudget => s.overBudget
        /\ proc[p].hadError => s.hadError
        /\ s.todo \subseteq proc[p].todo /\ s.beyond = proc[p].beyond
        /\ exec[p].result = "budget" => s.overBudget
        /\ exec[p].result # "budget" => s.todo = proc[p].todo
        /\ exec[p].result # "budget" /\ FailsRun(exec[p].result) => s.hadError
    BY <1>0, <2>2 DEF ProcType
  <2> HIDE DEF s
  <2>4. /\ proc'[p] = s /\ exec'[p].pc = "idle"
        /\ \A q \in Executors \ {p} : proc'[q] = proc[q] /\ exec'[q] = exec[q]
    BY <1>0, <2>1, AwayIsFree
  <2>5. Present' = Present /\ Pending' = Pending
    BY <2>1 DEF Present, Pending
  <2>6. s.overBudget \/ s.hadError \/ (InHand(p) = {} /\ s.todo = proc[p].todo)
    BY <2>1, <2>3 DEF InHand
  <2> QED
    BY <1>0, <2>1, <2>2, <2>3, <2>4, <2>5, <2>6, OneWorks
<1> QED
  BY <1>2, <1>3, <1>4, <1>5

LEMMA SoundResponse ==
    ASSUME Sound, NEW p \in Executors, RunResponse(p)
    PROVE  CreateInv' /\ WorkInv'
<1>0. /\ ResponsesTypeOK /\ unit \in [Units -> UnitStatus]
      /\ exec \in [Executors -> ExecType]
  BY DEF Sound, TypeOK, ResponsesTypeOK
<1>1. PICK label \in {"failing", "judge", "mark", "returned"}, r \in Results :
        exec' = [exec EXCEPT ![p] = [@ EXCEPT !.pc = label, !.result = r]]
  BY <1>0, HandlerKeepsUnit DEF RunResponse
<1>2. exec[p].pc # "idle" /\ exec[p] \in Busy
  BY <1>0, HandlerKeepsUnit, BusyByLabel DEF RunResponse
<1> DEFINE c == exec[p].unit
<1>3. /\ exec'[p].pc = label /\ exec'[p].unit = c /\ c \in Units /\ exec'[p].result = r
      /\ \A q \in Executors \ {p} : exec'[q] = exec[q]
  BY <1>0, <1>1, <1>2 DEF Busy
<1>4. UNCHANGED <<proc, run, stranded>> /\ proc[p].pc = "units"
  BY <1>2 DEF RunResponse, runVars, Sound, WorkInv
<1>5. ResponsesTypeOK'
  BY <1>0, ResponseType DEF RunResponse
<1>6. UNCHANGED unit \/ MarkWorkUnitError(p) \/ MarkWorkUnitDone(p)
  BY DEF RunResponse, ResponseStep, Generate, InsertJudgment, Throw
<1>7. /\ unit' \in [Units -> UnitStatus] /\ Present' = Present /\ Pending' \subseteq Pending
  <2>1. c \in Present
    BY <1>2 DEF Sound, WorkInv
  <2>2. \A u \in Units : unit'[u] = unit[u] \/ (u = c /\ unit'[u] \in {"done", "error"})
    BY <1>0, <1>6 DEF MarkWorkUnitError, MarkWorkUnitDone, FailedStatus
  <2> QED
    BY <1>5, <2>1, <2>2 DEF Present, Pending, ResponsesTypeOK
<1>8. label = "returned" => c \notin Pending' \/ FailsRun(r)
  <2>1. CASE MarkWorkUnitError(p) \/ MarkWorkUnitDone(p)
    BY <1>0, <1>3, <2>1 DEF MarkWorkUnitError, MarkWorkUnitDone, FailedStatus, Pending
  <2>2. CASE Throw(p)
    <3>1. exec'[p].result = "unexpected"
      BY <1>0, <1>2, <2>2 DEF Throw, Goto, Busy
    <3> QED
      BY <1>3, <3>1 DEF FailsRun
  <2>3. CASE Generate(p) \/ InsertJudgment(p)
    <3>1. exec'[p].pc # "returned"
      BY <1>0, <1>2, <2>3 DEF Generate, InsertJudgment, Goto, Busy
    <3> QED
      BY <1>3, <3>1
  <2> QED
    BY <2>1, <2>2, <2>3 DEF RunResponse, ResponseStep
<1>9. (proc[p].todo \cup InHand(p)) \cap Pending' \subseteq proc'[p].todo \cup InHand(p)'
  <2>1. InHand(p) \subseteq {c}
    BY DEF InHand
  <2>2. c \in Pending' => c \in InHand(p)'
    BY <1>3, <1>8 DEF InHand
  <2> QED
    BY <1>4, <2>1, <2>2
<1>10. c \in Present
  BY <1>2 DEF Sound, WorkInv
<1> QED
  BY <1>3, <1>4, <1>7, <1>9, <1>10, OneWorks

LEMMA SoundFinish ==
    ASSUME Sound, NEW p \in Executors, FinishRun(p)
    PROVE  CreateInv' /\ WorkInv'
<1>1. /\ proc' = [proc EXCEPT ![p] = Away] /\ UNCHANGED <<unit, exec>> /\ Present' = Present
      /\ proc[p].pc = "units" /\ proc[p].todo = {} /\ exec[p].pc = "idle"
      /\ run' \in {"over_budget", "failed", "completed"}
      /\ run' = "completed" => ~proc[p].overBudget /\ ~proc[p].hadError
      /\ stranded' = proc[p].beyond
  BY AwayIsFree DEF FinishRun, Leave, Ready, responseVars, Present
<1>2. run' = "completed" => Pending \subseteq stranded'
  BY <1>1 DEF Sound, WorkInv, InHand
<1>3. WorkInv'
  BY <1>1, <1>2, AwayIsFree, OneMoves
<1>4. \A q \in Executors : ~Creating(q)
  BY <1>1, AwayIsFree, WorkersDoNotCreate DEF Creating
<1>5. \A q \in Executors : ~Creating(q)'
  BY <1>1, <1>4, AwayIsFree DEF Sound, TypeOK, Creating
<1> QED
  BY <1>1, <1>3, <1>5, NobodyCreates DEF Sound

LEMMA SoundKill ==
    ASSUME Sound, NEW p \in Executors, Kill(p)
    PROVE  CreateInv' /\ WorkInv'
<1>1. /\ proc' = [proc EXCEPT ![p] = Away] /\ exec' = [exec EXCEPT ![p] = Idle]
      /\ UNCHANGED <<unit, run, stranded>> /\ Present' = Present /\ Pending' = Pending
      /\ proc[p] # Away
  BY DEF Kill, Leave, Abandon, Present, Pending
<1>2. /\ proc'[p] = Away /\ exec'[p] = Idle
      /\ \A q \in Executors \ {p} : proc'[q] = proc[q] /\ exec'[q] = exec[q]
  BY <1>1 DEF Sound, TypeOK, ResponsesTypeOK
<1>3. \A q \in Executors \ {p} : InHand(q)' = InHand(q)
  BY <1>2 DEF InHand
<1>4. WorkInv'
  BY <1>1, <1>2, <1>3, AwayIsFree DEF Sound, WorkInv, CompletedExecutesItsPlan
<1>5. \A q \in Executors : ~Creating(q)'
  <2>1. CASE Creating(p)
    BY <1>2, <2>1, AwayIsFree DEF Sound, CreateInv, Creating
  <2>2. CASE ~Creating(p)
    BY <1>1, <1>2, <2>2, AwayIsFree, WorkersDoNotCreate DEF Creating
  <2> QED
    BY <2>1, <2>2
<1>6. run' # "none"
  BY <1>1 DEF Sound, CreateInv
<1> QED
  BY <1>1, <1>4, <1>5, <1>6, NobodyCreates DEF Sound

LEMMA SoundStep ==
    ASSUME Sound, [Next]_vars
    PROVE  CreateInv' /\ WorkInv'
<1>1. CASE UNCHANGED <<responseVars, run, proc, stranded>>
  BY <1>1 DEF Sound, CreateInv, WorkInv, Creating, InHand, Present, Pending,
              CompletedExecutesItsPlan, responseVars
<1>2. CASE \E p \in Executors : CreateRun(p) \/ ProcessStep(p) \/ Refused(p) \/ Kill(p)
  BY <1>2, SoundSelect, SoundCreate, SoundUnits, SoundResponse, SoundFinish, SoundKill
  DEF ProcessStep
<1> QED
  BY <1>1, <1>2 DEF Next, GrowStale, vars, runVars

\* 'completed' is said of a run only when every cell of the plan that the last process had
\* in hand has been tried: whoever was killed, however many processes worked on the run and
\* whatever plans they regenerated, what stays pending in a run that nothing will ever
\* resume is the cells which that plan no longer had (runCycle.ts:440, steps 2b and 9).
THEOREM CompletedRunsExecuteTheirPlan == Spec => []CompletedExecutesItsPlan
<1>1. Init => Sound
  BY TypeInit, SoundInit DEF Sound
<1>2. Sound /\ [Next]_vars => Sound'
  BY TypeStep, SoundStep DEF Sound
<1>3. Sound => CompletedExecutesItsPlan
  BY DEF Sound, WorkInv
<1> QED
  BY <1>1, <1>2, <1>3, PTL DEF Spec

=============================================================================
