----------------------------- MODULE BaselineRun -----------------------------
(***************************************************************************)
(* A baseline run of src/pipeline/runCycle.ts (PATH A): a process executes *)
(* the units of the plan one by one, inline.  A process that is killed at  *)
(* its time limit leaves the run 'running', and a later process resumes it *)
(* with the units that are still pending.                                  *)
(*                                                                         *)
(* The module follows one run; a process that finds nothing to resume      *)
(* creates another run, which is another instance of the module.           *)
(***************************************************************************)
EXTENDS Responses

CONSTANTS
    Plans,          \* what buildPlan returns for the process that creates the run
    Regenerated,    \* what buildPlan returns for a process that resumes it
    MaxKills,       \* processes that are killed (bound)
    OneAtATime      \* TRUE: nobody resumes the run while a process works on it

ASSUME BaselineAssumption ==
    /\ Plans \subseteq SUBSET Units
    /\ Regenerated \subseteq SUBSET Units
    /\ MaxKills \in Nat
    /\ OneAtATime \in BOOLEAN

VARIABLES
    run,        \* run.status
    nTotal,     \* run.n_total, 0 while it is null
    stale,      \* started_at is more than two hours ago (staleBeforeMs)
    proc,       \* local state of each runCycle call; exec[p] is its runResponse call
    kills,      \* processes killed so far
    stranded    \* history: the pending cells that were not in the plan of the process
                \* that finished the run

runVars == <<run, nTotal, stale, proc, kills, stranded>>
vars == <<responseVars, runVars>>

RunStatus == {"none", "planned", "running", "completed", "failed", "over_budget"}
Finished  == {"completed", "failed", "over_budget"}

\* beyond: history, the pending cells that are not in the process's own plan.
Away == [pc |-> "away", resuming |-> FALSE, todo |-> {}, hadError |-> FALSE,
         overBudget |-> FALSE, beyond |-> {}]

TypeOK ==
    /\ ResponsesTypeOK
    /\ run \in RunStatus
    /\ nTotal \in 0..Cardinality(Units)
    /\ stale \in BOOLEAN
    /\ proc \in [Executors ->
            [pc: {"away", "select", "preflight", "snapshot", "empty", "persist", "units"},
             resuming: BOOLEAN, todo: SUBSET Units, hadError: BOOLEAN,
             overBudget: BOOLEAN, beyond: SUBSET Units]]
    /\ kills \in 0..MaxKills
    /\ stranded \in SUBSET Units

Init ==
    /\ ResponsesInit
    /\ run = "none"
    /\ nTotal = 0
    /\ stale = FALSE
    /\ proc = [p \in Executors |-> Away]
    /\ kills = 0
    /\ stranded = {}

-----------------------------------------------------------------------------
(* STEPS 1 to 3: resume a run or create one, select the units, preflight *)

Leave(p) == proc' = [proc EXCEPT ![p] = Away]

CreateRun(p) ==
    /\ proc[p] = Away
    /\ run = "none"
    /\ run' = "planned"
    /\ \E plan \in Plans :
        proc' = [proc EXCEPT ![p] = [Away EXCEPT !.pc = "preflight", !.todo = plan]]
    /\ UNCHANGED <<responseVars, nTotal, stale, kills, stranded>>

\* Mutation: only a run that never started is resumable.
ResumablePlanned == run = "planned" /\ stale

\* findResumableRun.
Resumable == run = "running" /\ nTotal > 0 /\ stale /\ Pending # {}

ResumeRun(p) ==
    /\ proc[p] = Away
    /\ Resumable
    /\ OneAtATime => \A q \in Executors : proc[q] = Away
    /\ proc' = [proc EXCEPT ![p] = [Away EXCEPT !.pc = "select", !.resuming = TRUE]]
    /\ UNCHANGED <<responseVars, run, nTotal, stale, kills, stranded>>

\* STEP 2b: only those units of the regenerated plan that are pending.
Executable(plan) == plan \cap Pending

\* No unit in common: the run is left as it is.
SelectUnits(p) ==
    /\ proc[p].pc = "select"
    /\ \E plan \in Regenerated :
        IF Executable(plan) = {} THEN Leave(p)
        ELSE proc' = [proc EXCEPT ![p] =
                [@ EXCEPT !.pc = "preflight", !.todo = Executable(plan),
                          !.beyond = Pending \ plan]]
    /\ UNCHANGED <<responseVars, run, nTotal, stale, kills, stranded>>

\* A fresh run over budget is finished; a resumed one stays resumable.
Refused(p) ==
    /\ "budget" \in Faults
    /\ proc[p].pc = "preflight"
    /\ run' = IF proc[p].resuming THEN run ELSE "over_budget"
    /\ Leave(p)
    /\ UNCHANGED <<responseVars, nTotal, stale, kills, stranded>>

Preflight(p) ==
    /\ proc[p].pc = "preflight"
    /\ proc' = [proc EXCEPT ![p].pc = IF proc[p].resuming THEN "units" ELSE "snapshot"]
    /\ UNCHANGED <<responseVars, run, nTotal, stale, kills, stranded>>

-----------------------------------------------------------------------------
(* STEPS 4 to 7, for a fresh run only *)

Denominator(plan) == Cardinality(plan)

SnapshotNTotal(p) ==
    /\ proc[p].pc = "snapshot"
    /\ nTotal' = Denominator(proc[p].todo)
    /\ proc' = [proc EXCEPT ![p].pc = IF proc[p].todo = {} THEN "empty" ELSE "persist"]
    /\ UNCHANGED <<responseVars, run, stale, kills, stranded>>

FinishEmpty(p) ==
    /\ proc[p].pc = "empty"
    /\ run' = "completed"
    /\ Leave(p)
    /\ UNCHANGED <<responseVars, nTotal, stale, kills, stranded>>

PersistUnit(p, u) ==
    /\ proc[p].pc = "persist"
    /\ u \in proc[p].todo \ Present
    /\ InsertWorkUnit(u)
    /\ UNCHANGED <<judged, cut, exec, runVars>>

AllPersisted(p) == proc[p].todo \subseteq Present

StartRun(p) ==
    /\ proc[p].pc = "persist"
    /\ AllPersisted(p)
    /\ run' = "running"
    /\ stale' = FALSE
    /\ proc' = [proc EXCEPT ![p].pc = "units"]
    /\ UNCHANGED <<responseVars, nTotal, kills, stranded>>

-----------------------------------------------------------------------------
(* STEP 8, PATH A: the loop over the units *)

Ready(p) == proc[p].pc = "units" /\ exec[p] = Idle
Drop(p, u) == proc' = [proc EXCEPT ![p].todo = @ \ {u}]

\* No adapter for the model of the unit.
SkipUnit(p, u) ==
    /\ Ready(p)
    /\ u \in proc[p].todo
    /\ unit' = [unit EXCEPT ![u] = "skipped"]
    /\ Drop(p, u)
    /\ UNCHANGED <<judged, cut, exec, run, nTotal, stale, kills, stranded>>

\* A surface whose answer is in the cache: no check of the unit, no judge.
CarryForward(p, u) ==
    /\ Ready(p)
    /\ u \in proc[p].todo
    /\ exec' = [exec EXCEPT ![p] =
            [pc |-> "judge", unit |-> u, carried |-> TRUE, result |-> "ok"]]
    /\ Drop(p, u)
    /\ UNCHANGED <<unit, judged, cut, run, nTotal, stale, kills, stranded>>

RunUnit(p, u) ==
    /\ Ready(p)
    /\ u \in proc[p].todo
    /\ BeginResponse(p, u)
    /\ Drop(p, u)
    /\ UNCHANGED <<run, nTotal, stale, kills, stranded>>

RunResponse(p) ==
    /\ ResponseStep(p) \/ Throw(p)
    /\ UNCHANGED runVars

\* Mutation: errors of a unit are forgotten.
FailsNever(result) == FALSE

FailsRun(result) == result \in {"retryable", "unexpected"}

\* A budget error ends the loop; every other error is remembered.
UnitReturns(p) ==
    /\ exec[p].pc = "returned"
    /\ exec' = [exec EXCEPT ![p] = Idle]
    /\ proc' = [proc EXCEPT ![p] =
            IF exec[p].result = "budget"
            THEN [proc[p] EXCEPT !.overBudget = TRUE, !.todo = {}]
            ELSE [proc[p] EXCEPT !.hadError = @ \/ FailsRun(exec[p].result)]]
    /\ UNCHANGED <<unit, judged, cut, run, nTotal, stale, kills, stranded>>

\* assembleReport and finishRun, whatever the status of the run is by now.
FinishRun(p) ==
    /\ Ready(p)
    /\ proc[p].todo = {}
    /\ \/ run' = IF proc[p].overBudget THEN "over_budget"
                 ELSE IF proc[p].hadError THEN "failed" ELSE "completed"
       \/ "assemble" \in Faults /\ run' = "failed"
    /\ stranded' = proc[p].beyond
    /\ Leave(p)
    /\ UNCHANGED <<responseVars, nTotal, stale, kills>>

-----------------------------------------------------------------------------
(* The CI job is killed at its time limit; time passes *)

Kill(p) ==
    /\ "crash" \in Faults
    /\ kills < MaxKills
    /\ proc[p] # Away
    /\ Abandon(p)
    /\ Leave(p)
    /\ kills' = kills + 1
    /\ UNCHANGED <<run, nTotal, stale, stranded>>

\* Two hours after started_at the process that created the run is certainly over
\* (its job is killed after 120 minutes); a process that resumed it may be at work.
GrowStale ==
    /\ run = "running"
    /\ ~stale
    /\ \A p \in Executors : proc[p] # Away => proc[p].resuming
    /\ stale' = TRUE
    /\ UNCHANGED <<responseVars, run, nTotal, proc, kills, stranded>>

-----------------------------------------------------------------------------
ProcessStep(p) ==
    \/ ResumeRun(p)
    \/ SelectUnits(p)
    \/ Preflight(p)
    \/ SnapshotNTotal(p)
    \/ FinishEmpty(p)
    \/ \E u \in Units : PersistUnit(p, u) \/ SkipUnit(p, u) \/ CarryForward(p, u)
                        \/ RunUnit(p, u)
    \/ StartRun(p)
    \/ RunResponse(p)
    \/ UnitReturns(p)
    \/ FinishRun(p)

Next ==
    \/ \E p \in Executors : CreateRun(p) \/ ProcessStep(p) \/ Refused(p) \/ Kill(p)
    \/ GrowStale

Spec == Init /\ [][Next]_vars

\* A process that is not killed goes on, and the weekly workflow starts another one;
\* budgets are renewed, so preflight does not refuse for ever, and the regenerated
\* plan has something left to do again and again.
SelectSome(p) == SelectUnits(p) /\ proc'[p] # Away

FairSpec ==
    /\ Spec
    /\ \A p \in Executors :
        WF_vars(ProcessStep(p)) /\ SF_vars(SelectSome(p)) /\ SF_vars(Preflight(p))
    /\ WF_vars(GrowStale)

-----------------------------------------------------------------------------
(* Properties *)

\* 'completed' means that all the plan of the process that completed the run has been
\* executed: no cell is left pending but those of the frozen plan which that plan no longer
\* had, as when a question was deactivated between two cycles (runCycle.ts:440).  A run
\* that is completed by the process that created it leaves nothing pending.
CompletedExecutesItsPlan == run = "completed" => Pending \subseteq stranded

\* The plan of a run that has started is executed in the end, over as many cycles as
\* it takes, or the run is given up; no kill makes it start over (runCycle.ts step 1).
PlanIsExecuted == run = "running" ~> run \in Finished \/ Pending = {}

\* A run that has started is finished in the end: one without pending units is
\* "effectively done -> finalize it" (repo.ts:873-874).
RunIsFinished == run = "running" ~> run \in Finished

-----------------------------------------------------------------------------
(* Why a completed run has executed its plan: the inductive invariant *)

\* The process that has created the run and not yet started it.
Creating(p) ==
    \/ proc[p].pc \in {"snapshot", "empty", "persist"}
    \/ proc[p].pc = "preflight" /\ ~proc[p].resuming

\* The cell a process has in hand and may still leave pending without an error.
InHand(p) ==
    {u \in {exec[p].unit} :
        /\ exec[p].pc # "idle"
        /\ exec[p].pc = "returned" => exec[p].result = "budget" \/ FailsRun(exec[p].result)}

\* Nobody else touches a run that is being created.
CreateInv ==
    /\ run = "none" => Present = {} /\ \A p \in Executors : proc[p] = Away
    /\ \A p \in Executors : Creating(p) =>
        /\ run = "planned"
        /\ \A q \in Executors \ {p} : proc[q] = Away
        /\ proc[p].todo \in Plans
        /\ Present \subseteq proc[p].todo
        /\ proc[p].pc # "persist" => Present = {}
    /\ Present # {} => \E plan \in Plans : Present \subseteq plan

\* A process without an error knows of every cell that is pending and in its plan.
WorkInv ==
    /\ \A p \in Executors : exec[p].pc # "idle" =>
        proc[p].pc = "units" /\ exec[p].unit \in Present
    /\ \A p \in Executors : proc[p].pc = "units" => proc[p].todo \subseteq Present
    /\ \A p \in Executors : proc[p].pc = "select" => proc[p].resuming
    /\ \A p \in Executors : proc[p].pc = "preflight" /\ proc[p].resuming =>
        Pending \subseteq proc[p].todo \cup proc[p].beyond /\ proc[p].todo \subseteq Present
    /\ \A p \in Executors :
        proc[p].pc = "units" /\ ~proc[p].overBudget /\ ~proc[p].hadError =>
            Pending \subseteq proc[p].todo \cup InHand(p) \cup proc[p].beyond
    /\ CompletedExecutesItsPlan

=============================================================================
