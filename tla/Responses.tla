------------------------------ MODULE Responses ------------------------------
(***************************************************************************)
(* One work unit of a measurement run: runResponse of                      *)
(* src/pipeline/runResponse.ts asks a provider, stores the response, has   *)
(* it judged, stores the judgment, and marks the unit.  Every statement is *)
(* its own transaction.  The operating cycle (OperatingCycle) runs it in   *)
(* response.run jobs, the baseline (BaselineRun) inline in a loop.         *)
(*                                                                         *)
(* What a response says is left out: each stored judgment counts as a hit, *)
(* so judged[u] bounds what unit u adds to the numerator of the SMR.       *)
(***************************************************************************)
EXTENDS Naturals, FiniteSets

CONSTANTS
    Units,      \* cells (question, model, language, sample) a plan may contain
    Executors,  \* handler invocations that can run at the same time
    Answers,    \* how adapter.generate may end
    Faults      \* which of FaultKinds can happen

\* "answered" stands for an ok, a cached and a NOT_CONFIGURED result: all three go
\* on to a stored response, a judgment and a unit marked done.
AllAnswers == {"answered", "retryable", "permanent"}

FaultKinds == {"crash",     \* the process of a handler dies
               "db",        \* a statement, the adapter or the judge throws
               "budget",    \* assertWithinCapOrNew or preflight refuses
               "assemble",  \* assembleReport throws
               "plan",      \* the cycle.plan handler dies
               "aggregate"} \* the cycle.aggregate handler dies

ASSUME ResponsesAssumption ==
    /\ IsFiniteSet(Units)
    /\ IsFiniteSet(Executors)
    /\ Answers \subseteq AllAnswers
    /\ Faults \subseteq FaultKinds

VARIABLES
    unit,       \* work_unit.status of each cell ("absent": no row)
    judged,     \* current judgments stored for each cell
    cut,        \* history: handlers that stored a judgment and never marked the cell
    exec        \* local state of each runResponse call

responseVars == <<unit, judged, cut, exec>>

UnitStatus == {"absent", "pending", "done", "skipped", "error"}

NoUnit == "none"
Idle   == [pc |-> "idle", unit |-> NoUnit, carried |-> FALSE, result |-> "none"]

ExecType ==
    {Idle} \cup
    [pc: {"start", "failing", "judge", "mark", "returned"}, unit: Units,
     carried: BOOLEAN,  \* the surface cache carry-forward of runCycle
     result: {"none", "ok", "budget", "retryable", "unexpected"}]

ResponsesTypeOK ==
    /\ unit \in [Units -> UnitStatus]
    /\ judged \in [Units -> Nat]
    /\ cut \in [Units -> Nat]
    /\ exec \in [Executors -> ExecType]

ResponsesInit ==
    /\ unit = [u \in Units |-> "absent"]
    /\ judged = [u \in Units |-> 0]
    /\ cut = [u \in Units |-> 0]
    /\ exec = [e \in Executors |-> Idle]

Present == {u \in Units : unit[u] # "absent"}
Pending == {u \in Units : unit[u] = "pending"}

-----------------------------------------------------------------------------
\* insertWorkUnit: ON CONFLICT DO NOTHING.
InsertWorkUnit(u) ==
    unit' = [unit EXCEPT ![u] = IF @ = "absent" THEN "pending" ELSE @]

\* Mutation: a unit that is done is measured again.
EntryAlways(u) == "start"

\* STEP 1: a unit that is already done is skipped.
Entry(u) == IF unit[u] = "done" THEN "returned" ELSE "start"

BeginResponse(e, u) ==
    /\ exec[e] = Idle
    /\ exec' = [exec EXCEPT ![e] =
            [pc |-> Entry(u), unit |-> u, carried |-> FALSE, result |-> "ok"]]
    /\ UNCHANGED <<unit, judged, cut>>

\* STEPS 2 to 4: the budget gate refuses, or the provider answers.  What ends in an
\* error goes on to markWorkUnitError; the result says what is thrown afterwards.
Goto(e, label, result) ==
    exec' = [exec EXCEPT ![e] = [@ EXCEPT !.pc = label, !.result = result]]

Generate(e) ==
    /\ exec[e].pc = "start"
    /\ \/ "budget" \in Faults /\ Goto(e, "failing", "budget")
       \/ "answered" \in Answers /\ Goto(e, "judge", "ok")
       \/ "retryable" \in Answers /\ Goto(e, "failing", "retryable")
       \/ "permanent" \in Answers /\ Goto(e, "failing", "ok")
    /\ UNCHANGED <<unit, judged, cut>>

FailedStatus == "error"

\* markWorkUnitError, whatever the status of the unit is by now.
MarkWorkUnitError(e) ==
    /\ exec[e].pc = "failing"
    /\ unit' = [unit EXCEPT ![exec[e].unit] = FailedStatus]
    /\ Goto(e, "returned", exec[e].result)
    /\ UNCHANGED <<judged, cut>>

\* STEPS 5 to 9: insertResponseRaw, the ledger, the judge, and insertJudgment.  Each
\* response_raw row is new, so its judgment is one more current judgment.
InsertJudgment(e) ==
    /\ exec[e].pc = "judge"
    /\ judged' = [judged EXCEPT ![exec[e].unit] = @ + 1]
    /\ Goto(e, "mark", exec[e].result)
    /\ UNCHANGED <<unit, cut>>

\* STEPS 10 and 11: the judge's ledger row and markWorkUnitDone.
MarkWorkUnitDone(e) ==
    /\ exec[e].pc = "mark"
    /\ unit' = [unit EXCEPT ![exec[e].unit] = "done"]
    /\ Goto(e, "returned", exec[e].result)
    /\ UNCHANGED <<judged, cut>>

\* The history variable cut: e leaves, and has it stored a judgment in vain?
CutShort(e) ==
    IF exec[e].pc = "mark" THEN [cut EXCEPT ![exec[e].unit] = @ + 1] ELSE cut

\* Something throws that is neither a budget nor a retryable error: runResponse has
\* no handler for it.  The carry-forward catches it and marks the unit 'error'.
Throw(e) ==
    /\ "db" \in Faults
    /\ exec[e].pc \in {"start", "failing", "judge", "mark"}
    /\ cut' = CutShort(e)
    /\ Goto(e, IF exec[e].carried /\ exec[e].pc # "failing" THEN "failing" ELSE "returned",
            "unexpected")
    /\ UNCHANGED <<unit, judged>>

\* The process of the call dies.
Abandon(e) ==
    /\ cut' = CutShort(e)
    /\ exec' = [exec EXCEPT ![e] = Idle]
    /\ UNCHANGED <<unit, judged>>

ResponseStep(e) ==
    \/ Generate(e)
    \/ MarkWorkUnitError(e)
    \/ InsertJudgment(e)
    \/ MarkWorkUnitDone(e)

=============================================================================
