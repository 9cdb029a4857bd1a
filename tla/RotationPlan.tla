----------------------------- MODULE RotationPlan -----------------------------
(***************************************************************************)
(* Which questions an operating cycle measures: buildPlan of               *)
(* src/sampling/plan.ts schedules a density tier when its rotation cursor  *)
(* is a period behind the cycle index, and takes the slice of its          *)
(* questions the index selects; runCycle advances the cursors of the       *)
(* scheduled tiers one by one before anything is measured.                 *)
(*                                                                         *)
(* A question is named by its tier and its position among the questions of *)
(* the tier in the order buildPlan sorts them.                             *)
(***************************************************************************)
EXTENDS Integers, FiniteSets

CONSTANTS
    Count,          \* active questions of each tier
    IndexSupplied,  \* TRUE: the caller of runCycle supplies the run count
    MaxCycles,      \* cycles (bound)
    MaxFailures     \* cycles that are refused by preflight or die (bound)

Tiers == {"core", "secondary", "longtail"}

ASSUME RotationAssumption ==
    /\ Count \in [Tiers -> Nat]
    /\ IndexSupplied \in BOOLEAN
    /\ MaxCycles \in Nat
    /\ MaxFailures \in Nat

VARIABLES
    cycles,     \* cycles so far
    failures,   \* how many of them failed
    cursor,     \* rotation_state.last_cycle_index of each tier
    waiting     \* history: cycles since each question was measured

vars == <<cycles, failures, cursor, waiting>>

Questions == UNION {{t} \X (0..(Count[t] - 1)) : t \in Tiers}

TypeOK ==
    /\ cycles \in 0..MaxCycles
    /\ failures \in 0..MaxFailures
    /\ cursor \in [Tiers -> 0..MaxCycles]
    /\ waiting \in [Questions -> 0..MaxCycles]

\* readRotationState answers 0 for a tier without a row.
Init ==
    /\ cycles = 0
    /\ failures = 0
    /\ cursor = [t \in Tiers |-> 0]
    /\ waiting = [q \in Questions |-> 0]

-----------------------------------------------------------------------------
CYCLE_PERIOD == [core |-> 1, secondary |-> 2, longtail |-> 4]
DEFAULT_NUM_SLICES == [core |-> 1, secondary |-> 2, longtail |-> 4]

Least(a, b) == IF a <= b THEN a ELSE b

\* currentCycleIndex: the number of this run, or the default of runCycle.
CurrentCycleIndex == IF IndexSupplied THEN cycles + 1 ELSE 0

Due(t) == CurrentCycleIndex - cursor[t] >= CYCLE_PERIOD[t]

NumSlices(t) == Least(DEFAULT_NUM_SLICES[t], Count[t])

\* Mutation: the index is not divided by the period of the tier.
SliceByIndex(t) == CurrentCycleIndex % NumSlices(t)

\* selectSliceIndex
SliceIndex(t) == (CurrentCycleIndex \div CYCLE_PERIOD[t]) % NumSlices(t)

\* Mutation: slices are rounded down, and the last questions belong to none.
FloorSize(t) == Count[t] \div NumSlices(t)

SliceSize(t) == (Count[t] + NumSlices(t) - 1) \div NumSlices(t)

\* pickSlice
Slice(t) ==
    {q \in Questions :
        /\ q[1] = t
        /\ q[2] >= SliceIndex(t) * SliceSize(t) /\ q[2] < (SliceIndex(t) + 1) * SliceSize(t)}

\* The tiers that have questions and are due, and the questions this cycle measures.
Scheduled == {t \in Tiers : Count[t] > 0 /\ Due(t)}
Planned   == UNION {Slice(t) : t \in Scheduled}

-----------------------------------------------------------------------------
\* advanceRotationState, for these tiers.
Advanced(tiers) == [t \in Tiers |-> IF t \in tiers THEN CurrentCycleIndex ELSE cursor[t]]

Measured(qs) == [q \in Questions |-> IF q \in qs THEN 0 ELSE waiting[q] + 1]

\* A cycle whose jobs are all enqueued.
Cycle ==
    /\ cycles < MaxCycles
    /\ cycles' = cycles + 1
    /\ cursor' = Advanced(Scheduled)
    /\ waiting' = Measured(Planned)
    /\ UNCHANGED failures

\* Preflight refuses the plan (no cursor has moved), or the handler dies after some
\* of the cursors have; the retry of its job is the next cycle.
FailedCycle ==
    /\ cycles < MaxCycles
    /\ failures < MaxFailures
    /\ cycles' = cycles + 1
    /\ failures' = failures + 1
    /\ \E tiers \in SUBSET Scheduled : cursor' = Advanced(tiers)
    /\ waiting' = Measured({})

Next == Cycle \/ FailedCycle

Spec == Init /\ [][Next]_vars

-----------------------------------------------------------------------------
(* Properties *)

Round(t) == CYCLE_PERIOD[t] * DEFAULT_NUM_SLICES[t]

\* Every question is measured once in each full turn of its tier's rotation ("every
\* question covered monthly", "every ~16 weeks"; rotation.ts:9, 146-150) as long as
\* no cycle fails: slices, periods and cursors fit together for any number of
\* questions, and no question falls between two slices.
CoveredEachRound ==
    failures = 0 => \A q \in Questions : waiting[q] < Round(q[1])

\* A failed cycle costs a question one more turn at most, however failures shift
\* the cycles at which its tier is due.
FailureCostsOneRound ==
    \A q \in Questions : waiting[q] < (1 + failures) * Round(q[1])

-----------------------------------------------------------------------------
(* Why no question is left out: how long one can have waited, by what is left of the *)
(* period of its tier and by how many slices come before its own.                    *)

InSlice(q, j) == j * SliceSize(q[1]) <= q[2] /\ q[2] < (j + 1) * SliceSize(q[1])

\* Only a failed cycle can leave a tier due.
Late(t) == cycles - cursor[t] >= CYCLE_PERIOD[t]

\* Slices since j was measured, if none was passed over.
SlicesSince(t, j) == ((cursor[t] \div CYCLE_PERIOD[t]) - j) % NumSlices(t)

TurnInv ==
    /\ \A t \in Tiers : cursor[t] <= cycles
    /\ \A q \in Questions : waiting[q] <= cycles
    /\ \A q \in Questions : \A j \in 0..(NumSlices(q[1]) - 1) :
         InSlice(q, j) =>
            waiting[q] <= failures * Round(q[1])
                            + IF Late(q[1]) THEN CYCLE_PERIOD[q[1]] - 1
                              ELSE cycles - cursor[q[1]]
                                     + CYCLE_PERIOD[q[1]] * SlicesSince(q[1], j)

=============================================================================
