----------------------------- MODULE MeasureOnce -----------------------------
(***************************************************************************)
(* What src/pipeline promises of a run, leaving out jobs, handlers and     *)
(* their retries: a plan is frozen once, before anything is measured; a    *)
(* cell of it has one live measurement at most, and once counted keeps it  *)
(* for good; and a run that is complete has an answer or an error for each *)
(* cell, of which only the errors can still be made good, even after its   *)
(* report was withdrawn ("SMR denominator = run.n_total snapshot",         *)
(* DESIGN.md:221; runCycle.ts, steps 2b and 4).  Nothing is promised of a  *)
(* cell that two handlers work on at once: it is void.                     *)
(***************************************************************************)
EXTENDS Naturals

CONSTANT Cells

VARIABLES
    plan,       \* the frozen plan, {} before
    state,      \* what has become of each cell
    live,       \* measurements of a cell that stand, each a hit at most
    complete    \* the run has ended with every cell accounted for

TypeOK ==
    /\ plan \subseteq Cells
    /\ state \in [Cells -> {"open", "done", "error", "void"}]
    /\ live \in [Cells -> {0, 1}]
    /\ complete \in BOOLEAN

Init ==
    /\ plan = {}
    /\ state = [c \in Cells |-> "open"]
    /\ live = [c \in Cells |-> 0]
    /\ complete = FALSE

Freeze(P) ==
    /\ plan = {} /\ ~complete
    /\ plan' = P
    /\ UNCHANGED <<state, live, complete>>

\* Cells that may still be worked on.
Unsettled ==
    {c \in plan : state[c] \notin {"done", "void"} /\ (complete => state[c] = "error")}

Measure(c) ==
    /\ c \in Unsettled /\ live[c] = 0
    /\ live' = [live EXCEPT ![c] = 1]
    /\ UNCHANGED <<plan, state, complete>>

\* Who measured the cell was cut off: the measurement is written off.
WriteOff(c) ==
    /\ c \in Unsettled /\ live[c] = 1
    /\ live' = [live EXCEPT ![c] = 0]
    /\ UNCHANGED <<plan, state, complete>>

Count(c) ==
    /\ c \in Unsettled /\ live[c] = 1
    /\ state' = [state EXCEPT ![c] = "done"]
    /\ UNCHANGED <<plan, live, complete>>

Miss(c) ==
    /\ c \in Unsettled /\ live[c] = 0
    /\ state' = [state EXCEPT ![c] = "error"]
    /\ UNCHANGED <<plan, live, complete>>

\* The queue hands the cell to a second handler beside the first.
Void(c) ==
    /\ c \in plan
    /\ state' = [state EXCEPT ![c] = "void"]
    /\ live' = [live EXCEPT ![c] = 0]
    /\ UNCHANGED <<plan, complete>>

Complete ==
    /\ \A c \in plan : state[c] # "open"
    /\ complete' = TRUE
    /\ UNCHANGED <<plan, state, live>>

\* The report is assembled once more, and fails.
Withdraw ==
    /\ complete
    /\ plan # {}
    /\ complete' = FALSE
    /\ UNCHANGED <<plan, state, live>>

Next ==
    \/ \E P \in SUBSET Cells : Freeze(P)
    \/ \E c \in Cells : Measure(c) \/ WriteOff(c) \/ Count(c) \/ Miss(c) \/ Void(c)
    \/ Complete
    \/ Withdraw

Spec == Init /\ [][Next]_<<plan, state, live, complete>>

=============================================================================
