---------------------------- MODULE SpendAndBill ----------------------------
(***************************************************************************)
(* Money in and money out: measurement handlers pass the budget gate, look *)
(* into the response cache, call a provider and record what it cost        *)
(* (src/pipeline/runResponse.ts steps 2 to 10, src/cost/budget.ts,         *)
(* src/cost/cache.ts), and the monthly close bills what was recorded.      *)
(* Nothing ties the check of the rolling sum to the record of the cost.    *)
(*                                                                         *)
(* The units of a run are samples of one question: they share a request    *)
(* hash, and so one row of response_cache; customers that ask the same     *)
(* share it too, since the hash names none. A customer has one run at a    *)
(* time, numbered; handlers of an earlier run may still be at work.        *)
(***************************************************************************)
EXTENDS BillingClose

CONSTANTS
    Handlers,
    WeekDays, MonthDays,  \* lengths of the rolling windows
    WeeklyCap, MonthlyCap,
    Units,                \* samples of a run
    EstimatedUnit,        \* what preflight expects of a unit
    GenCosts, JudgeCosts, \* what a call may cost, in cents
    MaxRuns,              \* runs of a customer (bound)
    RunRetries,           \* units of a run that are tried again (bound)
    RawFallback,          \* the cost reader falls back on llm_call (cli/diagnose.ts)
    PerJobCache           \* each job has a cache object of its own and a cut-off
                          \* (index.ts); otherwise the process has one (inline path)

ASSUME SpendAssumption ==
    /\ WeekDays \in Nat \ {0} /\ MonthDays \in Nat /\ WeekDays <= MonthDays
    /\ WeeklyCap \in Nat \ {0} /\ MonthlyCap \in Nat \ {0}
    /\ Units \in Nat /\ EstimatedUnit \in Nat /\ MaxRuns \in Nat /\ RunRetries \in Nat
    /\ \A costs \in {GenCosts, JudgeCosts} :  \* max_tokens bounds what a call costs
         costs \subseteq Nat /\ \E m \in costs : \A n \in costs : n <= m
    /\ IsFiniteSet(Handlers)
    /\ RawFallback \in BOOLEAN /\ PerJobCache \in BOOLEAN

VARIABLES
    run,       \* for each customer, its current run (0: none yet)
    pending,   \* units of that run still to be taken
    again,     \* retries left in the current run
    calledIn,  \* runs of a customer that have rows in llm_call
    work,      \* local state of the handlers
    seen,      \* seenInRun of the cache object of a process
    cache,     \* the row of response_cache: the run it comes from, the day it was
               \* stored, and each customer's current run at that time
    collapsed, \* history: a sample was served the answer of another of its run
    refused,   \* history: the last check found no rows to sum and stopped a unit
    blind      \* history: a new customer passed a check whose other window was full

spendVars == <<run, pending, again, calledIn, work, seen, cache, collapsed, refused, blind>>
vars == <<ledgerVars, billingVars, spendVars>>

Runs == 0..MaxRuns
Idle == [pc |-> "idle", customer |-> None, run |-> 0, cost |-> 0]
Steps == {"idle", "cache", "generate", "recordGeneration", "recordFailure", "judge", "recordJudge"}

MaxOf(costs) == CHOOSE m \in costs : \A n \in costs : n <= m
MaxUnit == MaxOf(GenCosts) + MaxOf(JudgeCosts)

SpendTypeOK ==
    /\ run \in [Customers -> Runs] /\ pending \in [Customers -> 0..Units]
    /\ again \in [Customers -> 0..RunRetries]
    /\ calledIn \in [Customers -> SUBSET Runs]
    /\ work \in [Handlers -> [pc : Steps, customer : Customers \cup {None}, run : Runs,
                              cost : 0..MaxUnit]]
    /\ seen \in [Handlers -> SUBSET (Customers \X Runs)]
    /\ cache = None \/ cache \in [src : Customers \X Runs, day : Days, at : [Customers -> Runs]]
    /\ collapsed \in BOOLEAN /\ refused \in [Customers -> BOOLEAN] /\ blind \in BOOLEAN

TypeOK == LedgerTypeOK /\ BillingTypeOK /\ SpendTypeOK

Init ==
    /\ LedgerInit /\ BillingInit
    /\ run = [c \in Customers |-> 0] /\ pending = [c \in Customers |-> 0]
    /\ again = [c \in Customers |-> RunRetries]
    /\ calledIn = [c \in Customers |-> {}]
    /\ work = [h \in Handlers |-> Idle] /\ seen = [h \in Handlers |-> {}]
    /\ cache = None /\ collapsed = FALSE
    /\ refused = [c \in Customers |-> FALSE] /\ blind = FALSE

-----------------------------------------------------------------------------
(* The budget                                                              *)

OrNothing(sum) == IF sum = None THEN 0 ELSE sum

\* preflight: missing data counts as no spend.
Affordable(c, estimate) ==
    /\ estimate <= WeeklyCap - OrNothing(SumCostSince(c, WeekDays))
    /\ estimate <= MonthlyCap - OrNothing(SumCostSince(c, MonthDays))

\* A run is planned; one that preflight refuses is over_budget at once. What is
\* left of the run before it has no handler any more but those at work.
StartRun(c) ==
    /\ run[c] < MaxRuns /\ pending[c] = 0
    /\ run' = [run EXCEPT ![c] = @ + 1]
    /\ pending' = [pending EXCEPT ![c] =
                     IF Affordable(c, Units * EstimatedUnit) THEN Units ELSE 0]
    /\ again' = [again EXCEPT ![c] = RunRetries]
    /\ UNCHANGED <<ledgerVars, billingVars, calledIn, work, seen, cache, collapsed, refused, blind>>

\* What the fallback sums over llm_call itself: of the day on which the window
\* begins it still counts what is young enough.
Readings(c, w) ==
    LET sum == SumCostSince(c, w) IN
    IF sum # None \/ ~RawFallback THEN {sum}
    ELSE 0..SumOver(c, {today - w})

\* customerHasPriorLlmCall leaves out the current run.
IsNewCustomer(c) == calledIn[c] \ {run[c]} = {}

\* Mutation: what is in the month is not looked at.
WithinWeeklyCap(week, month) == week < WeeklyCap

WithinCap(week, month) == week < WeeklyCap /\ month < MonthlyCap

\* assertWithinCapOrNew: missing data stops a customer that has called before. A
\* unit that is refused is in error.
BudgetGate(h, c) ==
    /\ work[h].pc = "idle" /\ pending[c] > 0
    /\ pending' = [pending EXCEPT ![c] = @ - 1]
    /\ \E week \in Readings(c, WeekDays), month \in Readings(c, MonthDays) :
         LET missing == None \in {week, month}
             passes == IF missing THEN IsNewCustomer(c) ELSE WithinCap(week, month)
         IN /\ refused' = [refused EXCEPT ![c] = missing /\ ~IsNewCustomer(c)]
            /\ blind' = (blind \/ (missing /\ passes /\ month # None /\ month >= MonthlyCap))
            /\ work' = IF passes
                       THEN [work EXCEPT ![h] = [pc |-> "cache", customer |-> c,
                                                 run |-> run[c], cost |-> 0]]
                       ELSE work
    /\ UNCHANGED <<ledgerVars, billingVars, run, again, calledIn, seen, cache, collapsed>>

-----------------------------------------------------------------------------
(* The cache and the calls                                                 *)

\* The time-to-live is a day.
Young(entry) == today - entry.day <= 1

RunOf(w) == <<w.customer, w.run>>

\* Mutation: the lookup of a job serves what its own run has stored.
AnyEntry(entry, w) == TRUE

\* findByHash of a job: only rows created before its run began.
BeforeRun(entry, w) == PerJobCache => entry.at[w.customer] < w.run

Hit(h) ==
    /\ cache # None /\ Young(cache)
    /\ BeforeRun(cache, work[h])
    /\ PerJobCache \/ RunOf(work[h]) \notin seen[h]

\* Handler h is at pc; what its last call has cost is in no row yet.
GoesOn(h, pc, cost) ==
    work' = [work EXCEPT ![h] = [pc |-> pc, customer |-> work[h].customer,
                                 run |-> work[h].run, cost |-> cost]]

\* A grounded unit never reads the cache. A hit is recorded at no cost and judged.
CheckCache(h, grounded) ==
    LET w == work[h] IN
    /\ w.pc = "cache"
    /\ seen' = [seen EXCEPT ![h] = IF grounded \/ PerJobCache THEN @ ELSE @ \cup {RunOf(w)}]
    /\ IF ~grounded /\ Hit(h)
       THEN /\ collapsed' = (collapsed \/ cache.src = RunOf(w))
            /\ GoesOn(h, "recordGeneration", 0)
       ELSE /\ GoesOn(h, "generate", 0)
            /\ UNCHANGED collapsed
    /\ UNCHANGED <<ledgerVars, billingVars, run, pending, again, calledIn, cache, refused, blind>>

\* The provider answers or fails; both cost money. An answer that was not grounded
\* is stored unless the hash is there already, however old.
Generate(h, cost, outcome) ==
    LET w == work[h] IN
    /\ w.pc = "generate"
    /\ GoesOn(h, IF outcome = "failed" THEN "recordFailure" ELSE "recordGeneration", cost)
    /\ cache' = IF outcome = "ungrounded" /\ cache = None
                THEN [src |-> RunOf(w), day |-> today, at |-> run]
                ELSE cache
    /\ UNCHANGED <<ledgerVars, billingVars, run, pending, again, calledIn, seen, collapsed,
                   refused, blind>>

\* The ledger row of a call.
Ledger(h) ==
    LET w == work[h] IN
    /\ Record(w.customer, w.cost)
    /\ calledIn' = [calledIn EXCEPT ![w.customer] = @ \cup {w.run}]

RecordGeneration(h) ==
    /\ work[h].pc = "recordGeneration"
    /\ Ledger(h)
    /\ GoesOn(h, "judge", 0)
    /\ UNCHANGED <<today, billingVars, run, pending, again, seen, cache, collapsed, refused, blind>>

\* A retryable unit goes back to the queue while it has retries.
TryAgain(w) ==
    \/ UNCHANGED <<pending, again>>
    \/ /\ w.run = run[w.customer] /\ again[w.customer] > 0 /\ pending[w.customer] < Units
       /\ again' = [again EXCEPT ![w.customer] = @ - 1]
       /\ pending' = [pending EXCEPT ![w.customer] = @ + 1]

RecordFailure(h) ==
    /\ work[h].pc = "recordFailure"
    /\ Ledger(h)
    /\ work' = [work EXCEPT ![h] = Idle]
    /\ TryAgain(work[h])
    /\ UNCHANGED <<today, billingVars, run, seen, cache, collapsed, refused, blind>>

\* The judge is called without another look at the budget.
Judge(h, cost) ==
    /\ work[h].pc = "judge"
    /\ GoesOn(h, "recordJudge", cost)
    /\ UNCHANGED <<ledgerVars, billingVars, run, pending, again, calledIn, seen, cache,
                   collapsed, refused, blind>>

\* recordJudge, if there was a call, and the unit is done.
RecordJudge(h) ==
    /\ work[h].pc = "recordJudge"
    /\ IF work[h].cost > 0 THEN Ledger(h) ELSE UNCHANGED <<costDaily, calledIn>>
    /\ work' = [work EXCEPT ![h] = Idle]
    /\ UNCHANGED <<today, billingVars, run, pending, again, seen, cache, collapsed, refused, blind>>

\* The process of a handler dies, or one of its writes fails: what the call under
\* way has cost is in no row.
HandlerDies(h) ==
    /\ work[h].pc # "idle"
    /\ work' = [work EXCEPT ![h] = Idle]
    /\ seen' = [seen EXCEPT ![h] = {}]
    /\ TryAgain(work[h])
    /\ UNCHANGED <<ledgerVars, billingVars, run, calledIn, cache, collapsed, refused, blind>>

NextDay ==
    /\ today < MaxDay
    /\ today' = today + 1
    /\ UNCHANGED <<costDaily, billingVars, spendVars>>

HandlerStep(h) ==
    \/ \E g \in BOOLEAN : CheckCache(h, g)
    \/ \E u \in GenCosts, o \in {"grounded", "ungrounded", "failed"} : Generate(h, u, o)
    \/ RecordGeneration(h) \/ RecordFailure(h)
    \/ \E u \in JudgeCosts : Judge(h, u)
    \/ RecordJudge(h)

Next ==
    \/ \E c \in Customers : StartRun(c) \/ \E h \in Handlers : BudgetGate(h, c)
    \/ \E h \in Handlers : HandlerStep(h) \/ HandlerDies(h)
    \/ NextDay
    \/ BillingNext /\ UNCHANGED spendVars

Spec == Init /\ [][Next]_vars

-----------------------------------------------------------------------------
(* Properties                                                              *)

\* However handlers race, what is recorded in a window exceeds its cap by less
\* than what the handlers at work could still spend when the cap was reached: the
\* last check below the cap admits each of them for one unit (cost/budget.ts). The
\* month is excepted once the first run of a customer has paused for a week.
OvershootIsBounded ==
    \A c \in Customers :
        LET atWork == {h \in Handlers : work[h].customer = c}
            inFlight == Total([h \in Handlers |-> work[h].cost], atWork)
            slack == Cardinality(Handlers) * MaxUnit
        IN /\ SumOver(c, WindowDays(WeekDays)) + inFlight < WeeklyCap + slack
           /\ blind \/ SumOver(c, WindowDays(MonthDays)) + inFlight < MonthlyCap + slack

\* The samples of a run are separate answers: none is served from the cache what
\* another sample of the same run has stored (cost/cache.ts, "intra-cycle").
SamplesAreDistinct == ~collapsed

\* An invoice bills exactly what the ledger holds for its month, to the won, then
\* and for ever: no day is billed twice or left out at the turn of a month, no
\* call of another owner is billed, and no row comes in late.
InvoiceMatchesLedger ==
    \A k \in DOMAIN invoice :
        LET used == SumOver(k[1], {d \in Days : PeriodOf(d) = k[2]})
            i == invoice[k]
        IN /\ 2 * i.overage - 81 * used \in -3..3  \* a cent is 13.5 won, times 3
           /\ 10 * i.vat - (i.base + i.overage) \in -5..5
           /\ i.total = i.base + i.overage + i.vat

\* What the line of an invoice says; one that is not there says nothing.
Line(k, kind) == IF kind \in DOMAIN lines[k] THEN lines[k][kind] ELSE 0

\* The lines of an invoice explain its total, unless its writer was stopped.
LinesExplainTotal ==
    \A k \in DOMAIN invoice :
        LET open == close.customer = k[1] /\ close.period = k[2] IN
        \/ open \/ k \in torn
        \/ Line(k, "base") + Line(k, "overage") + Line(k, "vat") = invoice[k].total

\* "wrongly blocking a customer that has simply been idle" (db/repo.ts): a customer
\* is not turned away because it has not spent anything lately.
IdleIsNotRefused == \A c \in Customers : ~refused[c]
=============================================================================
