---------------------------- MODULE BillingClose ----------------------------
(***************************************************************************)
(* The ledger of provider calls and the monthly close: a cron job reads    *)
(* what each customer has used in the last month and writes an invoice,    *)
(* then its lines, one statement each (src/billing/close.ts, the           *)
(* billing.close handler of src/scheduler/worker.ts). No payment provider  *)
(* is passed in.                                                           *)
(***************************************************************************)
EXTENDS Integers, FiniteSets

-----------------------------------------------------------------------------
(* llm_call as everybody reads it: through the view cost_daily, one row per *)
(* day and customer that has calls (src/cost/ledger.ts, src/db/repo.ts).    *)
(* Rows without a customer, of calls made before there is one, are in no    *)
(* sum that is read here.                                                   *)

CONSTANTS
    Customers,
    PeriodDays,  \* days of a billing month
    MaxDay,      \* days that are followed (bound)
    None

ASSUME LedgerAssumption ==
    /\ None \notin Customers /\ None \notin Nat
    /\ PeriodDays \in Nat \ {0} /\ MaxDay \in Nat \ {0}

VARIABLES
    today,       \* the day, counted from 1
    costDaily    \* for each customer, the days that have rows, with their sum

ledgerVars == <<today, costDaily>>

Days == 1..MaxDay

LedgerTypeOK ==
    /\ today \in Days
    /\ DOMAIN costDaily = Customers
    /\ \A c \in Customers : /\ DOMAIN costDaily[c] \subseteq 1..today
                           /\ costDaily[c] \in [DOMAIN costDaily[c] -> Nat]

LedgerInit ==
    /\ today = 1
    /\ costDaily = [c \in Customers |-> <<>>]

\* insertLlmCall: a row of today. A call that cost nothing has a row too.
Record(customer, cents) ==
    costDaily' = [costDaily EXCEPT ![customer] =
        [d \in DOMAIN @ \cup {today} |->
            (IF d \in DOMAIN @ THEN @[d] ELSE 0) + (IF d = today THEN cents ELSE 0)]]

\* What the entries of f for S add up to: cents, counted one by one.
Total(f, S) == Cardinality(UNION {{x} \X (1..f[x]) : x \in S})

SumOver(customer, days) ==
    Total(costDaily[customer], days \cap DOMAIN costDaily[customer])

\* A SUM of no rows is NULL.
SumOrNull(customer, days) ==
    IF days \cap DOMAIN costDaily[customer] = {} THEN None ELSE SumOver(customer, days)

\* sumCostSince: day >= now - w days leaves out the day on which the window
\* begins, unless now is midnight.
WindowDays(w) == {d \in Days : d > today - w /\ d <= today}

SumCostSince(customer, w) == SumOrNull(customer, WindowDays(w))

PeriodOf(d) == (d - 1) \div PeriodDays
FirstOfPeriod(d) == (d - 1) % PeriodDays = 0

\* Mutation: the end of a period belongs to it.
UpToAndIncluding(p) == {d \in Days : d > p * PeriodDays /\ d <= (p + 1) * PeriodDays + 1}

\* The days of a period: its end is the first day of the next.
DaysOfPeriod(p) == {d \in Days : d > p * PeriodDays /\ d <= (p + 1) * PeriodDays}

SumLlmUsageForPeriod(customer, p) == SumOrNull(customer, DaysOfPeriod(p))

-----------------------------------------------------------------------------
(* What a month costs a customer (src/billing/pricing.ts). Won are integers; *)
(* provider cost is counted in cents of a dollar.                            *)

\* Math.round of n / d.
RoundDiv(n, d) == (2 * n + d) \div (2 * d)

AtLeast(low, n) == IF n < low THEN low ELSE n
AtMost(high, n) == IF n > high THEN high ELSE n

DEPTH_BASELINE == 15        \* 5 models, 3 samples
DEPTH_MULTIPLIER_CAP == 3

\* The bucket of a number of question and language cells.
BucketKrw(cells) ==
    CASE cells <= 50 -> 1200000
      [] cells \in 51..100 -> 2000000
      [] cells \in 101..200 -> 3500000
      [] cells > 200 -> 3500000 + (cells - 200) * 12000

\* The depth multiplier lies in [1, cap]; here it is counted in baselines.
DepthUnits(scope) ==
    AtMost(DEPTH_MULTIPLIER_CAP * DEPTH_BASELINE,
           AtLeast(DEPTH_BASELINE, AtLeast(1, scope.models) * AtLeast(1, scope.samples)))

\* Rounded to a thousand won; nothing to measure costs nothing.
PriceForScope(scope) ==
    IF scope.questions <= 0 \/ scope.languages <= 0 THEN 0
    ELSE LET thousands == BucketKrw(scope.questions * scope.languages) \div 1000
         IN 1000 * RoundDiv(thousands * DepthUnits(scope), DEPTH_BASELINE)

FX_RATE_KRW_PER_USD == 1350
OVERAGE_MARGIN == 3

UsdToKrw(cents) == RoundDiv(cents * FX_RATE_KRW_PER_USD, 100)

ApplyMargin(krw) == krw * OVERAGE_MARGIN

VatOf(base, overage) == RoundDiv(base + overage, 10)

-----------------------------------------------------------------------------
CONSTANTS
    Scopes,        \* what a customer may have active when it is read
    CloseRetries,  \* retries of a billing.close job
    MaxFaults      \* errors and crashes of the close (bound)

ASSUME CloseAssumption ==
    /\ Scopes \subseteq [questions : Nat, languages : Nat, models : Nat, samples : Nat]
    /\ CloseRetries \in Nat /\ MaxFaults \in Nat

VARIABLES
    subscribed,  \* customers with a subscription row
    invoice,     \* invoices by customer and period
    lines,       \* invoice_line rows of each invoice
    fired,       \* the day on which the cron fired last
    close,       \* the billing.close job and the local state of its handler
    faults,
    torn         \* history: invoices whose writer stopped before the last line

billingVars == <<subscribed, invoice, lines, fired, close, faults, torn>>

Periods == 0..PeriodOf(MaxDay)
Kinds == {"base", "overage", "vat"}
NoClose == [state |-> "none", left |-> 0, period |-> 0, todo |-> {}, customer |-> None,
            stage |-> "none", draft |-> None]

\* What a customer owes for a month, in won.
Drafts == [base : Nat, overage : Nat, vat : Nat, total : Nat]

\* A month is closed by one job; it waits, or its handler runs.
CloseType ==
    [state : {"none", "waiting", "running"}, left : 0..CloseRetries, period : Periods,
     todo : SUBSET Customers, customer : Customers \cup {None},
     stage : {"none", "invoice"} \cup Kinds, draft : {None} \cup Drafts]

BillingTypeOK ==
    /\ subscribed \subseteq Customers
    /\ DOMAIN invoice \subseteq Customers \X Periods
    /\ DOMAIN lines = DOMAIN invoice
    /\ \A k \in DOMAIN invoice : invoice[k] \in Drafts /\ DOMAIN lines[k] \subseteq Kinds
    /\ fired \in Days \cup {0}
    /\ close \in CloseType
    /\ faults \in 0..MaxFaults
    /\ torn \subseteq DOMAIN invoice

BillingInit ==
    /\ subscribed \in SUBSET Customers
    /\ invoice = <<>> /\ lines = <<>>
    /\ fired = 0 /\ close = NoClose
    /\ faults = 0 /\ torn = {}

Key == <<close.customer, close.period>>

Waiting(left) == [NoClose EXCEPT !.state = "waiting", !.left = left]

\* The cron fires once on the first day of a month, at 03:00, if the worker is up.
CronClose ==
    /\ FirstOfPeriod(today) /\ PeriodOf(today) > 0 /\ fired # today
    /\ close.state = "none"
    /\ fired' = today
    /\ close' = Waiting(CloseRetries)
    /\ UNCHANGED <<ledgerVars, subscribed, invoice, lines, faults, torn>>

\* runMonthlyClose: the month before the one in which it runs.
StartClose ==
    /\ close.state = "waiting"
    /\ close' = [close EXCEPT !.state = "running", !.period = PeriodOf(today) - 1,
                              !.todo = Customers]
    /\ UNCHANGED <<ledgerVars, subscribed, invoice, lines, fired, faults, torn>>

\* Step 1: a customer without a subscription is passed over.
SkipCustomer(c) ==
    /\ close.state = "running" /\ close.customer = None
    /\ c \in close.todo \ subscribed
    /\ close' = [close EXCEPT !.todo = @ \ {c}]
    /\ UNCHANGED <<ledgerVars, subscribed, invoice, lines, fired, faults, torn>>

\* Steps 2 to 6. No rows in the month count as nothing used.
Draft(scope, usage) ==
    LET base == PriceForScope(scope)
        overage == ApplyMargin(UsdToKrw(IF usage = None THEN 0 ELSE usage))
        vat == VatOf(base, overage)
    IN [base |-> base, overage |-> overage, vat |-> vat, total |-> base + overage + vat]

ReadCustomer(c, scope) ==
    /\ close.state = "running" /\ close.customer = None
    /\ c \in close.todo \cap subscribed
    /\ close' = [close EXCEPT !.customer = c, !.todo = @ \ {c}, !.stage = "invoice",
                    !.draft = Draft(scope, SumLlmUsageForPeriod(c, close.period))]
    /\ UNCHANGED <<ledgerVars, subscribed, invoice, lines, fired, faults, torn>>

NextCustomer == close' = [close EXCEPT !.customer = None, !.stage = "none", !.draft = None]

\* Step 7: UNIQUE (customer, period) with ON CONFLICT DO NOTHING; an invoice that
\* is there ends the work on the customer, whether its lines are there or not.
InsertInvoice ==
    /\ close.stage = "invoice"
    /\ IF Key \in DOMAIN invoice
       THEN NextCustomer /\ UNCHANGED <<invoice, lines>>
       ELSE /\ invoice' = [k \in DOMAIN invoice \cup {Key} |->
                              IF k = Key THEN close.draft ELSE invoice[k]]
            /\ lines' = [k \in DOMAIN lines \cup {Key} |-> IF k = Key THEN <<>> ELSE lines[k]]
            /\ close' = [close EXCEPT !.stage = "base"]
    /\ UNCHANGED <<ledgerVars, subscribed, fired, faults, torn>>

\* Mutation: the line of the tax is written only along with that of the overage.
WrittenWithOverage(draft, kind) == kind = "base" \/ draft.overage > 0

\* Step 8: the base line always, the others if there is something to pay.
Written(draft, kind) == kind = "base" \/ draft[kind] > 0

InsertLine ==
    LET kind == close.stage IN
    /\ kind \in Kinds
    /\ lines' = IF Written(close.draft, kind)
                THEN [lines EXCEPT ![Key] = [k \in DOMAIN @ \cup {kind} |->
                                               IF k = kind THEN close.draft[k] ELSE @[k]]]
                ELSE lines
    /\ IF kind = "vat" THEN NextCustomer
       ELSE close' = [close EXCEPT !.stage = IF kind = "base" THEN "overage" ELSE "vat"]
    /\ UNCHANGED <<ledgerVars, subscribed, invoice, fired, faults, torn>>

FinishClose ==
    /\ close.state = "running" /\ close.customer = None /\ close.todo = {}
    /\ close' = NoClose
    /\ UNCHANGED <<ledgerVars, subscribed, invoice, lines, fired, faults, torn>>

Interrupted == IF close.stage \in Kinds THEN torn \cup {Key} ELSE torn

\* A read or write fails: the error is logged and the next customer is taken.
CustomerFails ==
    /\ close.customer # None /\ faults < MaxFaults
    /\ faults' = faults + 1
    /\ torn' = Interrupted
    /\ NextCustomer
    /\ UNCHANGED <<ledgerVars, subscribed, invoice, lines, fired>>

\* pg-boss retries the job, or dead-letters it.
RetriedClose(left) == IF left > 0 THEN Waiting(left - 1) ELSE NoClose

\* The process dies.
CloseDies ==
    /\ close.state = "running" /\ faults < MaxFaults
    /\ faults' = faults + 1
    /\ torn' = Interrupted
    /\ close' = RetriedClose(close.left)
    /\ UNCHANGED <<ledgerVars, subscribed, invoice, lines, fired>>

BillingNext ==
    \/ CronClose \/ StartClose \/ InsertInvoice \/ InsertLine \/ FinishClose
    \/ CustomerFails \/ CloseDies
    \/ \E c \in Customers : SkipCustomer(c) \/ \E s \in Scopes : ReadCustomer(c, s)
=============================================================================
