--------------------------- MODULE PublishDispatch ---------------------------
(***************************************************************************)
(* Concurrent publish.dispatch handlers (the daily cron and the            *)
(* publish-content command) spending the throttle budget of one channel.   *)
(*                                                                         *)
(* What is claimed is counted here; what becomes of the claimed rows is    *)
(* the subject of DeployPipeline.  Generic is the customer_id NULL bucket. *)
(***************************************************************************)
EXTENDS Throttle, FiniteSets

CONSTANTS
    Customers,          \* customer ids, Generic among them
    Generic,
    Dispatchers,
    DryRunModes,        \* values of payload.dryRun that are dispatched
    StartTime, MaxTime, \* the clock runs from StartTime to MaxTime (bound)
    MaxBacklog,         \* leasable rows of a customer at once (bound)
    PublishedBefore,    \* TRUE: every customer has published a week ago
    SpansMidnight       \* TRUE: a dispatch may begin on one day and end on another

ASSUME DispatchAssumption ==
    /\ Generic \in Customers
    /\ DryRunModes \subseteq BOOLEAN
    /\ StartTime \in Nat /\ MaxTime \in Nat /\ MaxBacklog \in Nat
    /\ StartTime <= MaxTime
    /\ Generic \in Customers /\ "none" \notin Dispatchers
    /\ StartTime \div TicksPerDay >= DaysPerWeek
    /\ PublishedBefore \in BOOLEAN /\ SpansMidnight \in BOOLEAN

VARIABLES
    now,        \* the clock all processes read
    throttle,   \* channel_throttle_state, per customer
    lock,       \* who holds FOR UPDATE on a customer's counter row
    backlog,    \* number of leasable rows of each customer
    disp,       \* local state of each dispatcher
    granted,    \* history: rows leased for real, per customer and day
    weekly,     \* history: rows leased for real, per customer and week
    lastGrant   \* history: when a customer's last real batch was leased

vars == <<now, throttle, lock, backlog, disp, granted, weekly, lastGrant>>
ledger == <<granted, weekly, lastGrant>>

None == "none"

Windows == 0..currentWindowStart(MaxTime)
Weeks   == 0..currentWeekStart(MaxTime)

Idle == [pc |-> "idle", dryRun |-> FALSE, window |-> 0, estimate |-> 0,
         todo |-> {}, customer |-> None, row |-> NoRow, at |-> 0]

DispatcherType ==
    [pc: {"idle", "estimate", "customers", "next", "claim"}, dryRun: BOOLEAN,
     window: Nat, estimate: Nat, todo: SUBSET Customers,
     customer: Customers \cup {None}, row: Rows, at: Nat]

TypeOK ==
    /\ now \in Nat
    /\ throttle \in [Customers -> Rows]
    /\ lock \in [Customers -> Dispatchers \cup {None}]
    /\ backlog \in [Customers -> 0..MaxBacklog]
    /\ disp \in [Dispatchers -> DispatcherType]
    /\ granted \in [Customers -> [Windows -> Nat]]
    /\ weekly \in [Customers -> [Weeks -> Nat]]
    /\ lastGrant \in [Customers -> Nat]

\* The counter row one publish at time 0 has left behind.
OldRow == Counted(NoRow, 1, 0, 0)

Init ==
    /\ now = StartTime
    /\ throttle = [c \in Customers |-> IF PublishedBefore THEN OldRow ELSE NoRow]
    /\ lock = [c \in Customers |-> None]
    /\ backlog = [c \in Customers |-> 0]
    /\ disp = [d \in Dispatchers |-> Idle]
    /\ granted = [c \in Customers |-> [w \in Windows |->
                    IF PublishedBefore /\ w = 0 THEN 1 ELSE 0]]
    /\ weekly = [c \in Customers |-> [w \in Weeks |->
                    IF PublishedBefore /\ w = 0 THEN 1 ELSE 0]]
    /\ lastGrant = [c \in Customers |-> 0]

-----------------------------------------------------------------------------
(* The environment *)

Tick ==
    /\ now < MaxTime
    /\ \/ SpansMidnight
       \/ currentWindowStart(now + 1) = currentWindowStart(now)
       \/ \A d \in Dispatchers : disp[d].pc = "idle"
    /\ now' = now + 1
    /\ UNCHANGED <<throttle, lock, backlog, disp, ledger>>

\* A row of customer c becomes leasable: approved, or released by its handler.
NewRow(c) ==
    /\ backlog[c] < MaxBacklog
    /\ backlog' = [backlog EXCEPT ![c] = @ + 1]
    /\ UNCHANGED <<now, throttle, lock, disp, ledger>>

-----------------------------------------------------------------------------
(* handlePublishDispatch, for one ready channel *)

\* The window is computed once, for the whole dispatch.
StartDispatch(d, dry) ==
    /\ disp[d].pc = "idle"
    /\ disp' = [disp EXCEPT ![d] =
            [Idle EXCEPT !.pc = "estimate", !.dryRun = dry,
                         !.window = currentWindowStart(now)]]
    /\ UNCHANGED <<now, throttle, lock, backlog, ledger>>

\* The estimate reads the counters of the NULL bucket.
Estimate(d) ==
    /\ disp[d].pc = "estimate"
    /\ disp' = [disp EXCEPT ![d] =
            [@ EXCEPT !.pc = "customers",
                      !.estimate = computeRemainingBudget(throttle[Generic], disp[d].window)]]
    /\ UNCHANGED <<now, throttle, lock, backlog, ledger>>

\* No budget estimated: the channel is skipped for every customer.
SkipChannel(d) ==
    /\ disp[d].pc = "customers"
    /\ disp[d].estimate = 0
    /\ disp' = [disp EXCEPT ![d] = Idle]
    /\ UNCHANGED <<now, throttle, lock, backlog, ledger>>

\* readDistinctCustomersWithQueuedRows.
ListCustomers(d) ==
    /\ disp[d].pc = "customers"
    /\ disp[d].estimate > 0
    /\ disp' = [disp EXCEPT ![d] =
            [@ EXCEPT !.pc = "next", !.todo = {c \in Customers : backlog[c] > 0}]]
    /\ UNCHANGED <<now, throttle, lock, backlog, ledger>>

FinishDispatch(d) ==
    /\ disp[d].pc = "next"
    /\ disp[d].todo = {}
    /\ disp' = [disp EXCEPT ![d] = Idle]
    /\ UNCHANGED <<now, throttle, lock, backlog, ledger>>

\* readThrottleStateForUpdate waits for the row lock; with no row there is
\* nothing to lock and nothing to wait for.
MayRead(c) == throttle[c].exists => lock[c] = None

\* The transaction for customer c begins: it locks and reads the counters, and
\* reads the clock.
BeginClaim(d, c) ==
    /\ disp[d].pc = "next"
    /\ c \in disp[d].todo
    /\ MayRead(c)
    /\ lock' = [lock EXCEPT ![c] = IF throttle[c].exists THEN d ELSE @]
    /\ disp' = [disp EXCEPT ![d] =
            [@ EXCEPT !.pc = "claim", !.todo = disp[d].todo \ {c}, !.customer = c,
                      !.row = throttle[c], !.at = now]]
    /\ UNCHANGED <<now, throttle, backlog, ledger>>

\* Rows the transaction leases, from the counters and the time it has read.
BatchSize(d) ==
    Lesser(backlog[disp[d].customer],
           ClaimLimit(disp[d].row, disp[d].estimate, disp[d].window, disp[d].at))

\* The dispatcher leaves the transaction and turns to the next customer.
Unlocked(d)  == [c \in Customers |-> IF lock[c] = d THEN None ELSE lock[c]]
NextCustomer(d) ==
    [disp EXCEPT ![d] = [@ EXCEPT !.pc = "next", !.customer = None, !.row = NoRow, !.at = 0]]

\* Mutation: dry runs are counted like real ones (dispatch.ts:49-55 says they are).
CountsBothModes(d) == d \in Dispatchers

\* Only a real dispatch increments the counters.
Counts(d) == ~disp[d].dryRun

\* The rows are leased and counted, and the transaction commits.  A row inserted
\* by another transaction meanwhile turns the insert into an update, after the
\* lock on it is released.
CommitClaim(d) ==
    LET c == disp[d].customer
        k == BatchSize(d)
        w == disp[d].window
        t == disp[d].at
    IN  /\ disp[d].pc = "claim"
        /\ k > 0
        /\ lock[c] \in {None, d}
        /\ backlog' = [backlog EXCEPT ![c] = @ - k]
        /\ IF Counts(d)
           THEN throttle' = [throttle EXCEPT ![c] = Counted(@, k, w, t)]
           ELSE UNCHANGED throttle
        /\ IF disp[d].dryRun THEN UNCHANGED ledger
           ELSE /\ granted' = [granted EXCEPT ![c][currentWindowStart(t)] = @ + k]
                /\ weekly' = [weekly EXCEPT ![c][currentWeekStart(t)] = @ + k]
                /\ lastGrant' = [lastGrant EXCEPT ![c] = t]
        /\ lock' = Unlocked(d)
        /\ disp' = NextCustomer(d)
        /\ UNCHANGED now

\* Nothing to lease, or the transaction fails and is rolled back: the
\* per-customer catch goes on with the next customer.
AbandonClaim(d) ==
    /\ disp[d].pc = "claim"
    /\ lock' = Unlocked(d)
    /\ disp' = NextCustomer(d)
    /\ UNCHANGED <<now, throttle, backlog, ledger>>

\* A read of counters or customers fails and the channel is skipped, or the
\* process dies and its transaction is rolled back.
GiveUp(d) ==
    /\ disp[d].pc # "idle"
    /\ lock' = Unlocked(d)
    /\ disp' = [disp EXCEPT ![d] = Idle]
    /\ UNCHANGED <<now, throttle, backlog, ledger>>

Next ==
    \/ Tick
    \/ \E c \in Customers : NewRow(c)
    \/ \E d \in Dispatchers :
        \/ \E dry \in DryRunModes : StartDispatch(d, dry)
        \/ Estimate(d)
        \/ SkipChannel(d)
        \/ ListCustomers(d)
        \/ \E c \in Customers : BeginClaim(d, c)
        \/ CommitClaim(d)
        \/ AbandonClaim(d)
        \/ FinishDispatch(d)
        \/ GiveUp(d)

Spec == Init /\ [][Next]_vars

-----------------------------------------------------------------------------
(* Properties *)

\* However many dispatchers run, no customer gets more than max_per_day rows on
\* one day (dispatch.ts:41, DESIGN-phase3.md:193).
DailyCap == \A c \in Customers, w \in Windows : granted[c][w] <= MaxPerDay

\* The same for max_per_week, which batches of several days use up together.
WeeklyCap == \A c \in Customers, w \in Weeks : weekly[c][w] <= MaxPerWeek

\* Both caps bind whatever batches, dispatchers and the roll-over of days and weeks do.
CapsHold == DailyCap /\ WeeklyCap

\* The counter row tells how much of its window and of its week is spent, as if
\* every lease of the customer had been counted one by one; dry runs do not show.
CountersMatchLedger ==
    \A c \in Customers :
        throttle[c].exists =>
            /\ throttle[c].count = granted[c][throttle[c].window]
            /\ throttle[c].weekCount = weekly[c][throttle[c].week]
            /\ throttle[c].last = lastGrant[c]

\* A customer's real batches are at least min_interval apart.
BatchesAreSpaced ==
    [][\A c \in Customers :
        lastGrant'[c] # lastGrant[c] => lastGrant'[c] >= lastGrant[c] + MinInterval]_vars

-----------------------------------------------------------------------------
(* Why the caps hold: the inductive invariant *)

\* The counters of a customer are the ledger of their window and week, nothing was
\* leased in a later one, and no lease lies in the future.
CounterOk(c) ==
    LET row == throttle[c] IN
    /\ row.exists
    /\ row.window = currentWindowStart(row.last)
    /\ row.week = currentWeekStart(row.last)
    /\ row.last <= now
    /\ row.count = granted[c][row.window]
    /\ row.weekCount = weekly[c][row.week]
    /\ row.last = lastGrant[c]
    /\ \A w \in Windows : w > row.window => granted[c][w] = 0
    /\ \A w \in Weeks : w > row.week => weekly[c][w] = 0

\* A transaction holds the row lock and works on what the row still says, on the day
\* its dispatch has taken for today.
ClaimOk(d) ==
    LET c == disp[d].customer IN
    /\ c \in Customers
    /\ lock[c] = d
    /\ disp[d].row = throttle[c]
    /\ disp[d].row.last <= disp[d].at
    /\ disp[d].at <= now
    /\ currentWindowStart(disp[d].at) = disp[d].window

BudgetInv ==
    /\ now <= MaxTime
    /\ \A c \in Customers : CounterOk(c)
    /\ \A d \in Dispatchers : disp[d].pc # "idle" => disp[d].window = currentWindowStart(now)
    /\ \A d \in Dispatchers : disp[d].pc = "claim" => ClaimOk(d)
    /\ CapsHold

=============================================================================
