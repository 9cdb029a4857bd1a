------------------------------ MODULE Throttle ------------------------------
(***************************************************************************)
(* The naturalness throttle of src/deploy/throttle.ts and the arithmetic   *)
(* of the claim transaction in src/db/repo.ts: one policy, one counter     *)
(* row, and an instant.  Instants are ticks since a Monday, 00:00 UTC; a   *)
(* window or a week is named by its number, not by the instant it starts.  *)
(***************************************************************************)
EXTENDS Naturals

CONSTANTS
    MaxPerDay, MaxPerWeek,  \* channel_throttle.max_per_day, max_per_week
    MinInterval,            \* channel_throttle.min_interval_minutes, in ticks
    TicksPerDay, DaysPerWeek

ASSUME ThrottleAssumption ==
    /\ MaxPerDay \in Nat /\ MaxPerWeek \in Nat /\ MinInterval \in Nat
    /\ TicksPerDay \in Nat \ {0} /\ DaysPerWeek \in Nat \ {0}

\* channel_throttle_state: "no row yet", or the counters and the last publish.
NoRow == [window |-> 0, count |-> 0, week |-> 0, weekCount |-> 0, last |-> 0, exists |-> FALSE]
Rows  == [window: Nat, count: Nat, week: Nat, weekCount: Nat, last: Nat, exists: BOOLEAN]

Lesser(m, n) == IF m <= n THEN m ELSE n
Minus(m, n)  == IF m <= n THEN 0 ELSE m - n

currentWindowStart(t) == t \div TicksPerDay
currentWeekStart(t)   == (t \div TicksPerDay) \div DaysPerWeek

\* Counters of an older window or week count for nothing.
TodayCount(row, window) == IF row.exists /\ row.window >= window THEN row.count ELSE 0
WeekCount(row, week)    == IF row.exists /\ row.week >= week THEN row.weekCount ELSE 0

TooSoon(row, t) == MinInterval > 0 /\ row.exists /\ t < row.last + MinInterval

computeRemainingBudget(row, window) == Minus(MaxPerDay, TodayCount(row, window))

\* canPublishNow(...).allowed, for an enabled policy.
canPublishNow(row, t) ==
    /\ TodayCount(row, currentWindowStart(t)) < MaxPerDay
    /\ WeekCount(row, currentWeekStart(t)) < MaxPerWeek
    /\ ~TooSoon(row, t)

\* Mutation: the weekly cap is only checked, not subtracted from the batch size.
ClaimLimitDailyOnly(row, limit, window, t) ==
    IF \/ WeekCount(row, currentWeekStart(t)) >= MaxPerWeek
       \/ TooSoon(row, t)
    THEN 0 ELSE Lesser(limit, Minus(MaxPerDay, TodayCount(row, window)))
\* Mutation: the interval check is missing from the claim transaction.
ClaimLimitNoInterval(row, limit, window, t) ==
    Lesser(limit, Lesser(Minus(MaxPerDay, TodayCount(row, window)),
                         Minus(MaxPerWeek, WeekCount(row, currentWeekStart(t)))))

\* How many rows claimNextDeployBatchForCustomer may lease: the window is the
\* dispatcher's, the week and the interval go by the transaction's own clock.
ClaimLimit(row, limit, window, t) ==
    IF TooSoon(row, t) THEN 0
    ELSE Lesser(limit, Lesser(Minus(MaxPerDay, TodayCount(row, window)),
                              Minus(MaxPerWeek, WeekCount(row, currentWeekStart(t)))))

\* The upsert at the end of the transaction.
Counted(row, k, window, t) ==
    [window    |-> window,
     count     |-> k + (IF row.exists /\ row.window = window THEN row.count ELSE 0),
     week      |-> currentWeekStart(t),
     weekCount |-> k + (IF row.exists /\ row.week = currentWeekStart(t)
                        THEN row.weekCount ELSE 0),
     last      |-> t,
     exists    |-> TRUE]

=============================================================================
