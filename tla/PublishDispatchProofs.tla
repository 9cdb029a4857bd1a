----------------------- MODULE PublishDispatchProofs ------------------------
(***************************************************************************)
(* Proofs about PublishDispatch, for any sets of customers and             *)
(* dispatchers, any policy and any length of the days and weeks: types     *)
(* always, the budget of a channel where every customer has a counter row  *)
(* and no dispatch spans midnight, and that the throttle's two             *)
(* implementations, canPublishNow and the claim's SQL, agree.              *)
(***************************************************************************)
EXTENDS PublishDispatch, TLAPS

\* What the code needs for its caps: counter rows to lock, which the first real publish
\* of a customer leaves behind, and dispatches that end on the day they began.
Settled ==
    /\ PublishedBefore /\ ~SpansMidnight
    /\ MaxPerDay > 0 /\ MaxPerWeek > 0

-----------------------------------------------------------------------------
(* The arithmetic of days, weeks and counters *)

LEMMA DivNat ==
    ASSUME NEW a \in Nat, NEW n \in Nat \ {0}
    PROVE  a \div n \in Nat
OBVIOUS

LEMMA DivMonotone ==
    ASSUME NEW a \in Nat, NEW b \in Nat, a <= b, NEW n \in Nat \ {0}
    PROVE  a \div n <= b \div n
OBVIOUS

\* An earlier instant has no later window and no later week.
LEMMA WindowsInOrder ==
    ASSUME NEW s \in Nat, NEW t \in Nat, s <= t
    PROVE  /\ currentWindowStart(s) \in Nat /\ currentWeekStart(s) \in Nat
           /\ currentWindowStart(s) <= currentWindowStart(t)
           /\ currentWeekStart(s) <= currentWeekStart(t)
<1>1. /\ currentWindowStart(s) \in Nat /\ currentWindowStart(t) \in Nat
      /\ currentWindowStart(s) <= currentWindowStart(t)
  BY ThrottleAssumption, DivNat, DivMonotone DEF currentWindowStart
<1>2. /\ currentWeekStart(s) \in Nat
      /\ currentWeekStart(s) <= currentWeekStart(t)
  BY <1>1, ThrottleAssumption, DivNat, DivMonotone DEF currentWindowStart, currentWeekStart
<1> QED
  BY <1>1, <1>2

\* Instants up to MaxTime fall into the windows and weeks of the ledger.
LEMMA InLedger ==
    ASSUME NEW t \in Nat, t <= MaxTime
    PROVE  currentWindowStart(t) \in Windows /\ currentWeekStart(t) \in Weeks
BY WindowsInOrder, DispatchAssumption DEF Windows, Weeks

\* The window tells the week.
LEMMA WeekOfWindow ==
    ASSUME NEW s \in Nat, NEW t \in Nat, currentWindowStart(s) = currentWindowStart(t)
    PROVE  currentWeekStart(s) = currentWeekStart(t)
BY DEF currentWindowStart, currentWeekStart

LEMMA CountedType ==
    ASSUME NEW row \in Rows, NEW k \in Nat, NEW w \in Nat, NEW t \in Nat
    PROVE  Counted(row, k, w, t) \in Rows
<1>1. currentWeekStart(t) \in Nat
  BY WindowsInOrder
<1> QED
  BY <1>1 DEF Counted, Rows

LEMMA CountedFields ==
    ASSUME NEW row, NEW k, NEW w, NEW t
    PROVE  LET n == Counted(row, k, w, t)
               v == currentWeekStart(t)
           IN /\ n.window = w /\ n.week = v /\ n.last = t /\ n.exists
              /\ n.count = k + (IF row.exists /\ row.window = w THEN row.count ELSE 0)
              /\ n.weekCount = k + (IF row.exists /\ row.week = v THEN row.weekCount ELSE 0)
BY DEF Counted

LEMMA OldRowType == NoRow \in Rows /\ OldRow \in Rows
<1>1. NoRow \in Rows
  BY DEF NoRow, Rows
<1> QED
  BY <1>1, CountedType DEF OldRow

LEMMA LimitType ==
    ASSUME NEW row \in Rows, NEW limit \in Nat, NEW w \in Nat, NEW t \in Nat
    PROVE  /\ ClaimLimit(row, limit, w, t) \in Nat
           /\ computeRemainingBudget(row, w) \in Nat
BY ThrottleAssumption
   DEF ClaimLimit, computeRemainingBudget, TodayCount, WeekCount, Lesser, Minus, Rows

\* What a claim may lease keeps both caps, and is nothing before the interval is over.
LEMMA LimitKeepsCaps ==
    ASSUME NEW row \in Rows, NEW limit \in Nat, NEW w \in Nat, NEW t \in Nat,
           NEW k \in Nat, k > 0, k <= ClaimLimit(row, limit, w, t)
    PROVE  /\ ~TooSoon(row, t)
           /\ k + TodayCount(row, w) <= MaxPerDay
           /\ k + WeekCount(row, currentWeekStart(t)) <= MaxPerWeek
<1>1. TodayCount(row, w) \in Nat /\ WeekCount(row, currentWeekStart(t)) \in Nat
  BY DEF TodayCount, WeekCount, Rows
<1>2. ~TooSoon(row, t)
  BY DEF ClaimLimit
<1>3. /\ k <= Minus(MaxPerDay, TodayCount(row, w))
      /\ k <= Minus(MaxPerWeek, WeekCount(row, currentWeekStart(t)))
  <2> DEFINE day == Minus(MaxPerDay, TodayCount(row, w))
             week == Minus(MaxPerWeek, WeekCount(row, currentWeekStart(t)))
  <2>1. day \in Nat /\ week \in Nat
    BY <1>1, ThrottleAssumption DEF Minus
  <2>2. k <= Lesser(limit, Lesser(day, week))
    BY <1>2 DEF ClaimLimit
  <2> HIDE DEF day, week
  <2>3. k <= day /\ k <= week
    BY <2>1, <2>2 DEF Lesser
  <2> QED
    BY <2>3 DEF day, week
<1> QED
  BY <1>1, <1>2, <1>3, ThrottleAssumption DEF Minus

-----------------------------------------------------------------------------
(* Types *)

\* Leaving a transaction or a dispatch keeps locks and dispatchers well typed.
LEMMA LeaveType ==
    ASSUME TypeOK, NEW d \in Dispatchers
    PROVE  /\ Unlocked(d) \in [Customers -> Dispatchers \cup {None}]
           /\ NextCustomer(d) \in [Dispatchers -> DispatcherType]
           /\ [disp EXCEPT ![d] = Idle] \in [Dispatchers -> DispatcherType]
<1>1. Unlocked(d) \in [Customers -> Dispatchers \cup {None}]
  BY DEF TypeOK, Unlocked
<1>2. [disp[d] EXCEPT !.pc = "next", !.customer = None, !.row = NoRow, !.at = 0]
        \in DispatcherType
  BY OldRowType DEF TypeOK, DispatcherType
<1>3. Idle \in DispatcherType
  BY OldRowType DEF Idle, DispatcherType
<1> QED
  BY <1>1, <1>2, <1>3 DEF TypeOK, NextCustomer

\* What a claim leases is a number of rows that are there.
LEMMA BatchType ==
    ASSUME TypeOK, NEW d \in Dispatchers, disp[d].customer \in Customers
    PROVE  /\ BatchSize(d) \in Nat
           /\ BatchSize(d) <= backlog[disp[d].customer]
           /\ BatchSize(d) <= ClaimLimit(disp[d].row, disp[d].estimate, disp[d].window, disp[d].at)
<1>1. backlog[disp[d].customer] \in Nat
  BY DispatchAssumption DEF TypeOK
<1>2. disp[d] \in DispatcherType
  BY DEF TypeOK
<1>3. ClaimLimit(disp[d].row, disp[d].estimate, disp[d].window, disp[d].at) \in Nat
  BY <1>2, LimitType DEF DispatcherType
<1> QED
  BY <1>1, <1>3 DEF BatchSize, Lesser

\* A customer is named in a transaction only.
Named == \A d \in Dispatchers : disp[d].pc = "claim" => disp[d].customer \in Customers

LEMMA TypeInit == ASSUME Init PROVE TypeOK /\ Named
<1>1. throttle \in [Customers -> Rows]
  BY OldRowType DEF Init
<1>2. disp \in [Dispatchers -> DispatcherType]
  BY OldRowType DEF Init, Idle, DispatcherType
<1>3. now \in Nat /\ lock \in [Customers -> Dispatchers \cup {None}]
  BY DispatchAssumption DEF Init
<1>4. backlog \in [Customers -> 0..MaxBacklog] /\ lastGrant \in [Customers -> Nat]
  BY DispatchAssumption DEF Init
<1>5. granted \in [Customers -> [Windows -> Nat]] /\ weekly \in [Customers -> [Weeks -> Nat]]
  BY DEF Init
<1>6. Named
  BY DEF Init, Named, Idle
<1> QED
  BY <1>1, <1>2, <1>3, <1>4, <1>5, <1>6 DEF TypeOK

\* A dispatcher that is in no transaction names nobody.
LEMMA NamedOutside ==
    ASSUME Named, TypeOK, NEW d \in Dispatchers, NEW s, s.pc # "claim",
           disp' = [disp EXCEPT ![d] = s]
    PROVE  Named'
BY DEF Named, TypeOK

LEMMA TypeClock == ASSUME TypeOK, Named, Tick PROVE TypeOK' /\ Named'
BY DEF TypeOK, Named, Tick, ledger

LEMMA TypeNewRow ==
    ASSUME TypeOK, Named, NEW c \in Customers, NewRow(c)
    PROVE  TypeOK' /\ Named'
BY DispatchAssumption DEF TypeOK, Named, NewRow, ledger

LEMMA TypeDispatch ==
    ASSUME TypeOK, Named, NEW d \in Dispatchers,
           \/ \E dry \in DryRunModes : StartDispatch(d, dry)
           \/ Estimate(d) \/ SkipChannel(d) \/ ListCustomers(d) \/ FinishDispatch(d)
    PROVE  TypeOK' /\ Named'
<1>0. disp[d] \in DispatcherType /\ now \in Nat
  BY DEF TypeOK
<1>1. ASSUME NEW dry \in DryRunModes, StartDispatch(d, dry) PROVE TypeOK' /\ Named'
  <2>1. currentWindowStart(now) \in Nat
    BY <1>0, WindowsInOrder
  <2>2. [Idle EXCEPT !.pc = "estimate", !.dryRun = dry, !.window = currentWindowStart(now)]
          \in DispatcherType
    BY <2>1, OldRowType, DispatchAssumption DEF Idle, DispatcherType
  <2> QED
    BY <1>1, <2>2 DEF TypeOK, Named, StartDispatch, ledger, Idle
<1>2. ASSUME Estimate(d) PROVE TypeOK' /\ Named'
  <2>1. computeRemainingBudget(throttle[Generic], disp[d].window) \in Nat
    BY <1>0, LimitType, DispatchAssumption DEF TypeOK, DispatcherType
  <2> DEFINE e == computeRemainingBudget(throttle[Generic], disp[d].window)
  <2> HIDE DEF e
  <2>2. [disp[d] EXCEPT !.pc = "customers", !.estimate = e] \in DispatcherType
    BY <1>0, <2>1 DEF DispatcherType, e
  <2>3. disp' = [disp EXCEPT ![d] = [disp[d] EXCEPT !.pc = "customers", !.estimate = e]]
    BY <1>2 DEF Estimate, e
  <2> QED
    BY <1>2, <2>2, <2>3 DEF TypeOK, Named, Estimate, ledger, DispatcherType
<1>3. ASSUME SkipChannel(d) \/ FinishDispatch(d) PROVE TypeOK' /\ Named'
  <2>1. Idle.pc # "claim" /\ disp' = [disp EXCEPT ![d] = Idle]
    BY <1>3 DEF SkipChannel, FinishDispatch, Idle
  <2>2. Named'
    BY <2>1, NamedOutside
  <2>3. UNCHANGED <<now, throttle, lock, backlog, granted, weekly, lastGrant>>
    BY <1>3 DEF SkipChannel, FinishDispatch, ledger
  <2> QED
    BY <2>1, <2>2, <2>3, LeaveType DEF TypeOK
<1>4. ASSUME ListCustomers(d) PROVE TypeOK' /\ Named'
  <2>1. [disp[d] EXCEPT !.pc = "next", !.todo = {c \in Customers : backlog[c] > 0}]
          \in DispatcherType
    BY <1>0 DEF DispatcherType
  <2> QED
    BY <1>4, <2>1 DEF TypeOK, Named, ListCustomers, ledger, DispatcherType
<1> QED
  BY <1>1, <1>2, <1>3, <1>4

LEMMA TypeBegin ==
    ASSUME TypeOK, Named, NEW d \in Dispatchers, NEW c \in Customers, BeginClaim(d, c)
    PROVE  TypeOK' /\ Named'
<1>1. disp[d] \in DispatcherType /\ throttle[c] \in Rows /\ now \in Nat
  BY DEF TypeOK
<1>2. [disp[d] EXCEPT !.pc = "claim", !.todo = disp[d].todo \ {c}, !.customer = c,
                      !.row = throttle[c], !.at = now] \in DispatcherType
  BY <1>1 DEF DispatcherType
<1>3. lock' \in [Customers -> Dispatchers \cup {None}]
  BY DEF TypeOK, BeginClaim
<1> QED
  BY <1>2, <1>3 DEF TypeOK, Named, BeginClaim, ledger, DispatcherType

\* Adding to one entry of a counter.
LEMMA AddsToEntry ==
    ASSUME NEW S, NEW f \in [S -> Nat], NEW x, NEW k \in Nat
    PROVE  [f EXCEPT ![x] = @ + k] \in [S -> Nat]
<1>1. CASE x \in S
  BY <1>1
<1>2. CASE x \notin S
  <2>1. [f EXCEPT ![x] = @ + k] = f
    BY <1>2
  <2> QED
    BY <2>1
<1> QED
  BY <1>1, <1>2

LEMMA TypeCommit ==
    ASSUME TypeOK, Named, NEW d \in Dispatchers, CommitClaim(d)
    PROVE  TypeOK' /\ Named'
<1> DEFINE c == disp[d].customer
           k == BatchSize(d)
           t == disp[d].at
<1>1. c \in Customers /\ disp[d] \in DispatcherType
  BY DEF TypeOK, Named, CommitClaim
<1>2. k \in Nat /\ k <= backlog[c] /\ t \in Nat /\ disp[d].window \in Nat
  BY <1>1, BatchType DEF DispatcherType
<1>3. Unlocked(d) \in [Customers -> Dispatchers \cup {None}]
      /\ NextCustomer(d) \in [Dispatchers -> DispatcherType]
  BY LeaveType
<1> HIDE DEF k
<1>4. backlog' \in [Customers -> 0..MaxBacklog]
  <2>1. backlog' = [backlog EXCEPT ![c] = @ - k]
    BY DEF CommitClaim, k
  <2>2. backlog[c] - k \in 0..MaxBacklog
    BY <1>1, <1>2, DispatchAssumption DEF TypeOK
  <2> QED
    BY <1>1, <2>1, <2>2 DEF TypeOK
<1>5. throttle' \in [Customers -> Rows]
  <2>1. CASE Counts(d)
    <3>1. throttle' = [throttle EXCEPT ![c] = Counted(@, k, disp[d].window, t)]
      BY <2>1 DEF CommitClaim, k
    <3>2. Counted(throttle[c], k, disp[d].window, t) \in Rows
      BY <1>1, <1>2, CountedType DEF TypeOK
    <3> QED
      BY <1>1, <3>1, <3>2 DEF TypeOK
  <2> QED
    BY <2>1 DEF TypeOK, CommitClaim
<1>6. /\ granted' \in [Customers -> [Windows -> Nat]]
      /\ weekly' \in [Customers -> [Weeks -> Nat]]
      /\ lastGrant' \in [Customers -> Nat]
  <2>1. CASE disp[d].dryRun
    BY <2>1 DEF TypeOK, CommitClaim, ledger
  <2>2. CASE ~disp[d].dryRun
    <3>1. /\ granted' = [granted EXCEPT ![c][currentWindowStart(t)] = @ + k]
          /\ weekly' = [weekly EXCEPT ![c][currentWeekStart(t)] = @ + k]
          /\ lastGrant' = [lastGrant EXCEPT ![c] = t]
      BY <2>2 DEF CommitClaim, k
    <3>2. granted' \in [Customers -> [Windows -> Nat]]
      <4> DEFINE new == [granted[c] EXCEPT ![currentWindowStart(t)] = @ + k]
      <4>1. new \in [Windows -> Nat]
        BY <1>1, <1>2, AddsToEntry DEF TypeOK
      <4>2. granted' = [granted EXCEPT ![c] = new]
        BY <3>1
      <4> HIDE DEF new
      <4> QED
        BY <1>1, <4>1, <4>2 DEF TypeOK
    <3>3. weekly' \in [Customers -> [Weeks -> Nat]]
      <4> DEFINE new == [weekly[c] EXCEPT ![currentWeekStart(t)] = @ + k]
      <4>1. new \in [Weeks -> Nat]
        BY <1>1, <1>2, AddsToEntry DEF TypeOK
      <4>2. weekly' = [weekly EXCEPT ![c] = new]
        BY <3>1
      <4> HIDE DEF new
      <4> QED
        BY <1>1, <4>1, <4>2 DEF TypeOK
    <3>4. lastGrant' \in [Customers -> Nat]
      BY <1>1, <1>2, <3>1 DEF TypeOK
    <3> QED
      BY <3>2, <3>3, <3>4
  <2> QED
    BY <2>1, <2>2
<1>7. now' = now /\ lock' = Unlocked(d) /\ disp' = NextCustomer(d)
  BY DEF CommitClaim
<1>8. TypeOK'
  BY <1>3, <1>4, <1>5, <1>6, <1>7 DEF TypeOK
<1>9. /\ disp'[d].pc = "next"
      /\ \A e \in Dispatchers \ {d} : disp'[e] = disp[e]
  BY <1>7 DEF TypeOK, NextCustomer, DispatcherType
<1> QED
  BY <1>8, <1>9 DEF Named

LEMMA TypeLeave ==
    ASSUME TypeOK, Named, NEW d \in Dispatchers, AbandonClaim(d) \/ GiveUp(d)
    PROVE  TypeOK' /\ Named'
<1>1. /\ lock' = Unlocked(d) /\ disp' \in {NextCustomer(d), [disp EXCEPT ![d] = Idle]}
      /\ UNCHANGED <<now, throttle, backlog, granted, weekly, lastGrant>>
  BY DEF AbandonClaim, GiveUp, ledger
<1>2. TypeOK'
  BY <1>1, LeaveType DEF TypeOK
<1>3. \A e \in Dispatchers \ {d} : disp'[e] = disp[e]
  BY <1>1 DEF TypeOK, NextCustomer
<1>4. disp'[d].pc \in {"idle", "next"}
  <2>0. disp[d] \in DispatcherType
    BY DEF TypeOK
  <2>1. [disp[d] EXCEPT !.pc = "next", !.customer = None, !.row = NoRow, !.at = 0].pc = "next"
    BY <2>0 DEF DispatcherType
  <2>2. CASE disp' = NextCustomer(d)
    BY <2>1, <2>2 DEF TypeOK, NextCustomer
  <2>3. CASE disp' = [disp EXCEPT ![d] = Idle]
    BY <2>3 DEF TypeOK, Idle
  <2> QED
    BY <1>1, <2>2, <2>3
<1> QED
  BY <1>2, <1>3, <1>4 DEF Named

LEMMA TypeStep == ASSUME TypeOK, Named, [Next]_vars PROVE TypeOK' /\ Named'
<1>1. CASE UNCHANGED vars
  BY <1>1 DEF TypeOK, Named, vars
<1>2. CASE Next
  BY <1>2, TypeClock, TypeNewRow, TypeDispatch, TypeBegin, TypeCommit, TypeLeave DEF Next
<1> QED
  BY <1>1, <1>2

\* Every reachable state is well typed, whatever is configured: counters stay natural
\* numbers, the ledger keeps its days, and a transaction is always about a customer.
THEOREM TypeCorrect == Spec => []TypeOK
<1>1. Init => TypeOK /\ Named
  BY TypeInit
<1>2. TypeOK /\ Named /\ [Next]_vars => (TypeOK /\ Named)'
  BY TypeStep
<1> QED
  BY <1>1, <1>2, PTL DEF Spec

-----------------------------------------------------------------------------
(* The budget *)

Ok == TypeOK /\ Named /\ BudgetInv

\* A row that has not moved stays right while time passes.
LEMMA CounterStays ==
    ASSUME Ok, NEW c \in Customers, now' \in Nat, now <= now',
           throttle'[c] = throttle[c], granted'[c] = granted[c],
           weekly'[c] = weekly[c], lastGrant'[c] = lastGrant[c]
    PROVE  CounterOk(c)'
<1>1. CounterOk(c) /\ throttle[c].last \in Nat /\ now \in Nat
  BY DEF Ok, BudgetInv, TypeOK, Rows
<1> QED
  BY <1>1 DEF CounterOk

\* So does a transaction whose row nobody else could touch.
LEMMA ClaimStays ==
    ASSUME Ok, NEW d \in Dispatchers, ClaimOk(d), now' \in Nat, now <= now',
           disp'[d] = disp[d], lock'[disp[d].customer] = d,
           throttle'[disp[d].customer] = throttle[disp[d].customer]
    PROVE  ClaimOk(d)'
<1>1. disp[d].at \in Nat /\ now \in Nat
  BY DEF Ok, TypeOK, DispatcherType
<1> QED
  BY <1>1 DEF ClaimOk

\* Two transactions are about two customers.
LEMMA ClaimsAreApart ==
    ASSUME Ok, NEW d \in Dispatchers, NEW e \in Dispatchers, d # e,
           disp[d].pc = "claim", disp[e].pc = "claim"
    PROVE  disp[d].customer # disp[e].customer
BY DEF Ok, BudgetInv, ClaimOk

LEMMA BudgetInit == ASSUME Settled, Init PROVE BudgetInv
<1>1. currentWindowStart(0) = 0 /\ currentWeekStart(0) = 0
  BY ThrottleAssumption DEF currentWindowStart, currentWeekStart
<1>2. /\ OldRow.window = 0 /\ OldRow.week = 0 /\ OldRow.last = 0 /\ OldRow.exists
      /\ OldRow.count = 1 /\ OldRow.weekCount = 1
  <2>1. ~NoRow.exists
    BY DEF NoRow
  <2> QED
    BY <1>1, <2>1, CountedFields DEF OldRow
<1>3. 0 \in Windows /\ 0 \in Weeks
  BY <1>1, InLedger, DispatchAssumption
<1>4. \A c \in Customers : CounterOk(c)
  BY <1>1, <1>2, <1>3, DispatchAssumption DEF Settled, Init, CounterOk, Windows, Weeks
<1>5. CapsHold
  BY <1>3, ThrottleAssumption DEF Settled, Init, CapsHold, DailyCap, WeeklyCap
<1> QED
  BY <1>4, <1>5, DispatchAssumption DEF Init, BudgetInv, Idle

LEMMA BudgetClock == ASSUME Settled, Ok, Tick PROVE BudgetInv'
<1>1. now \in Nat /\ now' = now + 1 /\ now' <= MaxTime
  BY DispatchAssumption DEF Ok, TypeOK, Tick
<1>2. UNCHANGED <<throttle, lock, backlog, disp, granted, weekly, lastGrant>>
  BY DEF Tick, ledger
<1>3. \A c \in Customers : CounterOk(c)'
  BY <1>1, <1>2, CounterStays
<1>4. ASSUME NEW d \in Dispatchers, disp'[d].pc # "idle"
      PROVE  disp'[d].window = currentWindowStart(now')
  BY <1>1, <1>2, <1>4 DEF Settled, Ok, BudgetInv, Tick
<1>5. ASSUME NEW d \in Dispatchers, disp'[d].pc = "claim"
      PROVE  ClaimOk(d)'
  <2>1. ClaimOk(d)
    BY <1>2, <1>5 DEF Ok, BudgetInv
  <2> QED
    BY <1>1, <1>2, <2>1, ClaimStays DEF ClaimOk
<1>6. CapsHold'
  BY <1>2 DEF Ok, BudgetInv, CapsHold, DailyCap, WeeklyCap
<1> QED
  BY <1>1, <1>3, <1>4, <1>5, <1>6 DEF BudgetInv

\* A step of one dispatcher that leaves counters and ledger alone, moves to no claim and
\* takes nobody's lock but its own.
LEMMA BudgetQuiet ==
    ASSUME Ok, NEW d \in Dispatchers, NEW s,
           disp' = [disp EXCEPT ![d] = s], s.pc # "claim",
           s.pc # "idle" => s.window = currentWindowStart(now),
           lock' \in {lock, Unlocked(d)},
           UNCHANGED <<now, throttle, ledger>>
    PROVE  BudgetInv'
<1>1. /\ disp'[d] = s
      /\ \A e \in Dispatchers \ {d} : disp'[e] = disp[e]
  BY DEF Ok, TypeOK
<1>2. now \in Nat /\ UNCHANGED <<now, throttle, granted, weekly, lastGrant>>
  BY DEF Ok, TypeOK, ledger
<1>3. \A c \in Customers : CounterOk(c)'
  BY <1>2, CounterStays
<1>4. ASSUME NEW e \in Dispatchers, disp'[e].pc # "idle"
      PROVE  disp'[e].window = currentWindowStart(now')
  BY <1>1, <1>2, <1>4 DEF Ok, BudgetInv
<1>5. ASSUME NEW e \in Dispatchers, disp'[e].pc = "claim"
      PROVE  ClaimOk(e)'
  <2>1. e # d /\ disp'[e] = disp[e]
    BY <1>1, <1>5
  <2>2. ClaimOk(e)
    BY <1>5, <2>1 DEF Ok, BudgetInv
  <2>3. lock'[disp[e].customer] = e
    BY <2>1, <2>2 DEF ClaimOk, Unlocked
  <2> QED
    BY <1>2, <2>1, <2>2, <2>3, ClaimStays
<1>6. CapsHold'
  BY <1>2 DEF Ok, BudgetInv, CapsHold, DailyCap, WeeklyCap
<1> QED
  BY <1>2, <1>3, <1>4, <1>5, <1>6 DEF Ok, BudgetInv

LEMMA BudgetDispatch ==
    ASSUME Ok, NEW d \in Dispatchers,
           \/ \E dry \in DryRunModes : StartDispatch(d, dry)
           \/ Estimate(d) \/ SkipChannel(d) \/ ListCustomers(d) \/ FinishDispatch(d)
           \/ AbandonClaim(d) \/ GiveUp(d)
    PROVE  BudgetInv'
<1>0. /\ disp[d] \in DispatcherType
      /\ disp[d].pc # "idle" => disp[d].window = currentWindowStart(now)
  BY DEF Ok, TypeOK, BudgetInv
<1>1. ASSUME NEW dry \in DryRunModes, StartDispatch(d, dry) PROVE BudgetInv'
  <2> DEFINE s == [Idle EXCEPT !.pc = "estimate", !.dryRun = dry,
                               !.window = currentWindowStart(now)]
  <2>1. s.pc = "estimate" /\ s.window = currentWindowStart(now)
    BY DEF Idle
  <2>2. disp' = [disp EXCEPT ![d] = s] /\ UNCHANGED <<now, throttle, lock, ledger>>
    BY <1>1 DEF StartDispatch
  <2> HIDE DEF s
  <2> QED
    BY <2>1, <2>2, BudgetQuiet
<1>2. ASSUME Estimate(d) PROVE BudgetInv'
  <2> DEFINE s == [disp[d] EXCEPT !.pc = "customers",
                      !.estimate = computeRemainingBudget(throttle[Generic], disp[d].window)]
  <2>1. s.pc = "customers" /\ s.window = disp[d].window
    BY <1>0 DEF DispatcherType
  <2>2. disp' = [disp EXCEPT ![d] = s] /\ UNCHANGED <<now, throttle, lock, ledger>>
    BY <1>2 DEF Estimate
  <2>3. disp[d].pc # "idle"
    BY <1>2 DEF Estimate
  <2> HIDE DEF s
  <2> QED
    BY <1>0, <2>1, <2>2, <2>3, BudgetQuiet
<1>3. ASSUME ListCustomers(d) PROVE BudgetInv'
  <2> DEFINE s == [disp[d] EXCEPT !.pc = "next", !.todo = {c \in Customers : backlog[c] > 0}]
  <2>1. s.pc = "next" /\ s.window = disp[d].window
    BY <1>0 DEF DispatcherType
  <2>2. disp' = [disp EXCEPT ![d] = s] /\ UNCHANGED <<now, throttle, lock, ledger>>
    BY <1>3 DEF ListCustomers
  <2>3. disp[d].pc # "idle"
    BY <1>3 DEF ListCustomers
  <2> HIDE DEF s
  <2> QED
    BY <1>0, <2>1, <2>2, <2>3, BudgetQuiet
<1>4. ASSUME SkipChannel(d) \/ FinishDispatch(d) \/ GiveUp(d) PROVE BudgetInv'
  <2>1. /\ disp' = [disp EXCEPT ![d] = Idle] /\ lock' \in {lock, Unlocked(d)}
        /\ UNCHANGED <<now, throttle, ledger>>
    BY <1>4 DEF SkipChannel, FinishDispatch, GiveUp
  <2> QED
    <3>1. Idle.pc = "idle"
      BY DEF Idle
    <3> QED
      BY <2>1, <3>1, BudgetQuiet
<1>5. ASSUME AbandonClaim(d) PROVE BudgetInv'
  <2> DEFINE s == [disp[d] EXCEPT !.pc = "next", !.customer = None, !.row = NoRow, !.at = 0]
  <2>1. s.pc = "next" /\ s.window = disp[d].window
    BY <1>0 DEF DispatcherType
  <2>2. /\ disp' = [disp EXCEPT ![d] = s] /\ lock' = Unlocked(d)
        /\ UNCHANGED <<now, throttle, ledger>>
    BY <1>5 DEF AbandonClaim, NextCustomer
  <2>3. disp[d].pc # "idle"
    BY <1>5 DEF AbandonClaim
  <2> HIDE DEF s
  <2> QED
    BY <1>0, <2>1, <2>2, <2>3, BudgetQuiet
<1> QED
  BY <1>1, <1>2, <1>3, <1>4, <1>5

LEMMA BudgetNewRow ==
    ASSUME Ok, NEW c \in Customers, NewRow(c)
    PROVE  BudgetInv'
<1>1. UNCHANGED <<now, throttle, lock, disp, granted, weekly, lastGrant>>
  BY DEF NewRow, ledger
<1>2. \A b \in Customers : CounterOk(b)'
  BY <1>1, CounterStays DEF Ok, TypeOK
<1>3. \A d \in Dispatchers : disp[d].pc = "claim" => ClaimOk(d)'
  BY <1>1, ClaimStays DEF Ok, TypeOK, BudgetInv, ClaimOk
<1> QED
  BY <1>1, <1>2, <1>3 DEF Ok, BudgetInv, CapsHold, DailyCap, WeeklyCap

LEMMA BudgetBegin ==
    ASSUME Ok, NEW d \in Dispatchers, NEW c \in Customers, BeginClaim(d, c)
    PROVE  BudgetInv'
<1> DEFINE s == [disp[d] EXCEPT !.pc = "claim", !.todo = disp[d].todo \ {c}, !.customer = c,
                                !.row = throttle[c], !.at = now]
<1>1. /\ disp[d] \in DispatcherType /\ disp[d].pc = "next" /\ now \in Nat
      /\ disp[d].window = currentWindowStart(now)
  BY DEF Ok, TypeOK, BudgetInv, BeginClaim
<1>2. /\ s.pc = "claim" /\ s.window = disp[d].window /\ s.customer = c
      /\ s.row = throttle[c] /\ s.at = now
  BY <1>1 DEF DispatcherType
<1>3. disp' = [disp EXCEPT ![d] = s]
  BY DEF BeginClaim
<1> HIDE DEF s
<1>4. disp'[d] = s /\ \A e \in Dispatchers \ {d} : disp'[e] = disp[e]
  BY <1>3 DEF Ok, TypeOK
<1>5. CounterOk(c) /\ lock[c] = None /\ lock' = [lock EXCEPT ![c] = d]
  BY DEF Ok, BudgetInv, BeginClaim, MayRead, CounterOk
<1>6. UNCHANGED <<now, throttle, granted, weekly, lastGrant>>
  BY DEF BeginClaim, ledger
<1>7. \A b \in Customers : CounterOk(b)'
  BY <1>1, <1>6, CounterStays
<1>8. ASSUME NEW e \in Dispatchers, disp'[e].pc = "claim"
      PROVE  ClaimOk(e)'
  <2>1. CASE e = d
    <3>1. throttle[c].last <= now /\ lock'[c] = d
      BY <1>5 DEF CounterOk, Ok, TypeOK
    <3> QED
      BY <1>1, <1>2, <1>4, <1>6, <2>1, <3>1 DEF ClaimOk
  <2>2. CASE e # d
    <3>1. ClaimOk(e) /\ disp'[e] = disp[e]
      BY <1>4, <1>8, <2>2 DEF Ok, BudgetInv
    <3>2. lock'[disp[e].customer] = e
      BY <1>5, <3>1, DispatchAssumption DEF ClaimOk, None, Ok, TypeOK
    <3> QED
      BY <1>1, <1>6, <3>1, <3>2, ClaimStays
  <2> QED
    BY <2>1, <2>2
<1>9. \A e \in Dispatchers : disp'[e].pc # "idle" => disp'[e].window = currentWindowStart(now')
  BY <1>1, <1>2, <1>4, <1>6 DEF Ok, BudgetInv
<1> QED
  BY <1>6, <1>7, <1>8, <1>9 DEF Ok, BudgetInv, CapsHold, DailyCap, WeeklyCap

\* What a transaction that leases k rows can rely on: it counts what the ledger counts,
\* its day is today's, and the caps and the interval leave room for the batch.
LEMMA Leases ==
    ASSUME Ok, NEW d \in Dispatchers, CommitClaim(d)
    PROVE  LET c == disp[d].customer
               k == BatchSize(d)
               w == disp[d].window
               t == disp[d].at
               v == currentWeekStart(t)
           IN /\ c \in Customers /\ k \in Nat /\ t \in Nat /\ t <= now
              /\ w \in Windows /\ v \in Weeks /\ w = currentWindowStart(t)
              /\ throttle[c].window <= w /\ throttle[c].week <= v
              /\ throttle[c].last <= t
              /\ ~TooSoon(throttle[c], t)
              /\ granted[c][w] + k <= MaxPerDay
              /\ weekly[c][v] + k <= MaxPerWeek
<1> DEFINE c == disp[d].customer
           k == BatchSize(d)
           w == disp[d].window
           t == disp[d].at
           v == currentWeekStart(t)
           row == throttle[c]
<1>1. /\ disp[d] \in DispatcherType /\ ClaimOk(d) /\ c \in Customers /\ CounterOk(c)
      /\ row \in Rows /\ k > 0 /\ now \in Nat /\ now <= MaxTime
      /\ granted[c] \in [Windows -> Nat] /\ weekly[c] \in [Weeks -> Nat]
  BY DEF Ok, TypeOK, BudgetInv, CommitClaim, ClaimOk
<1>2. t \in Nat /\ t <= now /\ t <= MaxTime /\ disp[d].row = row /\ row.last <= t /\ row.last \in Nat
  BY <1>1, DispatchAssumption DEF DispatcherType, ClaimOk, Rows
<1>3. /\ w = currentWindowStart(t) /\ w \in Windows /\ v \in Weeks
      /\ row.window <= w /\ row.week <= v
  BY <1>1, <1>2, InLedger, WindowsInOrder DEF ClaimOk, CounterOk
<1>4. w \in Nat /\ v \in Nat /\ row.window \in Nat /\ row.week \in Nat
  BY <1>1, <1>2, <1>3, WindowsInOrder DEF Rows
<1>5. k \in Nat /\ k <= ClaimLimit(row, disp[d].estimate, w, t)
  BY <1>1, <1>2, BatchType DEF Ok
<1>6. TodayCount(row, w) = granted[c][w]
  BY <1>1, <1>3, <1>4 DEF TodayCount, CounterOk
<1>7. WeekCount(row, v) = weekly[c][v]
  BY <1>1, <1>3, <1>4 DEF WeekCount, CounterOk
<1>8. disp[d].estimate \in Nat
  BY <1>1 DEF DispatcherType
<1>9. /\ ~TooSoon(row, t)
      /\ k + TodayCount(row, w) <= MaxPerDay
      /\ k + WeekCount(row, v) <= MaxPerWeek
  <2> HIDE DEF k, w, t, row
  <2> QED
    BY <1>1, <1>2, <1>4, <1>5, <1>8, LimitKeepsCaps
<1>10. granted[c][w] \in Nat /\ weekly[c][v] \in Nat
  BY <1>1, <1>3
<1> QED
  BY <1>1, <1>2, <1>3, <1>5, <1>6, <1>7, <1>9, <1>10, ThrottleAssumption

LEMMA BudgetCommit ==
    ASSUME Ok, NEW d \in Dispatchers, CommitClaim(d)
    PROVE  BudgetInv'
<1> DEFINE c == disp[d].customer
           k == BatchSize(d)
           w == disp[d].window
           t == disp[d].at
           v == currentWeekStart(t)
           row == throttle[c]
           s == [disp[d] EXCEPT !.pc = "next", !.customer = None, !.row = NoRow, !.at = 0]
<1>1. /\ c \in Customers /\ k \in Nat /\ t \in Nat /\ t <= now
      /\ w \in Windows /\ v \in Weeks /\ w = currentWindowStart(t)
      /\ row.window <= w /\ row.week <= v /\ row.last <= t
      /\ granted[c][w] + k <= MaxPerDay /\ weekly[c][v] + k <= MaxPerWeek
  BY Leases
<1>2. /\ disp[d] \in DispatcherType /\ disp[d].pc = "claim" /\ now \in Nat /\ now' = now
      /\ ClaimOk(d) /\ CounterOk(c) /\ row \in Rows
      /\ granted \in [Customers -> [Windows -> Nat]] /\ weekly \in [Customers -> [Weeks -> Nat]]
  BY <1>1 DEF Ok, TypeOK, BudgetInv, CommitClaim
<1>3. s.pc = "next" /\ s.window = w
  BY <1>2 DEF DispatcherType
<1>4. disp' = [disp EXCEPT ![d] = s] /\ lock' = Unlocked(d)
  BY DEF CommitClaim, NextCustomer
<1>5. \/ /\ disp[d].dryRun
         /\ UNCHANGED <<throttle, granted, weekly, lastGrant>>
      \/ /\ ~disp[d].dryRun
         /\ throttle' = [throttle EXCEPT ![c] = Counted(row, k, w, t)]
         /\ granted' = [granted EXCEPT ![c][w] = @ + k]
         /\ weekly' = [weekly EXCEPT ![c][v] = @ + k]
         /\ lastGrant' = [lastGrant EXCEPT ![c] = t]
  BY <1>1 DEF CommitClaim, Counts, ledger
<1> HIDE DEF k, s
<1>6. disp'[d] = s /\ \A e \in Dispatchers \ {d} : disp'[e] = disp[e]
  BY <1>4 DEF Ok, TypeOK
<1>7. \A b \in Customers \ {c} : /\ throttle'[b] = throttle[b] /\ lastGrant'[b] = lastGrant[b]
                                /\ granted'[b] = granted[b] /\ weekly'[b] = weekly[b]
  BY <1>5 DEF Ok, TypeOK
<1>8. CASE disp[d].dryRun
  <2>1. UNCHANGED <<throttle, granted, weekly, lastGrant>>
    BY <1>5, <1>8
  <2> QED
    BY <1>2, <1>3, <1>4, <2>1, BudgetQuiet DEF ledger, Ok, BudgetInv
<1>9. CASE ~disp[d].dryRun
  <2>1. /\ throttle'[c] = Counted(row, k, w, t) /\ lastGrant'[c] = t
        /\ granted'[c] = [granted[c] EXCEPT ![w] = @ + k]
        /\ weekly'[c] = [weekly[c] EXCEPT ![v] = @ + k]
    BY <1>1, <1>5, <1>9 DEF Ok, TypeOK
  <2>2. /\ granted'[c][w] = granted[c][w] + k /\ weekly'[c][v] = weekly[c][v] + k
        /\ \A x \in Windows \ {w} : granted'[c][x] = granted[c][x]
        /\ \A x \in Weeks \ {v} : weekly'[c][x] = weekly[c][x]
    BY <1>1, <1>2, <2>1
  <2>3. /\ w \in Nat /\ v \in Nat /\ row.window \in Nat /\ row.week \in Nat
        /\ granted[c][w] \in Nat /\ weekly[c][v] \in Nat
    BY <1>1, <1>2, WindowsInOrder DEF Rows
  <2>4. /\ row.exists
        /\ row.window = w => row.count = granted[c][w]
        /\ row.window # w => granted[c][w] = 0
        /\ row.week = v => row.weekCount = weekly[c][v]
        /\ row.week # v => weekly[c][v] = 0
    BY <1>1, <1>2, <2>3 DEF CounterOk
  <2>5. LET new == throttle'[c]
        IN /\ new.window = w /\ new.week = v /\ new.last = t /\ new.exists
           /\ new.count = granted[c][w] + k /\ new.weekCount = weekly[c][v] + k
    <3> DEFINE new == Counted(row, k, w, t)
    <3>1. /\ new.window = w /\ new.week = v /\ new.last = t /\ new.exists
          /\ new.count = k + (IF row.exists /\ row.window = w THEN row.count ELSE 0)
          /\ new.weekCount = k + (IF row.exists /\ row.week = v THEN row.weekCount ELSE 0)
      BY CountedFields
    <3> HIDE DEF new
    <3>2. k \in Nat /\ granted[c][w] \in Nat /\ weekly[c][v] \in Nat
      BY <1>1, <2>3
    <3>3. (IF row.exists /\ row.window = w THEN row.count ELSE 0) = granted[c][w]
      BY <2>4
    <3>4. (IF row.exists /\ row.week = v THEN row.weekCount ELSE 0) = weekly[c][v]
      BY <2>4
    <3>5. new.count = granted[c][w] + k /\ new.weekCount = weekly[c][v] + k
      BY <3>1, <3>2, <3>3, <3>4
    <3>6. throttle'[c] = new
      BY <2>1 DEF new
    <3> QED
      BY <3>1, <3>5, <3>6
  <2>6. ASSUME NEW b \in Customers, b = c PROVE CounterOk(b)'
    <3>0. /\ \A x \in Windows : x > row.window => granted[c][x] = 0
          /\ \A x \in Weeks : x > row.week => weekly[c][x] = 0
          /\ Windows \subseteq Nat /\ Weeks \subseteq Nat
      BY <1>2 DEF CounterOk, Windows, Weeks
    <3>1. ASSUME NEW x \in Windows, x > w PROVE granted'[c][x] = 0
      <4> HIDE DEF w
      <4>1. x > row.window /\ x # w
        BY <1>1, <2>3, <3>0, <3>1
      <4> QED
        BY <2>2, <3>0, <4>1
    <3>2. ASSUME NEW x \in Weeks, x > v PROVE weekly'[c][x] = 0
      <4> HIDE DEF v
      <4>1. x > row.week /\ x # v
        BY <1>1, <2>3, <3>0, <3>2
      <4> QED
        BY <2>2, <3>0, <4>1
    <3>3. w = currentWindowStart(t) /\ v = currentWeekStart(t) /\ t <= now' /\ lastGrant'[c] = t
      BY <1>1, <1>2, <2>1
    <3>4. /\ throttle'[c].count = granted'[c][w] /\ throttle'[c].weekCount = weekly'[c][v]
          /\ throttle'[c].window = w /\ throttle'[c].week = v
          /\ throttle'[c].last = t /\ throttle'[c].exists
      BY <2>2, <2>5
    <3> HIDE DEF c, w, t, v
    <3> QED
      BY <2>6, <3>1, <3>2, <3>3, <3>4 DEF CounterOk
  <2>7. \A b \in Customers : CounterOk(b)'
    BY <1>2, <1>7, <2>6, CounterStays
  <2>8. CapsHold'
    <3>1. \A b \in Customers, x \in Windows : granted'[b][x] <= MaxPerDay
      BY <1>1, <1>7, <2>2 DEF Ok, BudgetInv, CapsHold, DailyCap
    <3>2. \A b \in Customers, x \in Weeks : weekly'[b][x] <= MaxPerWeek
      BY <1>1, <1>7, <2>2 DEF Ok, BudgetInv, CapsHold, WeeklyCap
    <3> QED
      BY <3>1, <3>2 DEF CapsHold, DailyCap, WeeklyCap
  <2>9. ASSUME NEW e \in Dispatchers, disp'[e].pc = "claim" PROVE ClaimOk(e)'
    <3>1. e # d /\ disp'[e] = disp[e] /\ ClaimOk(e)
      BY <1>3, <1>6, <2>9 DEF Ok, BudgetInv
    <3>2. disp[e].customer \in Customers \ {c}
      BY <1>2, <2>9, <3>1, ClaimsAreApart DEF ClaimOk
    <3>3. lock'[disp[e].customer] = e
      BY <1>4, <3>1 DEF ClaimOk, Unlocked
    <3> QED
      BY <1>2, <1>7, <3>1, <3>2, <3>3, ClaimStays
  <2>10. \A e \in Dispatchers : disp'[e].pc # "idle" => disp'[e].window = currentWindowStart(now')
    BY <1>2, <1>3, <1>6 DEF Ok, BudgetInv
  <2> QED
    BY <1>2, <2>7, <2>8, <2>9, <2>10 DEF Ok, BudgetInv
<1> QED
  BY <1>8, <1>9

LEMMA BudgetStep == ASSUME Settled, Ok, [Next]_vars PROVE BudgetInv'
<1>1. CASE UNCHANGED vars
  <2>1. UNCHANGED <<now, throttle, lock, disp, granted, weekly, lastGrant>>
    BY <1>1 DEF vars
  <2> QED
    BY <2>1 DEF Ok, BudgetInv, CounterOk, ClaimOk, CapsHold, DailyCap, WeeklyCap
<1>2. CASE Next
  BY <1>2, BudgetClock, BudgetNewRow, BudgetDispatch, BudgetBegin, BudgetCommit DEF Next
<1> QED
  BY <1>1, <1>2

LEMMA OkAlways == Settled => (Spec => []Ok)
<1>1. CASE Settled
  <2>1. Init => Ok
    BY <1>1, TypeInit, BudgetInit DEF Ok
  <2>2. Ok /\ [Next]_vars => Ok'
    BY <1>1, TypeStep, BudgetStep DEF Ok
  <2> QED
    BY <2>1, <2>2, PTL DEF Spec
<1> QED
  BY <1>1

-----------------------------------------------------------------------------
(* The theorems *)

\* However many dispatchers run for however many customers, no customer gets more than
\* max_per_day rows on a day or max_per_week in a week: the row lock makes the read and
\* the upsert of the counters one step, and the batch is cut to what both caps leave.
THEOREM CapsAlwaysHold == Settled => (Spec => []CapsHold)
<1>1. Ok => CapsHold
  BY DEF Ok, BudgetInv
<1> QED
  BY <1>1, OkAlways, PTL

\* The counter row is the ledger of its day and week, whatever fails or is rolled back.
THEOREM CountersAlwaysMatch == Settled => (Spec => []CountersMatchLedger)
<1>1. Ok => CountersMatchLedger
  BY DEF Ok, BudgetInv, CounterOk, CountersMatchLedger
<1> QED
  BY <1>1, OkAlways, PTL

\* Two real batches of a customer are never closer than the policy's interval.
THEOREM BatchesKeepApart == Settled => (Spec => BatchesAreSpaced)
<1> DEFINE Apart == \A c \in Customers :
                lastGrant'[c] # lastGrant[c] => lastGrant'[c] >= lastGrant[c] + MinInterval
<1>1. ASSUME Ok, [Next]_vars PROVE Apart
  <2>1. CASE UNCHANGED lastGrant
    BY <2>1
  <2>2. CASE \E d \in Dispatchers : CommitClaim(d)
    <3>1. PICK d \in Dispatchers : CommitClaim(d)
      BY <2>2
    <3> DEFINE c == disp[d].customer
               t == disp[d].at
    <3>2. /\ c \in Customers /\ t \in Nat /\ throttle[c].last <= t
          /\ ~TooSoon(throttle[c], t)
      <4> HIDE DEF c, t
      <4> QED
        BY <1>1, <3>1, Leases DEF c, t
    <3>3. throttle[c].exists /\ throttle[c].last = lastGrant[c] /\ lastGrant[c] \in Nat
      BY <1>1, <3>2 DEF Ok, TypeOK, BudgetInv, CounterOk
    <3>4. t >= lastGrant[c] + MinInterval
      BY <3>2, <3>3, ThrottleAssumption DEF TooSoon
    <3>5. lastGrant' = [lastGrant EXCEPT ![c] = t] \/ lastGrant' = lastGrant
      BY <3>1 DEF CommitClaim, ledger
    <3> QED
      BY <1>1, <3>2, <3>4, <3>5 DEF Ok, TypeOK
  <2> QED
    BY <1>1, <2>1, <2>2 DEF Next, vars, ledger, Tick, NewRow, StartDispatch, Estimate,
       SkipChannel, ListCustomers, FinishDispatch, BeginClaim, AbandonClaim, GiveUp
<1>2. ASSUME Settled PROVE Spec => [][Apart]_vars
  <2>1. Ok /\ [Next]_vars => [Apart]_vars
    BY <1>1
  <2>2. Spec => []Ok
    BY <1>2, OkAlways
  <2> QED
    BY <2>1, <2>2, PTL DEF Spec
<1> QED
  BY <1>2 DEF BatchesAreSpaced

-----------------------------------------------------------------------------
(* The two implementations of the throttle: the pure check of throttle.ts,  *)
(* and the arithmetic of the claim transaction in repo.ts.                  *)

LEMMA BothCaps ==
    ASSUME NEW row \in Rows, NEW limit \in Nat, NEW window \in Nat, NEW t \in Nat,
           NEW k \in Nat
    PROVE  k < ClaimLimit(row, limit, window, t)
             <=> /\ ~TooSoon(row, t) /\ k < limit
                 /\ k + TodayCount(row, window) < MaxPerDay
                 /\ k + WeekCount(row, currentWeekStart(t)) < MaxPerWeek
<1>1. /\ TodayCount(row, window) \in Nat /\ WeekCount(row, currentWeekStart(t)) \in Nat
      /\ MaxPerDay \in Nat /\ MaxPerWeek \in Nat
  BY ThrottleAssumption DEF TodayCount, WeekCount, Rows
<1> QED
  BY <1>1 DEF ClaimLimit, Lesser, Minus

\* Whatever the counter row says and whenever it is asked: the claim of the transaction
\* leases something just when canPublishNow, which only tests call, allows a publish
\* (repo.ts, IDEMP-02/THR-01: "canPublishNow-equivalent checks").
THEOREM ClaimsFollowThePureCheck ==
    ASSUME NEW row \in Rows, NEW t \in Nat
    PROVE  canPublishNow(row, t) <=> ClaimLimit(row, 1, currentWindowStart(t), t) > 0
<1>1. currentWindowStart(t) \in Nat
  BY WindowsInOrder
<1>2. /\ TodayCount(row, currentWindowStart(t)) \in Nat
      /\ WeekCount(row, currentWeekStart(t)) \in Nat
  BY DEF TodayCount, WeekCount, Rows
<1>3. ClaimLimit(row, 1, currentWindowStart(t), t) > 0
        <=> 0 < ClaimLimit(row, 1, currentWindowStart(t), t)
  OBVIOUS
<1> QED
  BY <1>1, <1>2, <1>3, BothCaps DEF canPublishNow

\* A batch is as long as the pure check would let its rows through one after another:
\* after k of them are counted it allows the next just when the batch is longer than k.
\* The interval spaces batches, not the rows of one, so it is left out; the counter row
\* is not of a later day or week than the claim.
THEOREM BatchesAreOneByOne ==
    ASSUME MinInterval = 0, NEW row \in Rows, NEW t \in Nat, NEW limit \in Nat, NEW k \in Nat,
           row.window <= currentWindowStart(t), row.week <= currentWeekStart(t)
    PROVE  k < ClaimLimit(row, limit, currentWindowStart(t), t)
             <=> k < limit /\ canPublishNow(Counted(row, k, currentWindowStart(t), t), t)
<1> DEFINE w == currentWindowStart(t)
           u == currentWeekStart(t)
           after == Counted(row, k, w, t)
<1>1. w \in Nat /\ u \in Nat
  BY WindowsInOrder
<1>2. ~TooSoon(row, t) /\ ~TooSoon(after, t)
  BY DEF TooSoon
<1>3. TodayCount(after, w) = k + TodayCount(row, w)
  BY <1>1 DEF TodayCount, Counted, Rows
<1>4. WeekCount(after, u) = k + WeekCount(row, u)
  BY <1>1 DEF WeekCount, Counted, Rows
<1>5. k < ClaimLimit(row, limit, w, t)
        <=> /\ k < limit
            /\ k + TodayCount(row, w) < MaxPerDay /\ k + WeekCount(row, u) < MaxPerWeek
  <2> HIDE DEF w, u
  <2> QED
    BY <1>1, <1>2, BothCaps DEF u
<1> QED
  BY <1>2, <1>3, <1>4, <1>5 DEF canPublishNow

=============================================================================
