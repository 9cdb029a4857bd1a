------------------------- MODULE SpendAndBillProofs -------------------------
(* TLAPS proofs about SpendAndBill and BillingClose. *)
EXTENDS SpendAndBill, FiniteSetTheorems, TLAPS

-----------------------------------------------------------------------------
(* Sums. Total(f, S) is a sum that is counted out: it takes one entry away *)
(* at a time, grows with its entries, and is bounded by the largest.       *)

Cents(f, S) == UNION {{x} \X (1..f[x]) : x \in S}

LEMMA CentsAreFinite ==
    ASSUME NEW f, NEW S, IsFiniteSet(S), \A x \in S : f[x] \in Nat
    PROVE  IsFiniteSet(Cents(f, S)) /\ Total(f, S) \in Nat
<1> DEFINE R == {{x} \X (1..f[x]) : x \in S}
           G == [x \in S |-> {x} \X (1..f[x])]
<1>1. G \in Surjection(S, R)
  BY DEF Surjection
<1>2. IsFiniteSet(R)
  BY <1>1, FS_Surjection
<1>3. ASSUME NEW T \in R PROVE IsFiniteSet(T)
  <2>1. PICK x \in S : T = {x} \X (1..f[x])
    OBVIOUS
  <2>2. IsFiniteSet({x})
    BY FS_Singleton
  <2>3. IsFiniteSet(1..f[x])
    <3>1. f[x] \in Int
      OBVIOUS
    <3> QED
      BY <3>1, FS_Interval
  <2> QED
    BY <2>1, <2>2, <2>3, FS_Product
<1>4. IsFiniteSet(UNION R)
  BY <1>2, <1>3, FS_UNION
<1> QED
  BY <1>4, FS_CardinalityType DEF Cents, Total

LEMMA DisjointAddsUp ==
    ASSUME NEW A, NEW B, IsFiniteSet(A), IsFiniteSet(B), A \cap B = {}
    PROVE  Cardinality(A \cup B) = Cardinality(A) + Cardinality(B)
<1>1. Cardinality(A) \in Nat /\ Cardinality(B) \in Nat
  BY FS_CardinalityType
<1> QED
  BY <1>1, FS_Union, FS_EmptySet

LEMMA TotalIsNat ==
    ASSUME NEW f, NEW S, IsFiniteSet(S), \A x \in S : f[x] \in Nat
    PROVE  Total(f, S) \in Nat
BY CentsAreFinite

\* One entry is taken out of a sum.
LEMMA TotalSplits ==
    ASSUME NEW f, NEW S, IsFiniteSet(S), \A x \in S : f[x] \in Nat, NEW y \in S
    PROVE  Total(f, S) = f[y] + Total(f, S \ {y})
<1> DEFINE Y == {y} \X (1..f[y])
<1>1. IsFiniteSet(S \ {y})
  BY FS_RemoveElement
<1>2. IsFiniteSet(Cents(f, S \ {y})) /\ Total(f, S \ {y}) \in Nat
  BY <1>1, CentsAreFinite
<1>3. IsFiniteSet(Y) /\ Cardinality(Y) = f[y]
  <2>1. IsFiniteSet({y}) /\ Cardinality({y}) = 1
    BY FS_Singleton
  <2>2. IsFiniteSet(1..f[y]) /\ Cardinality(1..f[y]) = f[y]
    BY FS_Interval
  <2>3. IsFiniteSet(Y) /\ Cardinality(Y) = 1 * f[y]
    BY <2>1, <2>2, FS_Product
  <2> QED
    BY <2>3
<1>4. Cents(f, S) = Y \cup Cents(f, S \ {y})
  BY DEF Cents
<1>5. Y \cap Cents(f, S \ {y}) = {}
  BY DEF Cents
<1>6. Cardinality(Cents(f, S)) = Cardinality(Y) + Cardinality(Cents(f, S \ {y}))
  <2> HIDE DEF Y
  <2> QED
    BY <1>2, <1>3, <1>4, <1>5, DisjointAddsUp
<1> QED
  BY <1>3, <1>6 DEF Cents, Total

\* A sum grows with its entries and with their number.
LEMMA TotalGrows ==
    ASSUME NEW f, NEW S, NEW g, NEW T, IsFiniteSet(T), S \subseteq T,
           \A x \in S : f[x] \in Nat,
           \A x \in T : g[x] \in Nat,
           \A x \in S : f[x] <= g[x]
    PROVE  Total(f, S) <= Total(g, T)
<1>1. IsFiniteSet(Cents(g, T))
  BY CentsAreFinite
<1>2. Cents(f, S) \subseteq Cents(g, T)
  BY DEF Cents
<1> QED
  BY <1>1, <1>2, FS_Subset DEF Cents, Total

\* Only the entries at S count.
LEMMA TotalDependsOn ==
    ASSUME NEW f, NEW g, NEW S, \A x \in S : f[x] = g[x]
    PROVE  Total(f, S) = Total(g, S)
BY DEF Total

LEMMA TotalIsBounded ==
    ASSUME NEW f, NEW S, IsFiniteSet(S), NEW M \in Nat, \A x \in S : f[x] \in 0..M
    PROVE  Total(f, S) <= Cardinality(S) * M
<1>1. IsFiniteSet(1..M) /\ Cardinality(1..M) = M
  BY FS_Interval
<1>2. IsFiniteSet(S \X (1..M)) /\ Cardinality(S \X (1..M)) = Cardinality(S) * M
  BY <1>1, FS_Product
<1>3. Cents(f, S) \subseteq S \X (1..M)
  BY DEF Cents
<1> QED
  BY <1>2, <1>3, FS_Subset DEF Cents, Total

-----------------------------------------------------------------------------
(* Constants                                                               *)

MaxGen == MaxOf(GenCosts)
MaxJudge == MaxOf(JudgeCosts)

LEMMA CostsAreBounded ==
    /\ MaxGen \in Nat /\ \A u \in GenCosts : u \in 0..MaxGen
    /\ MaxJudge \in Nat /\ \A u \in JudgeCosts : u \in 0..MaxJudge
    /\ MaxUnit \in Nat /\ MaxUnit = MaxGen + MaxJudge
<1>1. ASSUME NEW costs \in {GenCosts, JudgeCosts}
      PROVE  MaxOf(costs) \in Nat /\ \A u \in costs : u \in 0..MaxOf(costs)
  <2>1. /\ \A d \in {GenCosts, JudgeCosts} :
              d \subseteq Nat /\ \E m \in d : \A n \in d : n <= m
    BY SpendAssumption
  <2>2. costs \subseteq Nat /\ \E m \in costs : \A n \in costs : n <= m
    BY <2>1
  <2>3. MaxOf(costs) \in costs /\ \A n \in costs : n <= MaxOf(costs)
    BY <2>2, Zenon DEF MaxOf
  <2>4. MaxOf(costs) \in Nat
    BY <2>2, <2>3
  <2>5. ASSUME NEW u \in costs PROVE u \in 0..MaxOf(costs)
    <3>1. u \in Nat /\ u <= MaxOf(costs)
      BY <2>2, <2>3
    <3> QED
      BY <2>4, <3>1
  <2> QED
    BY <2>4, <2>5
<1> QED
  BY <1>1 DEF MaxGen, MaxJudge, MaxUnit

LEMMA HandlersAreCounted == IsFiniteSet(Handlers) /\ Cardinality(Handlers) \in Nat
BY SpendAssumption, FS_CardinalityType

\* Months are numbered from 0 and follow each other.
LEMMA PeriodFacts ==
    ASSUME NEW d \in Nat \ {0}
    PROVE  /\ PeriodOf(d) \in Nat
           /\ PeriodOf(d) * PeriodDays < d
           /\ d <= (PeriodOf(d) + 1) * PeriodDays
<1>1. PeriodOf(d) \in Nat
  BY LedgerAssumption DEF PeriodOf
<1>2. PeriodOf(d) * PeriodDays <= d - 1
  BY LedgerAssumption DEF PeriodOf
<1>3. d - 1 < (PeriodOf(d) + 1) * PeriodDays
  BY LedgerAssumption DEF PeriodOf
<1> QED
  BY <1>1, <1>2, <1>3, LedgerAssumption

LEMMA TimesGrows ==
    ASSUME NEW a \in Int, NEW b \in Int, NEW m \in Nat, a <= b
    PROVE  a * m <= b * m
OBVIOUS

\* A day is in the month that it is numbered in, and in no other.
LEMMA OneMonthEach ==
    ASSUME NEW d \in Nat \ {0}, NEW p \in Int
    PROVE  (d > p * PeriodDays /\ d <= (p + 1) * PeriodDays) <=> PeriodOf(d) = p
<1> DEFINE q == PeriodOf(d)
<1>1. q \in Nat /\ q * PeriodDays < d /\ d <= (q + 1) * PeriodDays
  BY PeriodFacts
<1> HIDE DEF q
<1>2. PeriodDays \in Nat
  BY LedgerAssumption
<1>3. CASE q = p
  BY <1>1, <1>3 DEF q
<1>4. CASE q < p
  <2>1. (q + 1) * PeriodDays <= p * PeriodDays
    BY <1>1, <1>2, <1>4, TimesGrows
  <2>2. (q + 1) * PeriodDays \in Int /\ p * PeriodDays \in Int
    BY <1>1, <1>2
  <2> QED
    BY <1>1, <1>4, <2>1, <2>2 DEF q
<1>5. CASE q > p
  <2>1. (p + 1) * PeriodDays <= q * PeriodDays
    BY <1>1, <1>2, <1>5, TimesGrows
  <2>2. (p + 1) * PeriodDays \in Int /\ q * PeriodDays \in Int
    BY <1>1, <1>2
  <2> QED
    BY <1>1, <1>5, <2>1, <2>2 DEF q
<1> QED
  BY <1>1, <1>3, <1>4, <1>5

LEMMA MonthsFollow ==
    ASSUME NEW d \in Nat \ {0}, NEW e \in Nat \ {0}, d <= e
    PROVE  PeriodOf(d) <= PeriodOf(e)
<1>1. /\ PeriodOf(d) \in Nat /\ PeriodOf(d) * PeriodDays < d
      /\ PeriodOf(e) \in Nat /\ e <= (PeriodOf(e) + 1) * PeriodDays
  BY PeriodFacts
<1>2. SUFFICES ASSUME PeriodOf(e) + 1 <= PeriodOf(d) PROVE FALSE
  BY <1>1
<1>3. PeriodDays \in Nat
  BY LedgerAssumption
<1>4. (PeriodOf(e) + 1) * PeriodDays <= PeriodOf(d) * PeriodDays
  BY <1>1, <1>2, <1>3, TimesGrows
<1>5. (PeriodOf(e) + 1) * PeriodDays \in Int /\ PeriodOf(d) * PeriodDays \in Int
  BY <1>1, <1>3
<1> QED
  BY <1>1, <1>4, <1>5

-----------------------------------------------------------------------------
(* The shape of a state                                                    *)

\* What a handler holds fits the step it is at, and its run has begun.
WorkInv ==
    \A h \in Handlers :
        /\ work[h].pc = "idle" <=> work[h].customer = None
        /\ work[h].pc = "idle" => work[h] = Idle
        /\ work[h].pc = "recordGeneration" => work[h].cost <= MaxGen
        /\ work[h].pc = "judge" => work[h].cost = 0
        /\ work[h].pc # "idle" => work[h].run <= run[work[h].customer]

\* The close works on a month that is over, and while it writes lines their
\* invoice is there, as it was drafted.
CloseInv ==
    /\ close.stage = "none" <=> close.customer = None
    /\ close.stage # "none" => close.state = "running" /\ close.draft \in Drafts
    /\ close.state = "waiting" => PeriodOf(today) > 0
    /\ close.state = "running" => close.period < PeriodOf(today)
    /\ close.stage \in Kinds => Key \in DOMAIN invoice /\ invoice[Key] = close.draft

ShapeInv == TypeOK /\ WorkInv /\ CloseInv

LEMMA Busy ==
    ASSUME SpendTypeOK, WorkInv, NEW h \in Handlers, work[h].pc # "idle"
    PROVE  /\ work[h].customer \in Customers
           /\ work[h].run \in Runs
           /\ work[h].cost \in 0..MaxUnit
           /\ RunOf(work[h]) \in Customers \X Runs
BY DEF SpendTypeOK, WorkInv, RunOf

\* What one step of a handler does to its own place and to nobody else's.
LEMMA WorkMoves ==
    ASSUME SpendTypeOK, WorkInv, NEW h \in Handlers, NEW w,
           w \in [pc : Steps, customer : Customers \cup {None}, run : Runs, cost : 0..MaxUnit],
           work' = [work EXCEPT ![h] = w],
           run' = run,
           w.pc = "idle" <=> w.customer = None,
           w.pc = "idle" => w = Idle,
           w.pc = "recordGeneration" => w.cost <= MaxGen,
           w.pc = "judge" => w.cost = 0,
           w.pc # "idle" => w.run <= run[w.customer]
    PROVE  /\ work' \in [Handlers -> [pc : Steps, customer : Customers \cup {None}, run : Runs,
                                      cost : 0..MaxUnit]]
           /\ WorkInv'
<1>1. \A k \in Handlers : work'[k] = IF k = h THEN w ELSE work[k]
  BY DEF SpendTypeOK
<1>2. work' \in [Handlers -> [pc : Steps, customer : Customers \cup {None}, run : Runs,
                              cost : 0..MaxUnit]]
  BY DEF SpendTypeOK
<1>3. WorkInv'
  BY <1>1 DEF WorkInv
<1> QED
  BY <1>2, <1>3

\* A handler that goes on with its unit.
LEMMA WorkGoesOn ==
    ASSUME SpendTypeOK, WorkInv, NEW h \in Handlers, work[h].pc # "idle",
           NEW pc \in Steps \ {"idle"}, NEW cost \in 0..MaxUnit,
           GoesOn(h, pc, cost), run' = run,
           pc = "recordGeneration" => cost <= MaxGen,
           pc = "judge" => cost = 0
    PROVE  /\ work' \in [Handlers -> [pc : Steps, customer : Customers \cup {None}, run : Runs,
                                      cost : 0..MaxUnit]]
           /\ WorkInv'
<1> DEFINE w == [pc |-> pc, customer |-> work[h].customer, run |-> work[h].run, cost |-> cost]
<1>1. /\ work[h].customer \in Customers /\ work[h].run \in Runs
      /\ work[h].run <= run[work[h].customer]
  BY Busy DEF WorkInv
<1>2. /\ w \in [pc : Steps, customer : Customers \cup {None}, run : Runs, cost : 0..MaxUnit]
      /\ w.pc = pc /\ w.cost = cost /\ w.run = work[h].run /\ w.customer = work[h].customer
  BY <1>1
<1>3. w.customer # None /\ w.pc # "idle"
  BY <1>1, <1>2, LedgerAssumption
<1>4. work' = [work EXCEPT ![h] = w]
  BY DEF GoesOn
<1> HIDE DEF w
<1> QED
  BY <1>1, <1>2, <1>3, <1>4, WorkMoves

LEMMA IdleFits ==
    /\ Idle \in [pc : Steps, customer : Customers \cup {None}, run : Runs, cost : 0..MaxUnit]
    /\ Idle.pc = "idle" /\ Idle.customer = None /\ Idle.cost = 0
BY CostsAreBounded, SpendAssumption DEF Idle, Steps, Runs

LEMMA WorkEnds ==
    ASSUME SpendTypeOK, WorkInv, NEW h \in Handlers,
           work' = [work EXCEPT ![h] = Idle], run' = run
    PROVE  /\ work' \in [Handlers -> [pc : Steps, customer : Customers \cup {None}, run : Runs,
                                      cost : 0..MaxUnit]]
           /\ WorkInv'
BY IdleFits, WorkMoves

\* The part of the shape that concerns the handlers and their runs.
SpendShape == SpendTypeOK /\ WorkInv

LEMMA StartRunShape ==
    ASSUME SpendShape, NEW c \in Customers, StartRun(c)
    PROVE  SpendShape'
<1> USE DEF SpendShape
<1>1. run[c] \in Nat /\ run[c] + 1 \in Runs
  BY SpendAssumption DEF StartRun, SpendTypeOK, Runs
<1>2. /\ run' \in [Customers -> Runs]
      /\ \A d \in Customers : run[d] <= run'[d]
  BY <1>1, SpendAssumption DEF StartRun, SpendTypeOK, Runs
<1>3. pending' \in [Customers -> 0..Units] /\ again' \in [Customers -> 0..RunRetries]
  BY SpendAssumption DEF StartRun, SpendTypeOK
<1>4. SpendTypeOK'
  BY <1>2, <1>3 DEF StartRun, SpendTypeOK
<1>5. WorkInv'
  <2>1. work' = work
    BY DEF StartRun
  <2>2. ASSUME NEW h \in Handlers, work[h].pc # "idle"
        PROVE  work[h].run <= run'[work[h].customer]
    <3>1. work[h].customer \in Customers /\ work[h].run \in Runs
      BY <2>2, Busy
    <3>2. /\ run[work[h].customer] \in Runs /\ run'[work[h].customer] \in Runs
          /\ work[h].run <= run[work[h].customer]
          /\ run[work[h].customer] <= run'[work[h].customer]
      BY <1>2, <2>2, <3>1 DEF WorkInv, SpendTypeOK
    <3> QED
      BY <3>1, <3>2, SpendAssumption DEF Runs
  <2> QED
    BY <2>1, <2>2 DEF WorkInv
<1> QED
  BY <1>4, <1>5

LEMMA TryAgainTypes ==
    ASSUME SpendTypeOK, NEW w, w.customer \in Customers, TryAgain(w)
    PROVE  pending' \in [Customers -> 0..Units] /\ again' \in [Customers -> 0..RunRetries]
<1>1. CASE UNCHANGED <<pending, again>>
  BY <1>1 DEF SpendTypeOK
<1>2. CASE /\ again[w.customer] > 0 /\ pending[w.customer] < Units
           /\ again' = [again EXCEPT ![w.customer] = @ - 1]
           /\ pending' = [pending EXCEPT ![w.customer] = @ + 1]
  BY <1>2, SpendAssumption DEF SpendTypeOK
<1> QED
  BY <1>1, <1>2 DEF TryAgain

LEMMA BudgetGateShape ==
    ASSUME SpendShape, NEW h \in Handlers, NEW c \in Customers, BudgetGate(h, c)
    PROVE  SpendShape'
<1> USE DEF SpendShape
<1>1. pending' \in [Customers -> 0..Units]
  BY SpendAssumption DEF BudgetGate, SpendTypeOK
<1>2. PICK week \in Readings(c, WeekDays), month \in Readings(c, MonthDays) :
         LET missing == None \in {week, month}
             passes == IF missing THEN IsNewCustomer(c) ELSE WithinCap(week, month)
         IN /\ refused' = [refused EXCEPT ![c] = missing /\ ~IsNewCustomer(c)]
            /\ blind' = (blind \/ (missing /\ passes /\ month # None /\ month >= MonthlyCap))
            /\ work' = IF passes
                       THEN [work EXCEPT ![h] = [pc |-> "cache", customer |-> c,
                                                 run |-> run[c], cost |-> 0]]
                       ELSE work
  BY DEF BudgetGate
<1>3. refused' \in [Customers -> BOOLEAN]
  <2>1. PICK b \in BOOLEAN : refused' = [refused EXCEPT ![c] = b]
    BY <1>2
  <2> QED
    BY <2>1 DEF SpendTypeOK
<1>4. blind' \in BOOLEAN
  BY <1>2
<1>5. /\ work' \in [Handlers -> [pc : Steps, customer : Customers \cup {None}, run : Runs,
                                 cost : 0..MaxUnit]]
      /\ WorkInv'
  <2>1. run' = run
    BY DEF BudgetGate
  <2>2. CASE work' = work
    BY <2>1, <2>2 DEF WorkInv, SpendTypeOK
  <2>3. CASE work' = [work EXCEPT ![h] = [pc |-> "cache", customer |-> c,
                                          run |-> run[c], cost |-> 0]]
    <3> DEFINE w == [pc |-> "cache", customer |-> c, run |-> run[c], cost |-> 0]
    <3>1. w \in [pc : Steps, customer : Customers \cup {None}, run : Runs, cost : 0..MaxUnit]
      BY CostsAreBounded DEF SpendTypeOK, Steps
    <3>2. w.pc = "cache" /\ w.customer = c /\ w.customer # None /\ w.run <= run[w.customer]
      BY LedgerAssumption, SpendAssumption DEF SpendTypeOK, Runs
    <3>3. work' = [work EXCEPT ![h] = w]
      BY <2>3
    <3> HIDE DEF w
    <3> QED
      BY <2>1, <3>1, <3>2, <3>3, WorkMoves
  <2> QED
    BY <1>2, <2>2, <2>3
<1> QED
  BY <1>1, <1>3, <1>4, <1>5 DEF BudgetGate, SpendTypeOK

LEMMA CheckCacheShape ==
    ASSUME SpendShape, NEW h \in Handlers, NEW g \in BOOLEAN, CheckCache(h, g)
    PROVE  SpendShape'
<1> USE DEF SpendShape
<1>1. work[h].pc = "cache" /\ run' = run
  BY DEF CheckCache
<1>2. RunOf(work[h]) \in Customers \X Runs
  BY <1>1, Busy
<1>3. seen' \in [Handlers -> SUBSET (Customers \X Runs)]
  BY <1>2 DEF CheckCache, SpendTypeOK
<1>4. collapsed' \in BOOLEAN
  BY DEF CheckCache, SpendTypeOK
<1>5. PICK pc \in {"recordGeneration", "generate"} : GoesOn(h, pc, 0)
  BY DEF CheckCache
<1>6. /\ work' \in [Handlers -> [pc : Steps, customer : Customers \cup {None}, run : Runs,
                                 cost : 0..MaxUnit]]
      /\ WorkInv'
  <2>1. pc \in Steps \ {"idle"} /\ 0 \in 0..MaxUnit /\ 0 <= MaxGen
    BY CostsAreBounded DEF Steps
  <2> QED
    BY <1>1, <1>5, <2>1, WorkGoesOn
<1> QED
  BY <1>3, <1>4, <1>6 DEF CheckCache, SpendTypeOK

LEMMA GenerateShape ==
    ASSUME SpendShape, today \in Days, NEW h \in Handlers, NEW u \in GenCosts,
           NEW o \in {"grounded", "ungrounded", "failed"}, Generate(h, u, o)
    PROVE  SpendShape'
<1> USE DEF SpendShape
<1>1. work[h].pc = "generate" /\ run' = run
  BY DEF Generate
<1>2. RunOf(work[h]) \in Customers \X Runs
  BY <1>1, Busy
<1>3. \/ cache' = cache
      \/ cache' = [src |-> RunOf(work[h]), day |-> today, at |-> run]
  BY DEF Generate
<1>4. cache' = None \/ cache' \in [src : Customers \X Runs, day : Days, at : [Customers -> Runs]]
  BY <1>2, <1>3 DEF SpendTypeOK
<1>5. PICK pc \in {"recordGeneration", "recordFailure"} : GoesOn(h, pc, u)
  BY DEF Generate
<1>6. /\ work' \in [Handlers -> [pc : Steps, customer : Customers \cup {None}, run : Runs,
                                 cost : 0..MaxUnit]]
      /\ WorkInv'
  <2>1. pc \in Steps \ {"idle"} /\ u \in 0..MaxUnit /\ u <= MaxGen
    BY CostsAreBounded DEF Steps
  <2> QED
    BY <1>1, <1>5, <2>1, WorkGoesOn
<1> QED
  BY <1>4, <1>6 DEF Generate, SpendTypeOK

LEMMA CalledInGrows ==
    ASSUME SpendShape, NEW h \in Handlers, work[h].pc # "idle", Ledger(h)
    PROVE  calledIn' \in [Customers -> SUBSET Runs]
BY Busy DEF SpendShape, Ledger, SpendTypeOK

LEMMA RecordGenerationShape ==
    ASSUME SpendShape, NEW h \in Handlers, RecordGeneration(h)
    PROVE  SpendShape'
<1> USE DEF SpendShape
<1>1. work[h].pc # "idle" /\ run' = run /\ Ledger(h) /\ GoesOn(h, "judge", 0)
  BY DEF RecordGeneration
<1>2. calledIn' \in [Customers -> SUBSET Runs]
  BY <1>1, CalledInGrows
<1>3. "judge" \in Steps \ {"idle"} /\ 0 \in 0..MaxUnit
  BY CostsAreBounded DEF Steps
<1>4. /\ work' \in [Handlers -> [pc : Steps, customer : Customers \cup {None}, run : Runs,
                                 cost : 0..MaxUnit]]
      /\ WorkInv'
  BY <1>1, <1>3, WorkGoesOn
<1> QED
  BY <1>2, <1>4 DEF RecordGeneration, SpendTypeOK

LEMMA RecordFailureShape ==
    ASSUME SpendShape, NEW h \in Handlers, RecordFailure(h)
    PROVE  SpendShape'
<1> USE DEF SpendShape
<1>1. /\ work[h].pc # "idle" /\ run' = run /\ Ledger(h) /\ TryAgain(work[h])
      /\ work' = [work EXCEPT ![h] = Idle]
  BY DEF RecordFailure
<1>2. calledIn' \in [Customers -> SUBSET Runs]
  BY <1>1, CalledInGrows
<1>3. pending' \in [Customers -> 0..Units] /\ again' \in [Customers -> 0..RunRetries]
  BY <1>1, Busy, TryAgainTypes
<1>4. /\ work' \in [Handlers -> [pc : Steps, customer : Customers \cup {None}, run : Runs,
                                 cost : 0..MaxUnit]]
      /\ WorkInv'
  BY <1>1, WorkEnds
<1> QED
  BY <1>2, <1>3, <1>4 DEF RecordFailure, SpendTypeOK

LEMMA JudgeShape ==
    ASSUME SpendShape, NEW h \in Handlers, NEW u \in JudgeCosts, Judge(h, u)
    PROVE  SpendShape'
<1> USE DEF SpendShape
<1>1. work[h].pc # "idle" /\ run' = run /\ GoesOn(h, "recordJudge", u)
  BY DEF Judge
<1>2. "recordJudge" \in Steps \ {"idle"} /\ u \in 0..MaxUnit
  BY CostsAreBounded DEF Steps
<1>3. /\ work' \in [Handlers -> [pc : Steps, customer : Customers \cup {None}, run : Runs,
                                 cost : 0..MaxUnit]]
      /\ WorkInv'
  BY <1>1, <1>2, WorkGoesOn
<1> QED
  BY <1>3 DEF Judge, SpendTypeOK

LEMMA RecordJudgeShape ==
    ASSUME SpendShape, NEW h \in Handlers, RecordJudge(h)
    PROVE  SpendShape'
<1> USE DEF SpendShape
<1>1. /\ work[h].pc # "idle" /\ run' = run
      /\ work' = [work EXCEPT ![h] = Idle]
      /\ Ledger(h) \/ calledIn' = calledIn
  BY DEF RecordJudge
<1>2. calledIn' \in [Customers -> SUBSET Runs]
  BY <1>1, CalledInGrows DEF SpendTypeOK
<1>3. /\ work' \in [Handlers -> [pc : Steps, customer : Customers \cup {None}, run : Runs,
                                 cost : 0..MaxUnit]]
      /\ WorkInv'
  BY <1>1, WorkEnds
<1> QED
  BY <1>2, <1>3 DEF RecordJudge, SpendTypeOK

LEMMA HandlerDiesShape ==
    ASSUME SpendShape, NEW h \in Handlers, HandlerDies(h)
    PROVE  SpendShape'
<1> USE DEF SpendShape
<1>1. /\ work[h].pc # "idle" /\ run' = run /\ TryAgain(work[h])
      /\ work' = [work EXCEPT ![h] = Idle]
      /\ seen' = [seen EXCEPT ![h] = {}]
  BY DEF HandlerDies
<1>2. seen' \in [Handlers -> SUBSET (Customers \X Runs)]
  BY <1>1 DEF SpendTypeOK
<1>3. pending' \in [Customers -> 0..Units] /\ again' \in [Customers -> 0..RunRetries]
  BY <1>1, Busy, TryAgainTypes
<1>4. /\ work' \in [Handlers -> [pc : Steps, customer : Customers \cup {None}, run : Runs,
                                 cost : 0..MaxUnit]]
      /\ WorkInv'
  BY <1>1, WorkEnds
<1> QED
  BY <1>2, <1>3, <1>4 DEF HandlerDies, SpendTypeOK

LEMMA SpendShapeFrame ==
    ASSUME SpendShape, UNCHANGED spendVars
    PROVE  SpendShape'
BY DEF SpendShape, SpendTypeOK, WorkInv, spendVars

LEMMA SpendShapeStep ==
    ASSUME SpendShape, today \in Days, [Next]_vars
    PROVE  SpendShape'
<1>1. ASSUME NEW c \in Customers, StartRun(c) PROVE SpendShape'
  BY <1>1, StartRunShape
<1>2. ASSUME NEW c \in Customers, NEW h \in Handlers, BudgetGate(h, c) PROVE SpendShape'
  BY <1>2, BudgetGateShape
<1>3. ASSUME NEW h \in Handlers, HandlerStep(h) PROVE SpendShape'
  BY <1>3, CheckCacheShape, GenerateShape, RecordGenerationShape, RecordFailureShape,
     JudgeShape, RecordJudgeShape DEF HandlerStep
<1>4. ASSUME NEW h \in Handlers, HandlerDies(h) PROVE SpendShape'
  BY <1>4, HandlerDiesShape
<1>5. CASE UNCHANGED spendVars
  BY <1>5, SpendShapeFrame
<1>6. CASE NextDay
  BY <1>5, <1>6 DEF NextDay
<1>7. CASE UNCHANGED vars
  BY <1>5, <1>7 DEF vars
<1> QED
  BY <1>1, <1>2, <1>3, <1>4, <1>5, <1>6, <1>7 DEF Next

\* A step of the budget or of a handler leaves the close alone, and the day.
LEMMA SpendStepFrame ==
    ASSUME \/ \E c \in Customers : StartRun(c) \/ \E h \in Handlers : BudgetGate(h, c)
           \/ \E h \in Handlers : HandlerStep(h) \/ HandlerDies(h)
    PROVE  UNCHANGED <<today, billingVars>>
BY DEF StartRun, BudgetGate, HandlerStep, HandlerDies, CheckCache, Generate, RecordGeneration,
       RecordFailure, Judge, RecordJudge, ledgerVars

\* Which steps write to the ledger.
Recorded(h) ==
    /\ work[h].pc \in {"recordGeneration", "recordFailure", "recordJudge"}
    /\ Record(work[h].customer, work[h].cost)
    /\ today' = today

LEMMA LedgerMoves ==
    ASSUME [Next]_vars
    PROVE  \/ UNCHANGED ledgerVars
           \/ \E h \in Handlers : Recorded(h)
           \/ today < MaxDay /\ today' = today + 1 /\ costDaily' = costDaily
<1>1. ASSUME NEW c \in Customers, StartRun(c) PROVE UNCHANGED ledgerVars
  BY <1>1 DEF StartRun
<1>2. ASSUME NEW c \in Customers, NEW h \in Handlers, BudgetGate(h, c)
      PROVE  UNCHANGED ledgerVars
  BY <1>2 DEF BudgetGate
<1>3. ASSUME NEW h \in Handlers, HandlerStep(h)
      PROVE  UNCHANGED ledgerVars \/ Recorded(h)
  BY <1>3 DEF HandlerStep, CheckCache, Generate, RecordGeneration, RecordFailure, Judge,
              RecordJudge, Ledger, Recorded, ledgerVars
<1>4. ASSUME NEW h \in Handlers, HandlerDies(h) PROVE UNCHANGED ledgerVars
  BY <1>4 DEF HandlerDies
<1>5. CASE NextDay
  BY <1>5 DEF NextDay
<1>6. CASE BillingNext
  BY <1>6 DEF BillingNext, CronClose, StartClose, SkipCustomer, ReadCustomer, InsertInvoice,
              InsertLine, FinishClose, CustomerFails, CloseDies
<1>7. CASE UNCHANGED vars
  BY <1>7 DEF vars
<1> QED
  BY <1>1, <1>2, <1>3, <1>4, <1>5, <1>6, <1>7 DEF Next

LEMMA RecordShape ==
    ASSUME LedgerTypeOK, NEW c \in Customers, NEW cents \in Nat,
           Record(c, cents), today' = today
    PROVE  LedgerTypeOK'
<1> DEFINE f == costDaily[c]
           D == DOMAIN f
           g == [d \in D \cup {today} |->
                   (IF d \in D THEN f[d] ELSE 0) + (IF d = today THEN cents ELSE 0)]
<1>1. today \in 1..MaxDay /\ D \subseteq 1..today /\ f \in [D -> Nat]
  BY DEF LedgerTypeOK, Days
<1>2. g \in [D \cup {today} -> Nat]
  BY <1>1
<1>3. DOMAIN g = D \cup {today} /\ DOMAIN g \subseteq 1..today
  BY <1>1, LedgerAssumption
<1>4. costDaily' = [costDaily EXCEPT ![c] = g]
  BY DEF Record
<1> HIDE DEF f, g
<1>5. \A d \in Customers : costDaily'[d] = IF d = c THEN g ELSE costDaily[d]
  BY <1>4 DEF LedgerTypeOK
<1>6. DOMAIN costDaily' = Customers
  BY <1>4 DEF LedgerTypeOK
<1>7. ASSUME NEW d \in Customers
      PROVE  /\ DOMAIN costDaily'[d] \subseteq 1..today
             /\ costDaily'[d] \in [DOMAIN costDaily'[d] -> Nat]
  <2>1. CASE d = c
    BY <1>2, <1>3, <1>5, <2>1
  <2>2. CASE d # c
    BY <1>5, <2>2 DEF LedgerTypeOK
  <2> QED
    BY <2>1, <2>2
<1> QED
  BY <1>6, <1>7 DEF LedgerTypeOK

LEMMA LedgerShapeStep ==
    ASSUME LedgerTypeOK, SpendShape, [Next]_vars
    PROVE  LedgerTypeOK' /\ today <= today'
<1>1. today \in 1..MaxDay
  BY DEF LedgerTypeOK, Days
<1>2. CASE UNCHANGED ledgerVars
  BY <1>1, <1>2, LedgerAssumption DEF ledgerVars, LedgerTypeOK
<1>3. ASSUME NEW h \in Handlers, Recorded(h) PROVE LedgerTypeOK' /\ today <= today'
  <2>1. work[h].customer \in Customers /\ work[h].cost \in Nat
    BY <1>3, Busy, CostsAreBounded DEF Recorded, SpendShape
  <2> QED
    BY <1>1, <1>3, <2>1, RecordShape, LedgerAssumption DEF Recorded
<1>4. CASE today < MaxDay /\ today' = today + 1 /\ costDaily' = costDaily
  <2>1. today' \in Days /\ 1..today \subseteq 1..today'
    BY <1>1, <1>4, LedgerAssumption DEF Days
  <2> QED
    BY <1>1, <1>4, <2>1, LedgerAssumption DEF LedgerTypeOK
<1> QED
  BY <1>2, <1>3, <1>4, LedgerMoves

-----------------------------------------------------------------------------
(* The close                                                               *)

\* What a month has used: nothing yet, or a number of cents.
LEMMA UsageIsNat ==
    ASSUME LedgerTypeOK, NEW c \in Customers, NEW days \in SUBSET Days
    PROVE  /\ SumOver(c, days) \in Nat
           /\ SumOrNull(c, days) \in Nat \cup {None}
<1>1. IsFiniteSet(Days)
  BY LedgerAssumption, FS_Interval DEF Days
<1>2. IsFiniteSet(days \cap DOMAIN costDaily[c])
  BY <1>1, FS_Subset
<1>3. \A d \in days \cap DOMAIN costDaily[c] : costDaily[c][d] \in Nat
  BY DEF LedgerTypeOK
<1>4. SumOver(c, days) \in Nat
  BY <1>2, <1>3, TotalIsNat DEF SumOver
<1> QED
  BY <1>4 DEF SumOrNull

LEMMA RoundingIsNat ==
    ASSUME NEW n \in Nat
    PROVE  /\ RoundDiv(n, 100) \in Nat /\ 200 * RoundDiv(n, 100) - 2 * n \in -99..100
           /\ RoundDiv(n, 15) \in Nat
           /\ RoundDiv(n, 10) \in Nat /\ 10 * RoundDiv(n, 10) - n \in -5..5
BY DEF RoundDiv

LEMMA BasePriceIsNat ==
    ASSUME NEW s \in Scopes
    PROVE  PriceForScope(s) \in Nat
<1>1. s \in [questions : Nat, languages : Nat, models : Nat, samples : Nat]
  BY CloseAssumption
<1>2. CASE s.questions <= 0 \/ s.languages <= 0
  BY <1>2 DEF PriceForScope
<1>3. CASE ~(s.questions <= 0 \/ s.languages <= 0)
  <2> DEFINE cells == s.questions * s.languages
             thousands == BucketKrw(cells) \div 1000
             units == DepthUnits(s)
  <2>1. cells \in Nat
    BY <1>1
  <2>2. BucketKrw(cells) \in Nat
    <3> HIDE DEF cells
    <3> QED
      BY <2>1 DEF BucketKrw
  <2>3. thousands \in Nat
    <3> DEFINE b == BucketKrw(cells)
    <3>1. b \in Nat
      BY <2>2
    <3> HIDE DEF b
    <3>2. b \div 1000 \in Nat
      BY <3>1
    <3> QED
      BY <3>2 DEF b
  <2>4. units \in Nat
    <3> DEFINE depth == AtLeast(1, s.models) * AtLeast(1, s.samples)
    <3>1. depth \in Int
      BY <1>1 DEF AtLeast
    <3> HIDE DEF depth
    <3>2. AtMost(45, AtLeast(15, depth)) \in Nat
      BY <3>1 DEF AtMost, AtLeast
    <3>3. units = AtMost(45, AtLeast(15, depth))
      BY DEF DepthUnits, depth, DEPTH_MULTIPLIER_CAP, DEPTH_BASELINE
    <3> QED
      BY <3>2, <3>3
  <2>5. PriceForScope(s) = 1000 * RoundDiv(thousands * units, 15)
    BY <1>3 DEF PriceForScope, DEPTH_BASELINE
  <2>6. thousands * units \in Nat
    <3> HIDE DEF thousands, units
    <3> QED
      BY <2>3, <2>4
  <2>7. RoundDiv(thousands * units, 15) \in Nat
    BY <2>6, RoundingIsNat
  <2> QED
    BY <2>5, <2>7
<1> QED
  BY <1>2, <1>3

\* The arithmetic of an invoice: the overage is the use of the month to the won,
\* before it is multiplied, the tax a tenth, and the total adds up.
LEMMA DraftAddsUp ==
    ASSUME NEW s \in Scopes, NEW usage \in Nat \cup {None}, NEW i, i = Draft(s, usage),
           NEW used, used = IF usage = None THEN 0 ELSE usage
    PROVE  /\ i \in Drafts
           /\ 2 * i.overage - 81 * used \in -3..3
           /\ 10 * i.vat - (i.base + i.overage) \in -5..5
           /\ i.total = i.base + i.overage + i.vat
<1>1. used \in Nat
  OBVIOUS
<1> DEFINE base == PriceForScope(s)
           won == RoundDiv(used * 1350, 100)
           overage == won * 3
           vat == RoundDiv(base + overage, 10)
<1>2. base \in Nat
  BY BasePriceIsNat
<1>3. won \in Nat /\ 200 * won - 2 * (used * 1350) \in -99..100
  <2>1. used * 1350 \in Nat
    BY <1>1
  <2> QED
    BY <2>1, RoundingIsNat
<1>4. i = [base |-> base, overage |-> overage, vat |-> vat, total |-> base + overage + vat]
  BY DEF Draft, ApplyMargin, UsdToKrw, VatOf, FX_RATE_KRW_PER_USD, OVERAGE_MARGIN
<1> HIDE DEF base, won
<1>5. base + overage \in Nat
  BY <1>2, <1>3
<1>6. vat \in Nat /\ 10 * vat - (base + overage) \in -5..5
  <2> HIDE DEF overage
  <2> QED
    BY <1>5, RoundingIsNat
<1>7. 2 * overage - 81 * used \in -3..3
  BY <1>1, <1>3
<1> HIDE DEF overage, vat
<1>8. overage \in Nat
  BY <1>3 DEF overage
<1> QED
  BY <1>2, <1>4, <1>6, <1>7, <1>8 DEF Drafts

BillingShape == BillingTypeOK /\ CloseInv

LEMMA CronCloseShape ==
    ASSUME BillingShape, today \in Days, CronClose
    PROVE  BillingShape'
<1> USE DEF BillingShape
<1>1. /\ close' = Waiting(CloseRetries) /\ fired' = today /\ PeriodOf(today) > 0 /\ today' = today
      /\ UNCHANGED <<subscribed, invoice, lines, faults, torn>>
  BY DEF CronClose, ledgerVars
<1>2. /\ close' = [NoClose EXCEPT !.state = "waiting", !.left = CloseRetries]
  BY <1>1 DEF Waiting
<1>3. close' = [state |-> "waiting", left |-> CloseRetries, period |-> 0, todo |-> {},
                customer |-> None, stage |-> "none", draft |-> None]
  BY <1>2 DEF NoClose
<1>4. 0 \in Periods
  BY PeriodFacts, LedgerAssumption DEF Periods
<1>5. BillingTypeOK'
  BY <1>1, <1>3, <1>4, CloseAssumption DEF BillingTypeOK, CloseType
<1>6. CloseInv'
  BY <1>1, <1>3 DEF CloseInv, Kinds, PeriodOf
<1> QED
  BY <1>5, <1>6

LEMMA StartCloseShape ==
    ASSUME BillingShape, today \in Days, StartClose
    PROVE  BillingShape'
<1> USE DEF BillingShape
<1>1. /\ close.state = "waiting" /\ today' = today
      /\ close' = [close EXCEPT !.state = "running", !.period = PeriodOf(today) - 1,
                                !.todo = Customers]
      /\ UNCHANGED <<subscribed, invoice, lines, fired, faults, torn>>
  BY DEF StartClose, ledgerVars
<1>2. PeriodOf(today) - 1 \in Periods /\ PeriodOf(today) - 1 < PeriodOf(today)
  <2>1. today \in Nat \ {0} /\ MaxDay \in Nat \ {0} /\ today <= MaxDay
    BY LedgerAssumption DEF Days
  <2>2. PeriodOf(today) \in Nat /\ PeriodOf(MaxDay) \in Nat /\ PeriodOf(today) <= PeriodOf(MaxDay)
    BY <2>1, PeriodFacts, MonthsFollow
  <2>3. PeriodOf(today) > 0
    BY <1>1 DEF CloseInv
  <2> QED
    BY <2>2, <2>3 DEF Periods
<1> DEFINE p == PeriodOf(today) - 1
<1>3. close' = [state |-> "running", left |-> close.left, period |-> p, todo |-> Customers,
                customer |-> close.customer, stage |-> close.stage, draft |-> close.draft]
  BY <1>1 DEF BillingTypeOK, CloseType
<1>4. close.stage = "none" /\ close.customer = None
  BY <1>1 DEF CloseInv
<1>5. PeriodOf(today)' = PeriodOf(today)
  BY <1>1 DEF PeriodOf
<1>6. BillingTypeOK'
  <2> HIDE DEF p
  <2>1. close' \in CloseType
    BY <1>2, <1>3 DEF BillingTypeOK, CloseType, p
  <2> QED
    BY <1>1, <2>1 DEF BillingTypeOK
<1>7. CloseInv'
  BY <1>2, <1>3, <1>4, <1>5 DEF CloseInv, Kinds
<1> QED
  BY <1>6, <1>7

LEMMA SkipCustomerShape ==
    ASSUME BillingShape, NEW c \in Customers, SkipCustomer(c)
    PROVE  BillingShape'
<1> USE DEF BillingShape
<1>1. /\ close.state = "running" /\ close.customer = None /\ today' = today
      /\ close' = [close EXCEPT !.todo = @ \ {c}]
      /\ UNCHANGED <<subscribed, invoice, lines, fired, faults, torn>>
  BY DEF SkipCustomer, ledgerVars
<1>2. close' = [state |-> "running", left |-> close.left, period |-> close.period,
                todo |-> close.todo \ {c}, customer |-> None,
                stage |-> close.stage, draft |-> close.draft]
  BY <1>1 DEF BillingTypeOK, CloseType
<1>3. close.stage = "none"
  BY <1>1 DEF CloseInv
<1>4. close' \in CloseType
  BY <1>2 DEF BillingTypeOK, CloseType
<1>5. BillingTypeOK'
  BY <1>1, <1>4 DEF BillingTypeOK
<1>6. PeriodOf(today)' = PeriodOf(today)
  BY <1>1 DEF PeriodOf
<1>7. CloseInv'
  BY <1>1, <1>2, <1>3, <1>6 DEF CloseInv, Kinds
<1> QED
  BY <1>5, <1>7

LEMMA ReadCustomerShape ==
    ASSUME BillingShape, LedgerTypeOK, NEW c \in Customers, NEW s \in Scopes, ReadCustomer(c, s)
    PROVE  BillingShape'
<1> USE DEF BillingShape
<1> DEFINE i == Draft(s, SumLlmUsageForPeriod(c, close.period))
<1>1. /\ close.state = "running" /\ close.customer = None /\ today' = today
      /\ close' = [close EXCEPT !.customer = c, !.todo = @ \ {c}, !.stage = "invoice",
                                !.draft = i]
      /\ UNCHANGED <<subscribed, invoice, lines, fired, faults, torn>>
  BY DEF ReadCustomer, ledgerVars
<1>2. i \in Drafts
  <2>1. SumLlmUsageForPeriod(c, close.period) \in Nat \cup {None}
    BY UsageIsNat DEF SumLlmUsageForPeriod, DaysOfPeriod
  <2> QED
    BY <2>1, DraftAddsUp
<1> HIDE DEF i
<1>3. close' = [state |-> "running", left |-> close.left, period |-> close.period,
                todo |-> close.todo \ {c}, customer |-> c, stage |-> "invoice", draft |-> i]
  BY <1>1 DEF BillingTypeOK, CloseType
<1>4. close' \in CloseType
  BY <1>2, <1>3 DEF BillingTypeOK, CloseType
<1>5. BillingTypeOK'
  BY <1>1, <1>4 DEF BillingTypeOK
<1>6. PeriodOf(today)' = PeriodOf(today)
  BY <1>1 DEF PeriodOf
<1>7. c # None
  BY LedgerAssumption
<1>8. CloseInv'
  BY <1>1, <1>2, <1>3, <1>6, <1>7 DEF CloseInv, Kinds
<1> QED
  BY <1>5, <1>8

\* The work on a customer ends.
LEMMA NextCustomerShape ==
    ASSUME BillingShape, NextCustomer, today' = today, close.state = "running"
    PROVE  close' \in CloseType /\ CloseInv'
<1> USE DEF BillingShape
<1>1. close' = [state |-> "running", left |-> close.left, period |-> close.period,
                todo |-> close.todo, customer |-> None, stage |-> "none", draft |-> None]
  BY DEF NextCustomer, BillingTypeOK, CloseType
<1>2. close' \in CloseType
  BY <1>1 DEF BillingTypeOK, CloseType
<1>3. PeriodOf(today)' = PeriodOf(today)
  BY DEF PeriodOf
<1>4. CloseInv'
  BY <1>1, <1>3 DEF CloseInv, Kinds
<1> QED
  BY <1>2, <1>4

LEMMA InsertInvoiceShape ==
    ASSUME BillingShape, InsertInvoice
    PROVE  BillingShape'
<1> USE DEF BillingShape
<1>1. /\ close.stage = "invoice" /\ today' = today /\ close.state = "running"
      /\ close.draft \in Drafts /\ close.customer \in Customers /\ close.period \in Periods
      /\ UNCHANGED <<subscribed, fired, faults, torn>>
  BY DEF InsertInvoice, ledgerVars, CloseInv, BillingTypeOK, CloseType
<1>2. CASE Key \in DOMAIN invoice
  <2>1. NextCustomer /\ UNCHANGED <<invoice, lines>>
    BY <1>2 DEF InsertInvoice
  <2>2. close' \in CloseType /\ CloseInv'
    BY <1>1, <2>1, NextCustomerShape
  <2> QED
    BY <1>1, <2>1, <2>2 DEF BillingTypeOK
<1>3. CASE Key \notin DOMAIN invoice
  <2>1. /\ invoice' = [k \in DOMAIN invoice \cup {Key} |->
                         IF k = Key THEN close.draft ELSE invoice[k]]
        /\ lines' = [k \in DOMAIN lines \cup {Key} |-> IF k = Key THEN <<>> ELSE lines[k]]
        /\ close' = [close EXCEPT !.stage = "base"]
    BY <1>3 DEF InsertInvoice
  <2>2. close' = [state |-> "running", left |-> close.left, period |-> close.period,
                  todo |-> close.todo, customer |-> close.customer, stage |-> "base",
                  draft |-> close.draft]
    BY <1>1, <2>1 DEF BillingTypeOK, CloseType
  <2>3. close' \in CloseType
    BY <2>2 DEF BillingTypeOK, CloseType, Kinds
  <2>4. Key' = Key /\ Key \in Customers \X Periods
    BY <1>1, <2>2 DEF Key
  <2>5. DOMAIN <<>> \subseteq Kinds
    OBVIOUS
  <2>6. \A k \in DOMAIN invoice' : invoice'[k] \in Drafts /\ DOMAIN lines'[k] \subseteq Kinds
    BY <1>1, <2>1, <2>5 DEF BillingTypeOK
  <2>7. DOMAIN invoice' \subseteq Customers \X Periods /\ DOMAIN lines' = DOMAIN invoice'
    BY <2>1, <2>4 DEF BillingTypeOK
  <2>8. torn' \subseteq DOMAIN invoice'
    BY <1>1, <2>1 DEF BillingTypeOK
  <2>9. BillingTypeOK'
    BY <1>1, <2>3, <2>6, <2>7, <2>8 DEF BillingTypeOK
  <2>10. PeriodOf(today)' = PeriodOf(today)
    BY <1>1 DEF PeriodOf
  <2>11. Key \in DOMAIN invoice' /\ invoice'[Key] = close.draft
    BY <2>1
  <2>12. CloseInv'
    BY <1>1, <2>2, <2>4, <2>10, <2>11 DEF CloseInv, Kinds
  <2> QED
    BY <2>9, <2>12
<1> QED
  BY <1>2, <1>3

\* A line is written, or there is nothing to write.
LineKept(kind) ==
    lines' = IF Written(close.draft, kind)
             THEN [lines EXCEPT ![Key] = [k \in DOMAIN lines[Key] \cup {kind} |->
                                            IF k = kind THEN close.draft[k] ELSE lines[Key][k]]]
             ELSE lines

LEMMA LineKeptShape ==
    ASSUME BillingTypeOK, NEW kind \in Kinds, LineKept(kind), Key \in DOMAIN lines
    PROVE  DOMAIN lines' = DOMAIN lines /\ \A k \in DOMAIN lines : DOMAIN lines'[k] \subseteq Kinds
<1>1. CASE lines' = lines
  BY <1>1 DEF BillingTypeOK
<1>2. CASE lines' = [lines EXCEPT ![Key] = [k \in DOMAIN lines[Key] \cup {kind} |->
                                              IF k = kind THEN close.draft[k] ELSE lines[Key][k]]]
  <2> DEFINE g == [k \in DOMAIN lines[Key] \cup {kind} |->
                     IF k = kind THEN close.draft[k] ELSE lines[Key][k]]
  <2>1. DOMAIN g \subseteq Kinds
    BY DEF BillingTypeOK
  <2>2. lines' = [lines EXCEPT ![Key] = g]
    BY <1>2
  <2> HIDE DEF g
  <2> QED
    BY <2>1, <2>2 DEF BillingTypeOK
<1> QED
  BY <1>1, <1>2 DEF LineKept

LEMMA InsertLineShape ==
    ASSUME BillingShape, InsertLine
    PROVE  BillingShape'
<1> USE DEF BillingShape
<1>1. /\ close.stage \in Kinds /\ LineKept(close.stage) /\ today' = today
      /\ IF close.stage = "vat" THEN NextCustomer
         ELSE close' = [close EXCEPT !.stage = IF close.stage = "base" THEN "overage" ELSE "vat"]
      /\ UNCHANGED <<subscribed, invoice, fired, faults, torn>>
  BY DEF InsertLine, LineKept, ledgerVars
<1>2. /\ close.state = "running" /\ Key \in DOMAIN lines /\ invoice[Key] = close.draft
      /\ close.customer \in Customers
  BY <1>1 DEF CloseInv, BillingTypeOK, Kinds, CloseType
<1>3. DOMAIN lines' = DOMAIN lines /\ \A k \in DOMAIN lines : DOMAIN lines'[k] \subseteq Kinds
  BY <1>1, <1>2, LineKeptShape
<1>4. close' \in CloseType /\ CloseInv'
  <2>1. CASE close.stage = "vat"
    BY <1>1, <1>2, <2>1, NextCustomerShape
  <2>2. CASE close.stage # "vat"
    <3>1. PICK next \in {"overage", "vat"} : close' = [close EXCEPT !.stage = next]
      BY <1>1, <2>2
    <3>2. close' = [state |-> "running", left |-> close.left, period |-> close.period,
                    todo |-> close.todo, customer |-> close.customer, stage |-> next,
                    draft |-> close.draft]
      BY <1>2, <3>1 DEF BillingTypeOK, CloseType
    <3>3. close' \in CloseType
      BY <3>2 DEF BillingTypeOK, CloseType, Kinds
    <3>4. Key' = Key
      BY <3>2 DEF Key
    <3>5. PeriodOf(today)' = PeriodOf(today)
      BY <1>1 DEF PeriodOf
    <3>6. CloseInv'
      BY <1>1, <1>2, <3>2, <3>4, <3>5 DEF CloseInv, Kinds
    <3> QED
      BY <3>3, <3>6
  <2> QED
    BY <2>1, <2>2
<1> QED
  BY <1>1, <1>3, <1>4 DEF BillingTypeOK

\* The job ends, or goes back to the queue, while the days stand still.
LEMMA JobEndsShape ==
    ASSUME BillingShape, today \in Days, today' = today, close.state = "running",
           NEW left \in 0..CloseRetries, close' = Waiting(left) \/ close' = NoClose
    PROVE  close' \in CloseType /\ CloseInv'
<1> USE DEF BillingShape
<1>1. PICK s \in {"none", "waiting"}, n \in 0..CloseRetries :
         close' = [state |-> s, left |-> n, period |-> 0, todo |-> {},
                   customer |-> None, stage |-> "none", draft |-> None]
  <2>1. CASE close' = Waiting(left)
    <3>1. close' = [state |-> "waiting", left |-> left, period |-> 0, todo |-> {},
                    customer |-> None, stage |-> "none", draft |-> None]
      BY <2>1 DEF Waiting, NoClose
    <3> QED
      BY <3>1
  <2>2. CASE close' = NoClose
    <3>1. close' = [state |-> "none", left |-> 0, period |-> 0, todo |-> {},
                    customer |-> None, stage |-> "none", draft |-> None]
      BY <2>2 DEF NoClose
    <3>2. 0 \in 0..CloseRetries
      BY CloseAssumption
    <3> QED
      BY <3>1, <3>2
  <2> QED
    BY <2>1, <2>2
<1>2. 0 \in Periods
  BY PeriodFacts, LedgerAssumption DEF Periods
<1>3. close' \in CloseType
  BY <1>1, <1>2 DEF CloseType
<1>4. PeriodOf(today)' = PeriodOf(today)
  BY DEF PeriodOf
<1>5. PeriodOf(today) > 0
  <2>1. PeriodOf(today) \in Nat
    BY PeriodFacts DEF Days
  <2>2. close.period \in Nat
    BY LedgerAssumption, PeriodFacts DEF BillingTypeOK, CloseType, Periods
  <2>3. close.period < PeriodOf(today)
    BY DEF CloseInv
  <2> QED
    BY <2>1, <2>2, <2>3
<1> QED
  BY <1>1, <1>3, <1>4, <1>5 DEF CloseInv, Kinds

LEMMA FinishCloseShape ==
    ASSUME BillingShape, today \in Days, FinishClose
    PROVE  BillingShape'
<1>1. /\ close.state = "running" /\ today' = today /\ close' = NoClose
      /\ UNCHANGED <<subscribed, invoice, lines, fired, faults, torn>>
  BY DEF FinishClose, ledgerVars
<1>2. close' \in CloseType /\ CloseInv'
  BY <1>1, JobEndsShape, CloseAssumption
<1> QED
  BY <1>1, <1>2 DEF BillingShape, BillingTypeOK

LEMMA TornShape ==
    ASSUME BillingShape
    PROVE  Interrupted \subseteq DOMAIN invoice
BY DEF BillingShape, Interrupted, CloseInv, BillingTypeOK

LEMMA CustomerFailsShape ==
    ASSUME BillingShape, CustomerFails
    PROVE  BillingShape'
<1>1. /\ close.customer # None /\ faults < MaxFaults /\ faults' = faults + 1
      /\ torn' = Interrupted /\ NextCustomer /\ today' = today
      /\ UNCHANGED <<subscribed, invoice, lines, fired>>
  BY DEF CustomerFails, ledgerVars
<1>2. close.state = "running"
  BY <1>1 DEF BillingShape, CloseInv
<1>3. close' \in CloseType /\ CloseInv'
  BY <1>1, <1>2, NextCustomerShape
<1>4. faults' \in 0..MaxFaults
  BY <1>1, CloseAssumption DEF BillingShape, BillingTypeOK
<1> QED
  BY <1>1, <1>3, <1>4, TornShape DEF BillingShape, BillingTypeOK

LEMMA CloseDiesShape ==
    ASSUME BillingShape, today \in Days, CloseDies
    PROVE  BillingShape'
<1>1. /\ close.state = "running" /\ faults < MaxFaults /\ faults' = faults + 1
      /\ torn' = Interrupted /\ close' = RetriedClose(close.left) /\ today' = today
      /\ UNCHANGED <<subscribed, invoice, lines, fired>>
  BY DEF CloseDies, ledgerVars
<1>2. close.left \in 0..CloseRetries
  BY DEF BillingShape, BillingTypeOK, CloseType
<1>3. PICK left \in 0..CloseRetries : close' = Waiting(left) \/ close' = NoClose
  <2>1. CASE close.left > 0
    BY <1>1, <1>2, <2>1, CloseAssumption DEF RetriedClose
  <2>2. CASE ~(close.left > 0)
    BY <1>1, <1>2, <2>2 DEF RetriedClose
  <2> QED
    BY <2>1, <2>2
<1>4. close' \in CloseType /\ CloseInv'
  <2>1. CASE close' = Waiting(left)
    BY <1>1, <2>1, JobEndsShape
  <2>2. CASE close' = NoClose
    BY <1>1, <2>2, JobEndsShape
  <2> QED
    BY <1>3, <2>1, <2>2
<1>5. faults' \in 0..MaxFaults
  BY <1>1, CloseAssumption DEF BillingShape, BillingTypeOK
<1> QED
  BY <1>1, <1>4, <1>5, TornShape DEF BillingShape, BillingTypeOK

\* As the days go by, a month that is over stays over.
LEMMA BillingShapeFrame ==
    ASSUME BillingShape, LedgerTypeOK, LedgerTypeOK', today <= today', UNCHANGED billingVars
    PROVE  BillingShape'
<1>1. today \in Nat \ {0} /\ today' \in Nat \ {0}
  BY LedgerAssumption DEF LedgerTypeOK, Days
<1>2. PeriodOf(today) \in Nat /\ PeriodOf(today') \in Nat /\ PeriodOf(today) <= PeriodOf(today')
  BY <1>1, PeriodFacts, MonthsFollow
<1>3. PeriodOf(today)' = PeriodOf(today')
  BY DEF PeriodOf
<1>4. UNCHANGED <<subscribed, invoice, lines, fired, close, faults, torn>>
  BY DEF billingVars
<1>5. BillingTypeOK'
  BY <1>4 DEF BillingShape, BillingTypeOK
<1>6. close.period \in Nat
  BY LedgerAssumption, PeriodFacts DEF BillingShape, BillingTypeOK, CloseType, Periods
<1>7. CloseInv'
  <2>1. Key' = Key
    BY <1>4 DEF Key
  <2> QED
    BY <1>2, <1>3, <1>4, <1>6, <2>1 DEF BillingShape, CloseInv
<1> QED
  BY <1>5, <1>7 DEF BillingShape

LEMMA BillingShapeStep ==
    ASSUME ShapeInv, [Next]_vars
    PROVE  BillingShape'
<1>1. BillingShape /\ SpendShape /\ LedgerTypeOK /\ today \in Days
  BY DEF ShapeInv, TypeOK, BillingShape, SpendShape, LedgerTypeOK
<1>2. LedgerTypeOK' /\ today <= today'
  BY <1>1, LedgerShapeStep
<1>3. CASE UNCHANGED billingVars
  BY <1>1, <1>2, <1>3, BillingShapeFrame
<1>4. CASE BillingNext
  <2>1. ASSUME NEW c \in Customers, SkipCustomer(c) PROVE BillingShape'
    BY <1>1, <2>1, SkipCustomerShape
  <2>2. ASSUME NEW c \in Customers, NEW s \in Scopes, ReadCustomer(c, s) PROVE BillingShape'
    BY <1>1, <2>2, ReadCustomerShape
  <2> QED
    BY <1>1, <1>4, <2>1, <2>2, CronCloseShape, StartCloseShape, InsertInvoiceShape,
       InsertLineShape, FinishCloseShape, CustomerFailsShape, CloseDiesShape DEF BillingNext
<1>5. CASE NextDay
  BY <1>3, <1>5 DEF NextDay
<1>6. CASE UNCHANGED vars
  BY <1>3, <1>6 DEF vars
<1> QED
  BY <1>3, <1>4, <1>5, <1>6, SpendStepFrame DEF Next

LEMMA ShapeInit == Init => ShapeInv
<1> SUFFICES ASSUME Init PROVE ShapeInv
  OBVIOUS
<1>1. LedgerTypeOK
  <2>1. DOMAIN <<>> = {} /\ <<>> \in [{} -> Nat]
    OBVIOUS
  <2> QED
    BY <2>1, LedgerAssumption DEF Init, LedgerInit, LedgerTypeOK, Days
<1>2. close = [state |-> "none", left |-> 0, period |-> 0, todo |-> {},
               customer |-> None, stage |-> "none", draft |-> None]
  BY DEF Init, BillingInit, NoClose
<1>3. 0 \in Periods
  BY PeriodFacts, LedgerAssumption DEF Periods
<1>4. BillingTypeOK
  <2>1. close \in CloseType
    BY <1>2, <1>3, CloseAssumption DEF CloseType
  <2>2. DOMAIN invoice = {} /\ DOMAIN lines = {}
    BY DEF Init, BillingInit
  <2> QED
    BY <2>1, <2>2, CloseAssumption DEF Init, BillingInit, BillingTypeOK
<1>5. SpendTypeOK
  <2>1. run \in [Customers -> Runs] /\ calledIn \in [Customers -> SUBSET Runs]
    BY SpendAssumption DEF Init, Runs
  <2>2. pending \in [Customers -> 0..Units] /\ again \in [Customers -> 0..RunRetries]
    BY SpendAssumption DEF Init
  <2>3. work \in [Handlers -> [pc : Steps, customer : Customers \cup {None}, run : Runs,
                               cost : 0..MaxUnit]]
    BY IdleFits DEF Init
  <2> QED
    BY <2>1, <2>2, <2>3 DEF Init, SpendTypeOK
<1>6. WorkInv
  BY IdleFits DEF Init, WorkInv
<1>7. CloseInv
  BY <1>2 DEF CloseInv, Kinds
<1> QED
  BY <1>1, <1>4, <1>5, <1>6, <1>7 DEF ShapeInv, TypeOK

LEMMA ShapeStep ==
    ASSUME ShapeInv, [Next]_vars
    PROVE  ShapeInv'
<1>1. SpendShape /\ LedgerTypeOK /\ today \in Days
  BY DEF ShapeInv, TypeOK, SpendShape, LedgerTypeOK
<1>2. SpendShape' /\ LedgerTypeOK' /\ BillingShape'
  BY <1>1, SpendShapeStep, LedgerShapeStep, BillingShapeStep
<1> QED
  BY <1>2 DEF ShapeInv, TypeOK, SpendShape, BillingShape

\* The tables, the close and the handlers keep their types, whatever fails.
THEOREM MoneyTypes == Spec => []TypeOK
<1>1. ShapeInv /\ [Next]_vars => ShapeInv'
  BY ShapeStep
<1>2. ShapeInv => TypeOK
  BY DEF ShapeInv
<1> QED
  BY <1>1, <1>2, ShapeInit, PTL DEF Spec

-----------------------------------------------------------------------------
(* Samples                                                                 *)

\* A cached answer is no older than the run that it comes from; with a cut-off
\* of its own no job has been served one of its own run.
CacheInv ==
    /\ cache # None => cache.src[2] <= cache.at[cache.src[1]]
    /\ PerJobCache => ~collapsed

LEMMA CacheMoves ==
    ASSUME [Next]_vars
    PROVE  \/ \E h \in Handlers, g \in BOOLEAN : CheckCache(h, g)
           \/ \E h \in Handlers, u \in GenCosts, o \in {"grounded", "ungrounded", "failed"} :
                Generate(h, u, o)
           \/ UNCHANGED <<cache, collapsed>>
<1>1. ASSUME NEW h \in Handlers, RecordGeneration(h) \/ RecordFailure(h) \/ RecordJudge(h)
      PROVE  UNCHANGED <<cache, collapsed>>
  BY <1>1 DEF RecordGeneration, RecordFailure, RecordJudge
<1>2. ASSUME NEW h \in Handlers, NEW u \in JudgeCosts, Judge(h, u)
      PROVE  UNCHANGED <<cache, collapsed>>
  BY <1>2 DEF Judge
<1>3. ASSUME NEW h \in Handlers, HandlerDies(h)
      PROVE  UNCHANGED <<cache, collapsed>>
  BY <1>3 DEF HandlerDies
<1>4. ASSUME NEW c \in Customers, StartRun(c)
      PROVE  UNCHANGED <<cache, collapsed>>
  BY <1>4 DEF StartRun
<1>5. ASSUME NEW c \in Customers, NEW h \in Handlers, BudgetGate(h, c)
      PROVE  UNCHANGED <<cache, collapsed>>
  BY <1>5 DEF BudgetGate
<1>6. CASE UNCHANGED spendVars
  BY <1>6 DEF spendVars
<1>7. CASE NextDay
  BY <1>6, <1>7 DEF NextDay
<1>8. CASE UNCHANGED vars
  BY <1>6, <1>8 DEF vars
<1> QED
  BY <1>1, <1>2, <1>3, <1>4, <1>5, <1>6, <1>7, <1>8 DEF Next, HandlerStep

LEMMA CacheStep ==
    ASSUME ShapeInv, CacheInv, [Next]_vars
    PROVE  CacheInv'
<1>1. SpendTypeOK /\ WorkInv
  BY DEF ShapeInv, TypeOK
<1>2. ASSUME NEW h \in Handlers, NEW g \in BOOLEAN, CheckCache(h, g) PROVE CacheInv'
  <2>1. work[h].pc # "idle" /\ cache' = cache
    BY <1>2 DEF CheckCache
  <2>2. work[h].customer \in Customers /\ work[h].run \in Runs
    BY <1>1, <2>1, Busy
  <2>3. SUFFICES ASSUME PerJobCache PROVE ~collapsed'
    BY <2>1 DEF CacheInv
  <2>4. CASE Hit(h)
    <3>1. cache # None /\ cache.at[work[h].customer] < work[h].run
      BY <2>3, <2>4 DEF Hit, BeforeRun
    <3>2. cache.at \in [Customers -> Runs] /\ cache.src[2] <= cache.at[cache.src[1]]
      BY <1>1, <3>1 DEF SpendTypeOK, CacheInv
    <3>3. cache.src # RunOf(work[h])
      <4>1. SUFFICES ASSUME cache.src = <<work[h].customer, work[h].run>> PROVE FALSE
        BY DEF RunOf
      <4>2. work[h].run <= cache.at[work[h].customer]
        BY <3>2, <4>1
      <4>3. cache.at[work[h].customer] \in Nat /\ work[h].run \in Nat
        BY <2>2, <3>2, SpendAssumption DEF Runs
      <4> QED
        BY <3>1, <4>2, <4>3
    <3> QED
      BY <1>2, <2>3, <3>3 DEF CheckCache, CacheInv
  <2>5. CASE ~Hit(h)
    BY <1>2, <2>3, <2>5 DEF CheckCache, CacheInv
  <2> QED
    BY <2>4, <2>5
<1>3. ASSUME NEW h \in Handlers, NEW u \in GenCosts,
             NEW o \in {"grounded", "ungrounded", "failed"}, Generate(h, u, o)
      PROVE  CacheInv'
  <2>1. work[h].pc # "idle" /\ collapsed' = collapsed
    BY <1>3 DEF Generate
  <2>2. work[h].run <= run[work[h].customer]
    BY <1>1, <2>1 DEF WorkInv
  <2>3. \/ cache' = cache
        \/ cache' = [src |-> <<work[h].customer, work[h].run>>, day |-> today, at |-> run]
    BY <1>3 DEF Generate, RunOf
  <2> QED
    BY <2>1, <2>2, <2>3 DEF CacheInv
<1>4. CASE UNCHANGED <<cache, collapsed>>
  BY <1>4 DEF CacheInv
<1> QED
  BY <1>2, <1>3, <1>4, CacheMoves

\* Where every job has a cache object of its own and a cut-off, as in index.ts,
\* no sample of a run is served what another sample of the run has stored,
\* however the jobs of many customers share the cache.
THEOREM SamplesStayDistinct == PerJobCache => (Spec => []SamplesAreDistinct)
<1>1. Init => CacheInv
  BY DEF Init, CacheInv
<1>2. ShapeInv /\ CacheInv /\ [Next]_vars => CacheInv'
  BY CacheStep
<1>3. ShapeInv /\ [Next]_vars => ShapeInv'
  BY ShapeStep
<1>4. CASE PerJobCache
  <2>1. CacheInv => SamplesAreDistinct
    BY <1>4 DEF CacheInv, SamplesAreDistinct
  <2>2. Spec => []SamplesAreDistinct
    BY <1>1, <1>2, <1>3, <2>1, ShapeInit, PTL DEF Spec
  <2> QED
    BY <2>2
<1> QED
  BY <1>4

-----------------------------------------------------------------------------
(* The caps                                                                *)

\* What the unit of a handler may still add to the ledger.
Exposure(w) ==
    CASE w.pc = "idle" -> 0
      [] w.pc \in {"cache", "generate"} -> MaxUnit
      [] w.pc = "recordGeneration" -> w.cost + MaxJudge
      [] w.pc = "judge" -> MaxJudge
      [] w.pc \in {"recordFailure", "recordJudge"} -> w.cost

ExposureOf(c, w) == IF w.customer = c THEN Exposure(w) ELSE 0

Exposed(c) == [h \in Handlers |-> ExposureOf(c, work[h])]

InFlight(c) == Total(Exposed(c), Handlers)

Spent(c, w) == SumOver(c, WindowDays(w))

\* What is spent and what may still come exceed a cap by what the handlers may do
\* after they have seen the last sum below it.
WithinSlack(c, w, cap) ==
    Spent(c, w) + InFlight(c) <= cap - 1 + Cardinality(Handlers) * MaxUnit

BudgetInv ==
    \A c \in Customers :
        /\ WithinSlack(c, WeekDays, WeeklyCap)
        /\ ~blind => WithinSlack(c, MonthDays, MonthlyCap)

LEMMA ExposureFits ==
    ASSUME NEW w, w.pc \in Steps, w.cost \in 0..MaxUnit,
           w.pc = "recordGeneration" => w.cost <= MaxGen
    PROVE  Exposure(w) \in 0..MaxUnit
BY CostsAreBounded DEF Exposure, Steps

LEMMA ExposureIsBounded ==
    ASSUME ShapeInv, NEW c \in Customers
    PROVE  /\ \A h \in Handlers : Exposed(c)[h] \in 0..MaxUnit
           /\ InFlight(c) \in Nat
           /\ InFlight(c) <= Cardinality(Handlers) * MaxUnit
<1>1. ASSUME NEW h \in Handlers PROVE Exposure(work[h]) \in 0..MaxUnit
  <2>1. work[h].pc \in Steps /\ work[h].cost \in 0..MaxUnit
    BY DEF ShapeInv, TypeOK, SpendTypeOK
  <2>2. work[h].pc = "recordGeneration" => work[h].cost <= MaxGen
    BY DEF ShapeInv, WorkInv
  <2> QED
    BY <2>1, <2>2, ExposureFits
<1>2. \A h \in Handlers : Exposed(c)[h] \in 0..MaxUnit
  BY <1>1, CostsAreBounded DEF Exposed, ExposureOf
<1>3. InFlight(c) <= Cardinality(Handlers) * MaxUnit
  BY <1>2, CostsAreBounded, HandlersAreCounted, TotalIsBounded DEF InFlight
<1>4. InFlight(c) \in Nat
  <2>1. \A h \in Handlers : Exposed(c)[h] \in Nat
    BY <1>2, CostsAreBounded
  <2> QED
    BY <2>1, HandlersAreCounted, TotalIsNat DEF InFlight
<1> QED
  BY <1>2, <1>3, <1>4

LEMMA SlackIsNat == Cardinality(Handlers) * MaxUnit \in Nat
BY CostsAreBounded, HandlersAreCounted

LEMMA SpentIsNat ==
    ASSUME LedgerTypeOK, NEW c \in Customers, NEW w \in Nat
    PROVE  Spent(c, w) \in Nat
<1>1. WindowDays(w) \in SUBSET Days
  BY DEF WindowDays
<1> QED
  BY <1>1, UsageIsNat DEF Spent

\* Whoever has just been seen below the cap has the slack before him.
LEMMA BelowCap ==
    ASSUME ShapeInv, NEW c \in Customers, NEW w \in Nat, NEW cap \in Nat \ {0}, Spent(c, w) < cap
    PROVE  WithinSlack(c, w, cap)
<1>1. Spent(c, w) \in Nat
  BY SpentIsNat DEF ShapeInv, TypeOK
<1> QED
  BY <1>1, ExposureIsBounded, SlackIsNat DEF WithinSlack

LEMMA NextExposureIsBounded ==
    ASSUME ShapeInv', NEW c \in Customers
    PROVE  InFlight(c)' \in Nat /\ InFlight(c)' <= Cardinality(Handlers) * MaxUnit
<1> DEFINE f == [k \in Handlers |-> ExposureOf(c, work'[k])]
<1>1. \A k \in Handlers : f[k] \in 0..MaxUnit
  <2>1. ASSUME NEW k \in Handlers PROVE Exposure(work'[k]) \in 0..MaxUnit
    <3>1. /\ work'[k].pc \in Steps /\ work'[k].cost \in 0..MaxUnit
          /\ work'[k].pc = "recordGeneration" => work'[k].cost <= MaxGen
      BY DEF ShapeInv, TypeOK, SpendTypeOK, WorkInv
    <3> QED
      BY <3>1, ExposureFits
  <2> QED
    BY <2>1, CostsAreBounded DEF ExposureOf
<1> HIDE DEF f
<1>2. Total(f, Handlers) <= Cardinality(Handlers) * MaxUnit
  BY <1>1, CostsAreBounded, HandlersAreCounted, TotalIsBounded
<1>3. Total(f, Handlers) \in Nat
  <2>1. \A k \in Handlers : f[k] \in Nat
    BY <1>1, CostsAreBounded
  <2> QED
    BY <2>1, HandlersAreCounted, TotalIsNat
<1>4. InFlight(c)' = Total(f, Handlers)
  BY DEF InFlight, Exposed, f
<1> QED
  BY <1>2, <1>3, <1>4

LEMMA NextBelowCap ==
    ASSUME ShapeInv', NEW c \in Customers, NEW w \in Nat, NEW cap \in Nat \ {0},
           Spent(c, w)' \in Nat, Spent(c, w)' < cap
    PROVE  WithinSlack(c, w, cap)'
<1>1. InFlight(c)' \in Nat /\ InFlight(c)' <= Cardinality(Handlers) * MaxUnit
  BY NextExposureIsBounded
<1> QED
  BY <1>1, SlackIsNat DEF WithinSlack

\* Nobody has spent anything before the first call.
LEMMA NothingSpent ==
    ASSUME NEW c \in Customers, NEW w \in Nat, WindowDays(w) \cap DOMAIN costDaily[c] = {}
    PROVE  Spent(c, w) = 0
BY FS_EmptySet DEF Spent, SumOver, Total

\* As the days go by, a window loses days and gains empty ones.
LEMMA WindowsSlide ==
    ASSUME LedgerTypeOK, NEW c \in Customers, NEW w \in Nat, today' \in Nat,
           today <= today', costDaily' = costDaily
    PROVE  Spent(c, w)' <= Spent(c, w)
<1> DEFINE f == costDaily[c]
           S == WindowDays(w)' \cap DOMAIN f
           T == WindowDays(w) \cap DOMAIN f
<1>1. DOMAIN f \subseteq 1..today /\ today \in Nat
  BY LedgerAssumption DEF LedgerTypeOK, Days
<1>2. S \subseteq T
  BY <1>1, LedgerAssumption DEF WindowDays, Days
<1>3. IsFiniteSet(T)
  <2>1. IsFiniteSet(Days)
    BY LedgerAssumption, FS_Interval DEF Days
  <2>2. T \subseteq Days
    BY DEF WindowDays
  <2> QED
    BY <2>1, <2>2, FS_Subset
<1>4. \A d \in T : f[d] \in Nat
  BY DEF LedgerTypeOK
<1>5. \A d \in S : f[d] \in Nat /\ f[d] <= f[d]
  BY <1>2, <1>4
<1>6. Total(f, S) <= Total(f, T)
  <2> HIDE DEF f, S, T
  <2> QED
    BY <1>2, <1>3, <1>4, <1>5, TotalGrows
<1>7. Spent(c, w)' = Total(f, S) /\ Spent(c, w) = Total(f, T)
  BY DEF Spent, SumOver
<1> QED
  BY <1>6, <1>7

\* A row is added to the day of today, which is in every window.
LEMMA RowIsAdded ==
    ASSUME NEW D, NEW f \in [D -> Nat], NEW t, NEW cents \in Nat, NEW W, IsFiniteSet(W), t \in W,
           NEW g, \A d \in D \cup {t} : g[d] = (IF d \in D THEN f[d] ELSE 0)
                                                + (IF d = t THEN cents ELSE 0)
    PROVE  Total(g, W \cap (D \cup {t})) = Total(f, W \cap D) + cents
<1> DEFINE S == W \cap D
           T == W \cap (D \cup {t})
           R == S \ {t}
<1>1. T \ {t} = R /\ t \in T
  OBVIOUS
<1>2. IsFiniteSet(S) /\ IsFiniteSet(T) /\ IsFiniteSet(R)
  BY FS_Subset
<1>3. \A d \in T : g[d] \in Nat
  OBVIOUS
<1>4. \A d \in S : f[d] \in Nat
  OBVIOUS
<1>5. \A d \in R : f[d] = g[d]
  OBVIOUS
<1>6. g[t] = (IF t \in D THEN f[t] ELSE 0) + cents
  OBVIOUS
<1> HIDE DEF S, T, R
<1>7. Total(g, T) = g[t] + Total(g, R)
  BY <1>1, <1>2, <1>3, TotalSplits
<1>8. Total(g, R) = Total(f, R)
  BY <1>5 DEF Total
<1>9. Total(f, R) \in Nat
  BY <1>2, <1>4, TotalIsNat DEF R
<1>10. Total(f, S) = (IF t \in D THEN f[t] ELSE 0) + Total(f, R)
  <2>1. CASE t \in D
    <3>1. t \in S
      BY <2>1 DEF S
    <3>2. Total(f, S) = f[t] + Total(f, S \ {t})
      BY <1>2, <1>4, <3>1, TotalSplits
    <3> QED
      BY <2>1, <3>2 DEF R
  <2>2. CASE t \notin D
    <3>1. S = R
      BY <2>2 DEF S, R
    <3> QED
      BY <1>9, <2>2, <3>1
  <2> QED
    BY <2>1, <2>2
<1>11. (IF t \in D THEN f[t] ELSE 0) \in Nat
  OBVIOUS
<1>12. Total(g, T) = Total(f, S) + cents
  BY <1>6, <1>7, <1>8, <1>9, <1>10, <1>11
<1> QED
  BY <1>12 DEF S, T

LEMMA SpentGrows ==
    ASSUME LedgerTypeOK, NEW c \in Customers, NEW cents \in Nat, Record(c, cents), today' = today,
           NEW d \in Customers, NEW w \in Nat \ {0}
    PROVE  Spent(d, w)' = Spent(d, w) + (IF d = c THEN cents ELSE 0)
<1> DEFINE f == costDaily[c]
           D == DOMAIN f
           g == [k \in D \cup {today} |->
                   (IF k \in D THEN f[k] ELSE 0) + (IF k = today THEN cents ELSE 0)]
<1>1. today \in Days /\ f \in [D -> Nat]
  BY DEF LedgerTypeOK
<1>2. WindowDays(w)' = WindowDays(w)
  BY DEF WindowDays
<1>3. costDaily' = [costDaily EXCEPT ![c] = g]
  BY DEF Record
<1>4. DOMAIN g = D \cup {today}
  OBVIOUS
<1>5. costDaily'[d] = IF d = c THEN g ELSE costDaily[d]
  <2> HIDE DEF g
  <2> QED
    BY <1>3 DEF LedgerTypeOK
<1>6. CASE d = c
  <2>1. IsFiniteSet(WindowDays(w)) /\ today \in WindowDays(w)
    <3>1. IsFiniteSet(Days)
      BY LedgerAssumption, FS_Interval DEF Days
    <3>2. WindowDays(w) \subseteq Days
      BY DEF WindowDays
    <3>3. today \in WindowDays(w)
      BY <1>1, LedgerAssumption DEF WindowDays, Days
    <3> QED
      BY <3>1, <3>2, <3>3, FS_Subset
  <2>2. Total(g, WindowDays(w) \cap (D \cup {today})) = Total(f, WindowDays(w) \cap D) + cents
    <3>1. \A k \in D \cup {today} :
             g[k] = (IF k \in D THEN f[k] ELSE 0) + (IF k = today THEN cents ELSE 0)
      OBVIOUS
    <3> HIDE DEF g, D, f
    <3> QED
      BY <1>1, <2>1, <3>1, RowIsAdded
  <2> HIDE DEF g
  <2>3. Spent(d, w)' = Total(g, WindowDays(w) \cap (D \cup {today}))
    BY <1>2, <1>4, <1>5, <1>6 DEF Spent, SumOver
  <2>4. Spent(d, w) = Total(f, WindowDays(w) \cap D)
    BY <1>6 DEF Spent, SumOver
  <2> QED
    BY <1>6, <2>2, <2>3, <2>4
<1>7. CASE d # c
  <2>1. Spent(d, w)' = Spent(d, w)
    <3> HIDE DEF g
    <3> QED
      BY <1>2, <1>5, <1>7 DEF Spent, SumOver
  <2> QED
    BY <1>7, <2>1, SpentIsNat
<1> QED
  BY <1>6, <1>7

\* A handler goes from w to v after spending something: what it may still add
\* shrinks by that.
LEMMA HandlerMoves ==
    ASSUME ShapeInv, ShapeInv', NEW h \in Handlers, work[h].customer \in Customers,
           NEW v, work' = [work EXCEPT ![h] = v],
           v.customer \in {work[h].customer, None}, NEW spent \in Nat,
           Exposure(v) + spent <= Exposure(work[h]),
           NEW c \in Customers
    PROVE  InFlight(c)' + (IF c = work[h].customer THEN spent ELSE 0) <= InFlight(c)
<1> DEFINE e == Exposed(c)
           f == [k \in Handlers |-> ExposureOf(c, work'[k])]
           R == Handlers \ {h}
<1>1. \A k \in Handlers : work'[k] = IF k = h THEN v ELSE work[k]
  BY DEF ShapeInv, TypeOK, SpendTypeOK
<1>2. \A k \in Handlers : e[k] \in 0..MaxUnit
  BY ExposureIsBounded
<1>3. \A k \in Handlers : f[k] \in 0..MaxUnit
  <2>1. ASSUME NEW k \in Handlers PROVE Exposure(work'[k]) \in 0..MaxUnit
    <3>1. /\ work'[k].pc \in Steps /\ work'[k].cost \in 0..MaxUnit
          /\ work'[k].pc = "recordGeneration" => work'[k].cost <= MaxGen
      BY DEF ShapeInv, TypeOK, SpendTypeOK, WorkInv
    <3> QED
      BY <3>1, ExposureFits
  <2> QED
    BY <2>1, CostsAreBounded DEF ExposureOf
<1>4. \A k \in R : f[k] = e[k]
  BY <1>1 DEF Exposed
<1>5. e[h] = ExposureOf(c, work[h]) /\ f[h] = ExposureOf(c, v)
  BY <1>1 DEF Exposed
<1>6. f[h] + (IF c = work[h].customer THEN spent ELSE 0) <= e[h]
  <2>2. CASE c = work[h].customer
    <3>1. e[h] = Exposure(work[h])
      BY <1>5, <2>2 DEF ExposureOf
    <3>2. CASE v.customer = c
      BY <1>5, <2>2, <3>1, <3>2 DEF ExposureOf
    <3>3. CASE v.customer # c
      <4>1. f[h] = 0 /\ v.customer = None
        BY <1>5, <2>2, <3>3 DEF ExposureOf
      <4>2. Exposure(v) \in Nat
        <5>1. work'[h] = v /\ v.pc = "idle"
          BY <1>1, <4>1 DEF ShapeInv, WorkInv
        <5> QED
          BY <5>1 DEF Exposure
      <4> QED
        BY <1>2, <2>2, <3>1, <4>1, <4>2, CostsAreBounded
    <3> QED
      BY <3>2, <3>3
  <2>3. CASE c # work[h].customer
    <3>1. e[h] = 0 /\ f[h] = 0
      BY <1>5, <2>3, LedgerAssumption DEF ExposureOf
    <3> QED
      BY <2>3, <3>1
  <2> QED
    BY <2>2, <2>3
<1> HIDE DEF e, f, R
<1>7. (\A k \in Handlers : e[k] \in Nat) /\ (\A k \in Handlers : f[k] \in Nat)
  BY <1>2, <1>3, CostsAreBounded
<1>8. Total(e, Handlers) = e[h] + Total(e, R) /\ Total(f, Handlers) = f[h] + Total(f, R)
  BY <1>7, HandlersAreCounted, TotalSplits DEF R
<1>9. Total(f, R) = Total(e, R)
  BY <1>4 DEF Total
<1>10. Total(e, R) \in Nat
  <2>1. IsFiniteSet(R) /\ \A k \in R : e[k] \in Nat
    BY <1>7, HandlersAreCounted, FS_Subset DEF R
  <2> QED
    BY <2>1, TotalIsNat
<1>11. e[h] \in Nat /\ f[h] \in Nat
  BY <1>7
<1>12. Total(f, Handlers) + (IF c = work[h].customer THEN spent ELSE 0) <= Total(e, Handlers)
  BY <1>6, <1>8, <1>9, <1>10, <1>11
<1>13. InFlight(c)' = Total(f, Handlers)
  BY DEF InFlight, Exposed, f
<1> QED
  BY <1>12, <1>13 DEF InFlight, e

\* What a check reads is what is spent, or there is nothing in the window.
LEMMA ReadingsAreSums ==
    ASSUME LedgerTypeOK, NEW c \in Customers, NEW w \in Nat, NEW x \in Readings(c, w)
    PROVE  /\ x = None => Spent(c, w) = 0
           /\ x # None => x \in Nat /\ (x = Spent(c, w) \/ Spent(c, w) = 0)
<1> DEFINE sum == SumCostSince(c, w)
<1>1. CASE WindowDays(w) \cap DOMAIN costDaily[c] = {}
  <2>1. sum = None /\ Spent(c, w) = 0
    BY <1>1, NothingSpent DEF SumCostSince, SumOrNull
  <2>2. x = None \/ x \in 0..SumOver(c, {today - w})
    BY <2>1 DEF Readings
  <2> QED
    BY <2>1, <2>2
<1>2. CASE WindowDays(w) \cap DOMAIN costDaily[c] # {}
  <2>1. sum = Spent(c, w) /\ Spent(c, w) \in Nat
    BY <1>2, SpentIsNat DEF SumCostSince, SumOrNull, Spent
  <2>2. x = sum
    BY <2>1, LedgerAssumption DEF Readings
  <2> QED
    BY <2>1, <2>2, LedgerAssumption
<1> QED
  BY <1>1, <1>2

\* The week lies within the month.
LEMMA WeekInMonth ==
    ASSUME LedgerTypeOK, NEW c \in Customers,
           WindowDays(MonthDays) \cap DOMAIN costDaily[c] = {}
    PROVE  Spent(c, WeekDays) = 0
<1>1. WindowDays(WeekDays) \subseteq WindowDays(MonthDays)
  BY SpendAssumption, LedgerAssumption DEF WindowDays, Days, LedgerTypeOK
<1> QED
  BY <1>1, NothingSpent, SpendAssumption

LEMMA NoReadingNoRows ==
    ASSUME LedgerTypeOK, NEW c \in Customers, NEW w \in Nat, None \in Readings(c, w)
    PROVE  WindowDays(w) \cap DOMAIN costDaily[c] = {}
<1>1. SUFFICES ASSUME WindowDays(w) \cap DOMAIN costDaily[c] # {} PROVE FALSE
  OBVIOUS
<1>2. SumCostSince(c, w) = Spent(c, w) /\ Spent(c, w) \in Nat
  BY <1>1, SpentIsNat DEF SumCostSince, SumOrNull, Spent
<1> QED
  BY <1>2, LedgerAssumption DEF Readings

LEMMA GateStep ==
    ASSUME ShapeInv, ShapeInv', BudgetInv, NEW h \in Handlers, NEW c \in Customers,
           BudgetGate(h, c)
    PROVE  BudgetInv'
<1>1. LedgerTypeOK /\ LedgerTypeOK' /\ WeekDays \in Nat /\ MonthDays \in Nat
  BY SpendAssumption DEF ShapeInv, TypeOK
<1>2. UNCHANGED ledgerVars
  BY DEF BudgetGate
<1>3. \A d \in Customers, w \in Nat : Spent(d, w)' = Spent(d, w)
  BY <1>2 DEF Spent, SumOver, WindowDays, ledgerVars
<1>4. PICK week \in Readings(c, WeekDays), month \in Readings(c, MonthDays) :
         LET missing == None \in {week, month}
             passes == IF missing THEN IsNewCustomer(c) ELSE WithinCap(week, month)
         IN /\ refused' = [refused EXCEPT ![c] = missing /\ ~IsNewCustomer(c)]
            /\ blind' = (blind \/ (missing /\ passes /\ month # None /\ month >= MonthlyCap))
            /\ work' = IF passes
                       THEN [work EXCEPT ![h] = [pc |-> "cache", customer |-> c,
                                                 run |-> run[c], cost |-> 0]]
                       ELSE work
  BY DEF BudgetGate
<1> DEFINE missing == None \in {week, month}
           passes == IF missing THEN IsNewCustomer(c) ELSE WithinCap(week, month)
<1>5. /\ missing <=> None \in {week, month}
      /\ ~missing /\ passes => WithinCap(week, month)
      /\ blind' = (blind \/ (missing /\ passes /\ month # None /\ month >= MonthlyCap))
      /\ work' = IF passes
                 THEN [work EXCEPT ![h] = [pc |-> "cache", customer |-> c,
                                           run |-> run[c], cost |-> 0]]
                 ELSE work
  BY <1>4
<1> HIDE DEF missing, passes
<1>6. CASE ~passes
  <2>1. work' = work /\ (blind => blind')
    BY <1>5, <1>6
  <2>2. \A d \in Customers : InFlight(d)' = InFlight(d)
    BY <2>1 DEF InFlight, Exposed, ExposureOf, Exposure
  <2> QED
    BY <1>1, <1>3, <2>1, <2>2 DEF BudgetInv, WithinSlack
<1>7. CASE passes
  <2>1. /\ Spent(c, WeekDays) < WeeklyCap
        /\ ~blind' => Spent(c, MonthDays) < MonthlyCap
    <3>1. /\ week = None => Spent(c, WeekDays) = 0
          /\ week # None => week \in Nat /\ (week = Spent(c, WeekDays) \/ Spent(c, WeekDays) = 0)
      BY <1>1, ReadingsAreSums
    <3>2. /\ month = None => Spent(c, MonthDays) = 0
          /\ month # None => month \in Nat /\ (month = Spent(c, MonthDays) \/ Spent(c, MonthDays) = 0)
      BY <1>1, ReadingsAreSums
    <3>3. month = None => Spent(c, WeekDays) = 0
      BY <1>1, NoReadingNoRows, WeekInMonth
    <3>4. CASE missing
      <4>1. Spent(c, WeekDays) = 0
        BY <1>5, <3>1, <3>3, <3>4
      <4>2. ~blind' => month = None \/ month < MonthlyCap
        <5>1. ~blind' => month = None \/ ~(month >= MonthlyCap)
          BY <1>5, <1>7, <3>4, Zenon
        <5>2. month # None /\ ~(month >= MonthlyCap) => month < MonthlyCap
          BY <3>2, SpendAssumption
        <5> QED
          BY <5>1, <5>2
      <4> QED
        BY <3>2, <4>1, <4>2, SpendAssumption
    <3>5. CASE ~missing
      <4>1. week < WeeklyCap /\ month < MonthlyCap /\ week # None /\ month # None
        BY <1>5, <1>7, <3>5 DEF WithinCap
      <4> QED
        BY <3>1, <3>2, <4>1, SpendAssumption
    <3> QED
      BY <3>4, <3>5
  <2>2. /\ Spent(c, WeekDays)' = Spent(c, WeekDays)
        /\ Spent(c, MonthDays)' = Spent(c, MonthDays)
    BY <1>1, <1>3
  <2>3. Spent(c, WeekDays) \in Nat /\ Spent(c, MonthDays) \in Nat
    BY <1>1, SpentIsNat
  <2>4. WithinSlack(c, WeekDays, WeeklyCap)'
    BY <1>1, <2>1, <2>2, <2>3, NextBelowCap, SpendAssumption
  <2>5. ~blind' => WithinSlack(c, MonthDays, MonthlyCap)'
    BY <1>1, <2>1, <2>2, <2>3, NextBelowCap, SpendAssumption
  <2>6. ASSUME NEW d \in Customers, d # c PROVE InFlight(d)' = InFlight(d)
    <3>1. work[h].customer = None
      BY DEF BudgetGate, ShapeInv, WorkInv
    <3>2. \A k \in Handlers :
             work'[k] = IF k = h THEN [pc |-> "cache", customer |-> c, run |-> run[c], cost |-> 0]
                        ELSE work[k]
      BY <1>5, <1>7 DEF ShapeInv, TypeOK, SpendTypeOK
    <3>3. \A k \in Handlers : ExposureOf(d, work'[k]) = ExposureOf(d, work[k])
      BY <2>6, <3>1, <3>2, LedgerAssumption DEF ExposureOf
    <3>4. Exposed(d)' = [k \in Handlers |-> ExposureOf(d, work'[k])]
      BY DEF Exposed
    <3>5. Exposed(d)' = Exposed(d)
      BY <3>3, <3>4 DEF Exposed
    <3> QED
      BY <3>5 DEF InFlight
  <2>7. blind => blind'
    BY <1>5
  <2> QED
    BY <1>1, <1>3, <2>4, <2>5, <2>6, <2>7 DEF BudgetInv, WithinSlack
<1> QED
  BY <1>6, <1>7

\* A step of a handler that has a unit: it spends nothing, or records what it has
\* spent, and may add less from then on.
LEMMA UnitStep ==
    ASSUME ShapeInv, ShapeInv', BudgetInv, NEW h \in Handlers, work[h].customer \in Customers,
           NEW v, work' = [work EXCEPT ![h] = v],
           v.customer \in {work[h].customer, None}, NEW spent \in Nat,
           Exposure(v) + spent <= Exposure(work[h]),
           \A d \in Customers, w \in Nat \ {0} :
              Spent(d, w)' = Spent(d, w) + (IF d = work[h].customer THEN spent ELSE 0),
           blind' = blind
    PROVE  BudgetInv'
<1>1. SUFFICES ASSUME NEW c \in Customers, NEW w \in Nat \ {0}, NEW cap \in Nat \ {0},
                      WithinSlack(c, w, cap)
               PROVE  WithinSlack(c, w, cap)'
  BY SpendAssumption DEF BudgetInv
<1> DEFINE s == IF c = work[h].customer THEN spent ELSE 0
<1>2. InFlight(c)' + s <= InFlight(c)
  BY HandlerMoves
<1>3. Spent(c, w)' = Spent(c, w) + s
  OBVIOUS
<1>4. Spent(c, w) \in Nat /\ InFlight(c) \in Nat /\ InFlight(c)' \in Nat /\ s \in Nat
  BY SpentIsNat, ExposureIsBounded, NextExposureIsBounded DEF ShapeInv, TypeOK
<1> HIDE DEF s
<1>5. Spent(c, w)' + InFlight(c)' <= Spent(c, w) + InFlight(c)
  BY <1>2, <1>3, <1>4
<1>6. Spent(c, w)' \in Nat
  BY <1>3, <1>4
<1> QED
  BY <1>1, <1>4, <1>5, <1>6, SlackIsNat DEF WithinSlack

\* Nothing is spent and nobody moves; days may go by.
LEMMA BudgetFrame ==
    ASSUME ShapeInv, ShapeInv', BudgetInv, work' = work, blind' = blind,
           costDaily' = costDaily, today <= today'
    PROVE  BudgetInv'
<1>1. LedgerTypeOK /\ LedgerTypeOK' /\ today' \in Nat
  BY LedgerAssumption DEF ShapeInv, TypeOK, LedgerTypeOK, Days
<1>2. SUFFICES ASSUME NEW c \in Customers, NEW w \in Nat \ {0}, NEW cap \in Nat \ {0},
                      WithinSlack(c, w, cap)
               PROVE  WithinSlack(c, w, cap)'
  BY SpendAssumption DEF BudgetInv
<1>3. Spent(c, w)' <= Spent(c, w)
  BY <1>1, WindowsSlide
<1>4. Spent(c, w)' \in Nat
  <2>1. WindowDays(w)' \in SUBSET Days
    BY DEF WindowDays
  <2>2. (WindowDays(w)' \cap DOMAIN costDaily[c]) \subseteq WindowDays(w)'
    OBVIOUS
  <2>3. IsFiniteSet(WindowDays(w)' \cap DOMAIN costDaily[c])
    BY <2>1, LedgerAssumption, FS_Interval, FS_Subset DEF Days
  <2>4. \A d \in WindowDays(w)' \cap DOMAIN costDaily[c] : costDaily[c][d] \in Nat
    BY <1>1 DEF LedgerTypeOK
  <2>5. Total(costDaily[c], WindowDays(w)' \cap DOMAIN costDaily[c]) \in Nat
    BY <2>3, <2>4, TotalIsNat
  <2> QED
    BY <2>5 DEF Spent, SumOver
<1>5. InFlight(c)' = InFlight(c)
  BY DEF InFlight, Exposed
<1>6. Spent(c, w) \in Nat /\ InFlight(c) \in Nat
  BY <1>1, SpentIsNat, ExposureIsBounded
<1> QED
  BY <1>2, <1>3, <1>4, <1>5, <1>6, SlackIsNat DEF WithinSlack

\* A step of a handler with a unit that writes nothing to the ledger.
LEMMA QuietStep ==
    ASSUME ShapeInv, ShapeInv', BudgetInv, NEW h \in Handlers, work[h].customer \in Customers,
           NEW v, work' = [work EXCEPT ![h] = v],
           v.customer \in {work[h].customer, None},
           Exposure(v) \in Nat, Exposure(v) <= Exposure(work[h]),
           UNCHANGED ledgerVars, blind' = blind
    PROVE  BudgetInv'
<1>1. ASSUME NEW d \in Customers, NEW w \in Nat \ {0}
      PROVE  Spent(d, w)' = Spent(d, w) + (IF d = work[h].customer THEN 0 ELSE 0)
  <2>1. Spent(d, w)' = Spent(d, w)
    BY DEF Spent, SumOver, WindowDays, ledgerVars
  <2>2. Spent(d, w) \in Nat
    BY SpentIsNat DEF ShapeInv, TypeOK
  <2> QED
    BY <2>1, <2>2
<1>2. Exposure(v) + 0 <= Exposure(work[h])
  OBVIOUS
<1> QED
  BY <1>1, <1>2, UnitStep

\* A step that records what the last call has cost.
LEMMA RecordingStep ==
    ASSUME ShapeInv, ShapeInv', BudgetInv, NEW h \in Handlers, Recorded(h),
           NEW v, work' = [work EXCEPT ![h] = v],
           v.customer \in {work[h].customer, None},
           Exposure(v) + work[h].cost <= Exposure(work[h]),
           blind' = blind
    PROVE  BudgetInv'
<1>1. work[h].customer \in Customers /\ work[h].cost \in Nat
  BY Busy, CostsAreBounded DEF Recorded, ShapeInv, TypeOK
<1>2. \A d \in Customers, w \in Nat \ {0} :
         Spent(d, w)' = Spent(d, w) + (IF d = work[h].customer THEN work[h].cost ELSE 0)
  BY <1>1, SpentGrows DEF Recorded, ShapeInv, TypeOK
<1> QED
  BY <1>1, <1>2, UnitStep

\* The cases of Exposure, one by one.
LEMMA ExposureAt ==
    ASSUME NEW w
    PROVE  /\ w.pc = "idle" => Exposure(w) = 0
           /\ w.pc \in {"cache", "generate"} => Exposure(w) = MaxUnit
           /\ w.pc = "recordGeneration" => Exposure(w) = w.cost + MaxJudge
           /\ w.pc = "judge" => Exposure(w) = MaxJudge
           /\ w.pc \in {"recordFailure", "recordJudge"} => Exposure(w) = w.cost
BY DEF Exposure

LEMMA BudgetHandlerStep ==
    ASSUME ShapeInv, ShapeInv', BudgetInv, NEW h \in Handlers, HandlerStep(h)
    PROVE  BudgetInv'
<1>1. work[h].pc # "idle" /\ blind' = blind
  BY DEF HandlerStep, CheckCache, Generate, RecordGeneration, RecordFailure, Judge, RecordJudge
<1>2. work[h].customer \in Customers /\ work[h].cost \in Nat
  BY <1>1, Busy, CostsAreBounded DEF ShapeInv, TypeOK
<1>3. ASSUME NEW pc, NEW cost, GoesOn(h, pc, cost)
      PROVE  \E v : /\ work' = [work EXCEPT ![h] = v]
                    /\ v.pc = pc /\ v.cost = cost /\ v.customer \in {work[h].customer, None}
  <2>1. /\ work' = [work EXCEPT ![h] = [pc |-> pc, customer |-> work[h].customer,
                                        run |-> work[h].run, cost |-> cost]]
        /\ [pc |-> pc, customer |-> work[h].customer, run |-> work[h].run, cost |-> cost].pc = pc
        /\ [pc |-> pc, customer |-> work[h].customer, run |-> work[h].run, cost |-> cost].cost = cost
        /\ [pc |-> pc, customer |-> work[h].customer, run |-> work[h].run,
            cost |-> cost].customer = work[h].customer
    BY <1>3 DEF GoesOn
  <2> QED
    BY <2>1
<1>4. ASSUME NEW g \in BOOLEAN, CheckCache(h, g) PROVE BudgetInv'
  <2>1. PICK pc \in {"recordGeneration", "generate"} : GoesOn(h, pc, 0)
    BY <1>4 DEF CheckCache
  <2>2. PICK v : /\ work' = [work EXCEPT ![h] = v]
                 /\ v.pc = pc /\ v.cost = 0 /\ v.customer \in {work[h].customer, None}
    BY <1>3, <2>1
  <2>3. work[h].pc = "cache" /\ UNCHANGED ledgerVars
    BY <1>4 DEF CheckCache
  <2>4. Exposure(v) \in Nat /\ Exposure(v) <= Exposure(work[h])
    BY <2>2, <2>3, ExposureAt, CostsAreBounded
  <2> QED
    BY <1>1, <1>2, <2>2, <2>3, <2>4, QuietStep
<1>5. ASSUME NEW u \in GenCosts, NEW o \in {"grounded", "ungrounded", "failed"}, Generate(h, u, o)
      PROVE  BudgetInv'
  <2>1. PICK pc \in {"recordGeneration", "recordFailure"} : GoesOn(h, pc, u)
    BY <1>5 DEF Generate
  <2>2. PICK v : /\ work' = [work EXCEPT ![h] = v]
                 /\ v.pc = pc /\ v.cost = u /\ v.customer \in {work[h].customer, None}
    BY <1>3, <2>1
  <2>3. work[h].pc = "generate" /\ UNCHANGED ledgerVars
    BY <1>5 DEF Generate
  <2>4. Exposure(v) \in Nat /\ Exposure(v) <= Exposure(work[h])
    BY <2>2, <2>3, ExposureAt, CostsAreBounded
  <2> QED
    BY <1>1, <1>2, <2>2, <2>3, <2>4, QuietStep
<1>6. CASE RecordGeneration(h)
  <2>1. GoesOn(h, "judge", 0) /\ work[h].pc = "recordGeneration" /\ Recorded(h)
    BY <1>6 DEF RecordGeneration, Recorded, Ledger
  <2>2. PICK v : /\ work' = [work EXCEPT ![h] = v]
                 /\ v.pc = "judge" /\ v.cost = 0 /\ v.customer \in {work[h].customer, None}
    BY <1>3, <2>1
  <2>3. Exposure(v) + work[h].cost <= Exposure(work[h])
    BY <1>2, <2>1, <2>2, ExposureAt, CostsAreBounded
  <2> QED
    BY <1>1, <2>1, <2>2, <2>3, RecordingStep
<1>7. CASE RecordFailure(h)
  <2>1. work' = [work EXCEPT ![h] = Idle] /\ work[h].pc = "recordFailure" /\ Recorded(h)
    BY <1>7 DEF RecordFailure, Recorded, Ledger
  <2>2. Exposure(Idle) + work[h].cost <= Exposure(work[h]) /\ Idle.customer = None
    BY <1>2, <2>1, IdleFits, ExposureAt
  <2> QED
    BY <1>1, <2>1, <2>2, RecordingStep
<1>8. ASSUME NEW u \in JudgeCosts, Judge(h, u) PROVE BudgetInv'
  <2>1. GoesOn(h, "recordJudge", u) /\ work[h].pc = "judge" /\ UNCHANGED ledgerVars
    BY <1>8 DEF Judge
  <2>2. PICK v : /\ work' = [work EXCEPT ![h] = v]
                 /\ v.pc = "recordJudge" /\ v.cost = u /\ v.customer \in {work[h].customer, None}
    BY <1>3, <2>1
  <2>3. Exposure(v) \in Nat /\ Exposure(v) <= Exposure(work[h])
    BY <2>1, <2>2, ExposureAt, CostsAreBounded
  <2> QED
    BY <1>1, <1>2, <2>1, <2>2, <2>3, QuietStep
<1>9. CASE RecordJudge(h)
  <2>1. work' = [work EXCEPT ![h] = Idle] /\ work[h].pc = "recordJudge"
    BY <1>9 DEF RecordJudge
  <2>2. /\ Exposure(Idle) = 0 /\ Exposure(work[h]) = work[h].cost
        /\ Idle.customer = None
    BY <1>2, <2>1, IdleFits, ExposureAt
  <2>3. CASE work[h].cost > 0
    <3>1. Recorded(h)
      BY <1>9, <2>3 DEF RecordJudge, Recorded, Ledger
    <3>2. Exposure(Idle) + work[h].cost <= Exposure(work[h])
      BY <1>2, <2>2
    <3> QED
      BY <1>1, <2>1, <2>2, <3>1, <3>2, RecordingStep
  <2>4. CASE ~(work[h].cost > 0)
    <3>1. UNCHANGED ledgerVars
      BY <1>9, <2>4 DEF RecordJudge, ledgerVars
    <3>2. Exposure(Idle) \in Nat /\ Exposure(Idle) <= Exposure(work[h])
      BY <1>2, <2>2
    <3> QED
      BY <1>1, <1>2, <2>1, <2>2, <3>1, <3>2, QuietStep
  <2> QED
    BY <2>3, <2>4
<1> QED
  BY <1>4, <1>5, <1>6, <1>7, <1>8, <1>9 DEF HandlerStep

LEMMA BudgetDeath ==
    ASSUME ShapeInv, ShapeInv', BudgetInv, NEW h \in Handlers, HandlerDies(h)
    PROVE  BudgetInv'
<1>1. /\ work[h].pc # "idle" /\ blind' = blind /\ UNCHANGED ledgerVars
      /\ work' = [work EXCEPT ![h] = Idle]
  BY DEF HandlerDies
<1>2. work[h].customer \in Customers
  BY <1>1, Busy DEF ShapeInv, TypeOK
<1>3. Exposure(work[h]) \in Nat
  <2>1. Exposure(work[h]) \in 0..MaxUnit
    BY ExposureFits DEF ShapeInv, TypeOK, SpendTypeOK, WorkInv
  <2> QED
    BY <2>1, CostsAreBounded
<1>4. Exposure(Idle) = 0 /\ Idle.customer = None
  BY IdleFits, ExposureAt
<1>5. Exposure(Idle) \in Nat /\ Exposure(Idle) <= Exposure(work[h])
  BY <1>3, <1>4
<1> QED
  BY <1>1, <1>2, <1>4, <1>5, QuietStep

LEMMA BudgetStep ==
    ASSUME ShapeInv, ShapeInv', BudgetInv, [Next]_vars
    PROVE  BudgetInv'
<1>1. today \in Nat
  BY LedgerAssumption DEF ShapeInv, TypeOK, LedgerTypeOK, Days
<1>2. ASSUME NEW c \in Customers, StartRun(c) PROVE BudgetInv'
  BY <1>1, <1>2, BudgetFrame DEF StartRun, ledgerVars
<1>3. ASSUME NEW c \in Customers, NEW h \in Handlers, BudgetGate(h, c) PROVE BudgetInv'
  BY <1>3, GateStep
<1>4. ASSUME NEW h \in Handlers, HandlerStep(h) PROVE BudgetInv'
  BY <1>4, BudgetHandlerStep
<1>5. ASSUME NEW h \in Handlers, HandlerDies(h) PROVE BudgetInv'
  BY <1>5, BudgetDeath
<1>6. CASE NextDay
  <2>1. work' = work /\ blind' = blind /\ costDaily' = costDaily /\ today <= today'
    BY <1>1, <1>6 DEF NextDay, spendVars
  <2> QED
    BY <2>1, BudgetFrame
<1>7. CASE BillingNext /\ UNCHANGED spendVars
  <2>1. UNCHANGED ledgerVars
    BY <1>7 DEF BillingNext, CronClose, StartClose, SkipCustomer, ReadCustomer, InsertInvoice,
                InsertLine, FinishClose, CustomerFails, CloseDies
  <2>2. work' = work /\ blind' = blind /\ costDaily' = costDaily /\ today <= today'
    BY <1>1, <1>7, <2>1 DEF spendVars, ledgerVars
  <2> QED
    BY <2>2, BudgetFrame
<1>8. CASE UNCHANGED vars
  <2>1. work' = work /\ blind' = blind /\ costDaily' = costDaily /\ today <= today'
    BY <1>1, <1>8 DEF vars, spendVars, ledgerVars
  <2> QED
    BY <2>1, BudgetFrame
<1> QED
  BY <1>2, <1>3, <1>4, <1>5, <1>6, <1>7, <1>8 DEF Next

LEMMA BudgetInit == Init /\ ShapeInv => BudgetInv
<1> SUFFICES ASSUME Init, ShapeInv, NEW c \in Customers,
                    NEW w \in Nat, NEW cap \in Nat \ {0}
             PROVE  WithinSlack(c, w, cap)
  BY SpendAssumption DEF BudgetInv
<1>1. DOMAIN costDaily[c] = {}
  BY DEF Init, LedgerInit
<1>2. Spent(c, w) = 0
  BY <1>1, NothingSpent
<1> QED
  BY <1>2, BelowCap

LEMMA BudgetMeansBounded ==
    ASSUME ShapeInv, BudgetInv
    PROVE  OvershootIsBounded
<1> SUFFICES ASSUME NEW c \in Customers, NEW w \in Nat, NEW cap \in Nat \ {0},
                    WithinSlack(c, w, cap)
             PROVE  SumOver(c, WindowDays(w))
                    + Total([h \in Handlers |-> work[h].cost], {h \in Handlers : work[h].customer = c})
                    < cap + Cardinality(Handlers) * MaxUnit
  BY SpendAssumption DEF OvershootIsBounded, BudgetInv
<1> DEFINE f == [h \in Handlers |-> work[h].cost]
           S == {h \in Handlers : work[h].customer = c}
           e == Exposed(c)
<1>1. ASSUME NEW h \in S PROVE f[h] \in Nat /\ f[h] <= e[h]
  <2>1. work[h].pc \in Steps /\ work[h].cost \in 0..MaxUnit /\ work[h].pc # "idle"
    BY LedgerAssumption DEF ShapeInv, TypeOK, SpendTypeOK, WorkInv
  <2>2. work[h].pc = "judge" => work[h].cost = 0
    BY DEF ShapeInv, WorkInv
  <2>3. work[h].cost <= Exposure(work[h])
    BY <2>1, <2>2, ExposureAt, CostsAreBounded DEF Steps
  <2>4. e[h] = Exposure(work[h]) /\ f[h] = work[h].cost
    BY DEF Exposed, ExposureOf
  <2> QED
    BY <2>1, <2>3, <2>4, CostsAreBounded
<1>2. \A h \in Handlers : e[h] \in Nat
  BY ExposureIsBounded, CostsAreBounded
<1> HIDE DEF e, f
<1>3. Total(f, S) <= Total(e, Handlers)
  BY <1>1, <1>2, HandlersAreCounted, TotalGrows
<1>4. Total(f, S) \in Nat
  BY <1>1, HandlersAreCounted, FS_Subset, TotalIsNat
<1>5. Spent(c, w) \in Nat /\ InFlight(c) \in Nat
  BY SpentIsNat, ExposureIsBounded DEF ShapeInv, TypeOK
<1>6. Spent(c, w) + Total(f, S) < cap + Cardinality(Handlers) * MaxUnit
  BY <1>3, <1>4, <1>5, SlackIsNat DEF WithinSlack, InFlight, e
<1> QED
  BY <1>6 DEF f, Spent

\* However many handlers race for however many customers, what is recorded in a
\* window exceeds its cap by less than what the handlers could still spend.
THEOREM OvershootStaysBounded == Spec => []OvershootIsBounded
<1>1. ShapeInv /\ [Next]_vars => ShapeInv'
  BY ShapeStep
<1>2. ShapeInv /\ ShapeInv' /\ BudgetInv /\ [Next]_vars => BudgetInv'
  BY BudgetStep
<1>3. ShapeInv /\ BudgetInv => OvershootIsBounded
  BY BudgetMeansBounded
<1> QED
  BY <1>1, <1>2, <1>3, ShapeInit, BudgetInit, PTL DEF Spec

-----------------------------------------------------------------------------
(* The invoices                                                            *)

DraftOf(i, c, p) == \E s \in Scopes : i = Draft(s, SumLlmUsageForPeriod(c, p))

\* An invoice, and a draft on its way to one, says what the ledger holds for its
\* month now, although it was computed from the ledger of an earlier day.
InvoiceInv ==
    /\ \A k \in DOMAIN invoice : k[2] < PeriodOf(today) /\ DraftOf(invoice[k], k[1], k[2])
    /\ close.stage # "none" => DraftOf(close.draft, close.customer, close.period)

\* The ledger of a month that is over is closed: rows are of today.
LEMMA ClosedMonthStays ==
    ASSUME ShapeInv, [Next]_vars, NEW c \in Customers, NEW p \in Nat, p < PeriodOf(today)
    PROVE  SumLlmUsageForPeriod(c, p)' = SumLlmUsageForPeriod(c, p)
<1> DEFINE W == DaysOfPeriod(p)
<1>1. LedgerTypeOK /\ today \in Nat \ {0}
  BY LedgerAssumption DEF ShapeInv, TypeOK, LedgerTypeOK, Days
<1>2. today \notin W
  BY <1>1, OneMonthEach, PeriodFacts DEF DaysOfPeriod
<1>3. SumLlmUsageForPeriod(c, p) = SumOrNull(c, W) /\ SumLlmUsageForPeriod(c, p)' = SumOrNull(c, W)'
  BY DEF SumLlmUsageForPeriod, DaysOfPeriod
<1> HIDE DEF W
<1>4. CASE costDaily'[c] = costDaily[c]
  <2>1. SumOrNull(c, W)' = IF W' \cap DOMAIN costDaily[c] = {} THEN None
                           ELSE Total(costDaily[c], W' \cap DOMAIN costDaily[c])
    BY <1>4 DEF SumOrNull, SumOver
  <2>2. W' = W
    BY DEF W, DaysOfPeriod
  <2> QED
    BY <1>3, <2>1, <2>2 DEF SumOrNull, SumOver
<1>5. ASSUME NEW h \in Handlers, Recorded(h), c = work[h].customer
      PROVE  SumOrNull(c, W)' = SumOrNull(c, W)
  <2> DEFINE f == costDaily[c]
             D == DOMAIN f
             cents == work[h].cost
             g == [d \in D \cup {today} |->
                     (IF d \in D THEN f[d] ELSE 0) + (IF d = today THEN cents ELSE 0)]
  <2>1. costDaily' = [costDaily EXCEPT ![c] = g]
    BY <1>5 DEF Recorded, Record
  <2>2. f \in [D -> Nat]
    BY <1>1 DEF LedgerTypeOK
  <2>3. DOMAIN g = D \cup {today}
    OBVIOUS
  <2>4. \A d \in W \cap D : g[d] = f[d]
    BY <1>2, <2>2
  <2> HIDE DEF g
  <2>5. costDaily'[c] = g
    BY <1>1, <2>1 DEF LedgerTypeOK
  <2>6. W \cap DOMAIN g = W \cap D
    BY <1>2, <2>3
  <2>7. Total(g, W \cap D) = Total(f, W \cap D)
    <3> HIDE DEF f, D
    <3> QED
      BY <2>4, TotalDependsOn
  <2>8. W' = W
    BY DEF W, DaysOfPeriod
  <2>9. SumOrNull(c, W)' = IF W' \cap DOMAIN g = {} THEN None ELSE Total(g, W' \cap DOMAIN g)
    BY <2>5 DEF SumOrNull, SumOver
  <2> QED
    BY <2>6, <2>7, <2>8, <2>9 DEF SumOrNull, SumOver
<1>6. ASSUME NEW h \in Handlers, Recorded(h), c # work[h].customer
      PROVE  costDaily'[c] = costDaily[c]
  BY <1>1, <1>6 DEF Recorded, Record, LedgerTypeOK
<1> QED
  BY <1>3, <1>4, <1>5, <1>6, LedgerMoves DEF ledgerVars

\* What the steps of the close do to drafts and invoices.
LEMMA BillingMoves ==
    ASSUME ShapeInv, [Next]_vars
    PROVE  \/ invoice' = invoice /\ close'.stage = "none"
           \/ /\ invoice' = invoice
              /\ close.stage # "none"
              /\ UNCHANGED <<close.draft, close.customer, close.period>>
           \/ /\ invoice' = invoice
              /\ today' = today
              /\ \E c \in Customers, s \in Scopes :
                   /\ close'.customer = c /\ close'.period = close.period
                   /\ close'.draft = Draft(s, SumLlmUsageForPeriod(c, close.period))
              /\ close.state = "running"
           \/ /\ close.stage = "invoice"
              /\ invoice' = [k \in DOMAIN invoice \cup {Key} |->
                               IF k = Key THEN close.draft ELSE invoice[k]]
              /\ UNCHANGED <<close.draft, close.customer, close.period>>
<1>1. /\ close = [state |-> close.state, left |-> close.left, period |-> close.period,
                  todo |-> close.todo, customer |-> close.customer, stage |-> close.stage,
                  draft |-> close.draft]
      /\ CloseInv
  BY DEF ShapeInv, TypeOK, BillingTypeOK, CloseType
<1>2. CASE UNCHANGED billingVars
  BY <1>2 DEF billingVars
<1>3. CASE CronClose
  <2>1. close' = [state |-> "waiting", left |-> CloseRetries, period |-> 0, todo |-> {},
                  customer |-> None, stage |-> "none", draft |-> None]
    BY <1>3 DEF CronClose, Waiting, NoClose
  <2> QED
    BY <1>3, <2>1 DEF CronClose
<1>4. CASE StartClose
  <2>1. close'.stage = close.stage /\ close.stage = "none"
    BY <1>1, <1>4 DEF StartClose, CloseInv
  <2> QED
    BY <1>4, <2>1 DEF StartClose
<1>5. ASSUME NEW c \in Customers, SkipCustomer(c)
      PROVE  invoice' = invoice /\ close'.stage = "none"
  <2>1. close'.stage = close.stage /\ close.stage = "none"
    BY <1>1, <1>5 DEF SkipCustomer, CloseInv
  <2> QED
    BY <1>5, <2>1 DEF SkipCustomer
<1>6. ASSUME NEW c \in Customers, NEW s \in Scopes, ReadCustomer(c, s)
      PROVE  /\ invoice' = invoice /\ today' = today /\ close.state = "running"
             /\ close'.customer = c /\ close'.period = close.period
             /\ close'.draft = Draft(s, SumLlmUsageForPeriod(c, close.period))
  <2> DEFINE i == Draft(s, SumLlmUsageForPeriod(c, close.period))
  <2>1. close' = [close EXCEPT !.customer = c, !.todo = @ \ {c}, !.stage = "invoice", !.draft = i]
    BY <1>6 DEF ReadCustomer
  <2> HIDE DEF i
  <2>2. close' = [state |-> close.state, left |-> close.left, period |-> close.period,
                  todo |-> close.todo \ {c}, customer |-> c, stage |-> "invoice", draft |-> i]
    BY <1>1, <2>1
  <2> QED
    BY <1>6, <2>2 DEF ReadCustomer, ledgerVars, i
<1>7. ASSUME NextCustomer PROVE close'.stage = "none"
  BY <1>1, <1>7 DEF NextCustomer
<1>8. CASE InsertInvoice
  <2>1. CASE Key \in DOMAIN invoice
    BY <1>7, <1>8, <2>1 DEF InsertInvoice
  <2>2. CASE Key \notin DOMAIN invoice
    <3>1. /\ invoice' = [k \in DOMAIN invoice \cup {Key} |->
                           IF k = Key THEN close.draft ELSE invoice[k]]
          /\ close' = [close EXCEPT !.stage = "base"]
          /\ close.stage = "invoice"
      BY <1>8, <2>2 DEF InsertInvoice
    <3>2. UNCHANGED <<close.draft, close.customer, close.period>>
      BY <1>1, <3>1
    <3> QED
      BY <3>1, <3>2
  <2> QED
    BY <2>1, <2>2
<1>9. CASE InsertLine
  <2>1. invoice' = invoice /\ close.stage # "none"
    BY <1>9 DEF InsertLine, Kinds
  <2>2. NextCustomer \/ \E next \in {"overage", "vat"} : close' = [close EXCEPT !.stage = next]
    BY <1>9 DEF InsertLine
  <2>3. ASSUME NEW next \in {"overage", "vat"}, close' = [close EXCEPT !.stage = next]
        PROVE  UNCHANGED <<close.draft, close.customer, close.period>>
    BY <1>1, <2>3
  <2> QED
    BY <1>7, <2>1, <2>2, <2>3
<1>10. CASE FinishClose
  <2>1. close'.stage = "none"
    BY <1>10 DEF FinishClose, NoClose
  <2> QED
    BY <1>10, <2>1 DEF FinishClose
<1>11. CASE CustomerFails
  BY <1>7, <1>11 DEF CustomerFails
<1>12. CASE CloseDies
  <2>1. close'.stage = "none"
    BY <1>12 DEF CloseDies, RetriedClose, Waiting, NoClose
  <2> QED
    BY <1>12, <2>1 DEF CloseDies
<1>13. CASE NextDay
  BY <1>2, <1>13 DEF NextDay
<1>14. CASE UNCHANGED vars
  BY <1>2, <1>14 DEF vars
<1>15. CASE BillingNext
  BY <1>3, <1>4, <1>5, <1>6, <1>8, <1>9, <1>10, <1>11, <1>12, <1>15 DEF BillingNext
<1> QED
  BY <1>2, <1>13, <1>14, <1>15, SpendStepFrame DEF Next

LEMMA MonthsOfInvoices ==
    ASSUME BillingTypeOK
    PROVE  /\ \A k \in DOMAIN invoice : k[1] \in Customers /\ k[2] \in Nat
           /\ close.period \in Nat
           /\ close.stage # "none" /\ CloseInv => close.customer \in Customers
<1>1. Periods \subseteq Nat
  BY LedgerAssumption, PeriodFacts DEF Periods
<1> QED
  BY <1>1 DEF BillingTypeOK, CloseType, CloseInv

LEMMA InvoiceStep ==
    ASSUME ShapeInv, ShapeInv', InvoiceInv, [Next]_vars
    PROVE  InvoiceInv'
<1>1. /\ \A k \in DOMAIN invoice : k[1] \in Customers /\ k[2] \in Nat
      /\ close.period \in Nat
      /\ close.stage # "none" => close.customer \in Customers /\ close.state = "running"
      /\ close.state = "running" => close.period < PeriodOf(today)
  BY MonthsOfInvoices DEF ShapeInv, TypeOK, CloseInv
<1>2. PeriodOf(today) \in Nat /\ PeriodOf(today') \in Nat /\ PeriodOf(today) <= PeriodOf(today')
  <2>1. today \in Nat \ {0} /\ today' \in Nat \ {0} /\ today <= today'
    BY LedgerAssumption, LedgerShapeStep
    DEF ShapeInv, TypeOK, LedgerTypeOK, Days, SpendShape
  <2> QED
    BY <2>1, PeriodFacts, MonthsFollow
<1>3. ASSUME NEW i, NEW c \in Customers, NEW p \in Nat, p < PeriodOf(today), DraftOf(i, c, p)
      PROVE  p < PeriodOf(today') /\ \E s \in Scopes : i = Draft(s, SumLlmUsageForPeriod(c, p)')
  <2>1. SumLlmUsageForPeriod(c, p)' = SumLlmUsageForPeriod(c, p)
    BY <1>3, ClosedMonthStays
  <2> QED
    BY <1>2, <1>3, <2>1 DEF DraftOf
<1>4. ASSUME NEW k \in DOMAIN invoice
      PROVE  /\ k[2] < PeriodOf(today')
             /\ \E s \in Scopes : invoice[k] = Draft(s, SumLlmUsageForPeriod(k[1], k[2])')
  BY <1>1, <1>3, <1>4 DEF InvoiceInv
<1>5. ASSUME close.stage # "none", NEW c, NEW p, c = close.customer, p = close.period
      PROVE  /\ p < PeriodOf(today')
             /\ \E s \in Scopes : close.draft = Draft(s, SumLlmUsageForPeriod(c, p)')
  BY <1>1, <1>3, <1>5 DEF InvoiceInv
<1>6. PeriodOf(today)' = PeriodOf(today')
  BY DEF PeriodOf
<1>7. ASSUME invoice' = invoice
      PROVE  \A k \in DOMAIN invoice' : k[2] < PeriodOf(today)' /\ DraftOf(invoice[k], k[1], k[2])'
  BY <1>4, <1>6, <1>7 DEF DraftOf
<1>8. CASE invoice' = invoice /\ close'.stage = "none"
  BY <1>7, <1>8 DEF InvoiceInv
<1>9. CASE /\ invoice' = invoice
           /\ close.stage # "none"
           /\ UNCHANGED <<close.draft, close.customer, close.period>>
  BY <1>5, <1>7, <1>9 DEF InvoiceInv, DraftOf
<1>10. ASSUME invoice' = invoice, NEW c \in Customers, NEW s \in Scopes,
              close'.customer = c, close'.period = close.period,
              close'.draft = Draft(s, SumLlmUsageForPeriod(c, close.period)),
              close.state = "running"
       PROVE  InvoiceInv'
  <2>1. DraftOf(close'.draft, c, close.period)
    BY <1>10 DEF DraftOf
  <2>2. \E z \in Scopes : close'.draft = Draft(z, SumLlmUsageForPeriod(c, close.period)')
    BY <1>1, <1>3, <1>10, <2>1
  <2> QED
    BY <1>7, <1>10, <2>2 DEF InvoiceInv, DraftOf
<1>11. CASE /\ close.stage = "invoice"
            /\ invoice' = [k \in DOMAIN invoice \cup {Key} |->
                             IF k = Key THEN close.draft ELSE invoice[k]]
            /\ UNCHANGED <<close.draft, close.customer, close.period>>
  <2>1. ASSUME NEW k \in DOMAIN invoice'
        PROVE  /\ k[2] < PeriodOf(today')
               /\ \E s \in Scopes : invoice'[k] = Draft(s, SumLlmUsageForPeriod(k[1], k[2])')
    <3>1. CASE k = Key
      BY <1>5, <1>11, <3>1 DEF Key
    <3>2. CASE k # Key
      BY <1>4, <1>11, <3>2
    <3> QED
      BY <3>1, <3>2
  <2> QED
    BY <1>5, <1>6, <1>11, <2>1 DEF InvoiceInv, DraftOf
<1> QED
  BY <1>8, <1>9, <1>10, <1>11, BillingMoves

\* The days that are numbered in a month are those between its first and its last.
LEMMA DraftMeansMatch ==
    ASSUME LedgerTypeOK, NEW i, NEW c \in Customers, NEW p \in Nat, DraftOf(i, c, p)
    PROVE  /\ i \in Drafts
           /\ 2 * i.overage - 81 * SumOver(c, {d \in Days : PeriodOf(d) = p}) \in -3..3
           /\ 10 * i.vat - (i.base + i.overage) \in -5..5
           /\ i.total = i.base + i.overage + i.vat
<1> DEFINE W == DaysOfPeriod(p)
           usage == SumLlmUsageForPeriod(c, p)
           used == SumOver(c, W)
<1>1. {d \in Days : PeriodOf(d) = p} = W
  BY OneMonthEach, LedgerAssumption DEF DaysOfPeriod, Days
<1>2. W \in SUBSET Days
  BY DEF DaysOfPeriod
<1>3. used \in Nat /\ usage \in Nat \cup {None} /\ usage = SumOrNull(c, W)
  BY <1>2, UsageIsNat DEF SumLlmUsageForPeriod
<1> HIDE DEF W
<1>4. used = IF usage = None THEN 0 ELSE usage
  <2>1. CASE W \cap DOMAIN costDaily[c] = {}
    <3>1. used = 0
      BY <2>1, FS_EmptySet DEF SumOver, Total
    <3> QED
      BY <1>3, <2>1, <3>1 DEF SumOrNull
  <2>2. CASE W \cap DOMAIN costDaily[c] # {}
    BY <1>3, <2>2, LedgerAssumption DEF SumOrNull
  <2> QED
    BY <2>1, <2>2
<1>5. PICK s \in Scopes : i = Draft(s, usage)
  BY DEF DraftOf
<1> HIDE DEF usage, used
<1>6. /\ i \in Drafts
      /\ 2 * i.overage - 81 * used \in -3..3
      /\ 10 * i.vat - (i.base + i.overage) \in -5..5
      /\ i.total = i.base + i.overage + i.vat
  BY <1>3, <1>4, <1>5, DraftAddsUp
<1> QED
  BY <1>1, <1>6 DEF used, W

\* For every calendar, ledger and scope: an invoice bills what the ledger holds for
\* its month, on the day on which it is written and on every later day.
THEOREM InvoicesMatchLedger == Spec => []InvoiceMatchesLedger
<1>1. Init /\ ShapeInv => InvoiceInv
  BY DEF Init, BillingInit, NoClose, InvoiceInv
<1>2. ShapeInv /\ ShapeInv' /\ InvoiceInv /\ [Next]_vars => InvoiceInv'
  BY InvoiceStep
<1>3. ShapeInv /\ [Next]_vars => ShapeInv'
  BY ShapeStep
<1>4. ShapeInv /\ InvoiceInv => InvoiceMatchesLedger
  <2> SUFFICES ASSUME ShapeInv, InvoiceInv, NEW k \in DOMAIN invoice
               PROVE  /\ 2 * invoice[k].overage
                         - 81 * SumOver(k[1], {d \in Days : PeriodOf(d) = k[2]}) \in -3..3
                      /\ 10 * invoice[k].vat - (invoice[k].base + invoice[k].overage) \in -5..5
                      /\ invoice[k].total = invoice[k].base + invoice[k].overage + invoice[k].vat
    BY DEF InvoiceMatchesLedger
  <2> DEFINE i == invoice[k]
             c == k[1]
             p == k[2]
             used == SumOver(c, {d \in Days : PeriodOf(d) = p})
  <2>1. LedgerTypeOK /\ c \in Customers /\ p \in Nat /\ DraftOf(i, c, p)
    BY MonthsOfInvoices DEF ShapeInv, TypeOK, InvoiceInv
  <2>2. /\ 2 * i.overage - 81 * used \in -3..3
        /\ 10 * i.vat - (i.base + i.overage) \in -5..5
        /\ i.total = i.base + i.overage + i.vat
    <3> HIDE DEF i, c, p
    <3> QED
      BY <2>1, DraftMeansMatch
  <2> QED
    BY <2>2
<1> QED
  BY <1>1, <1>2, <1>3, <1>4, ShapeInit, PTL DEF Spec

-----------------------------------------------------------------------------
(* The lines                                                               *)

Explained(k) == Line(k, "base") + Line(k, "overage") + Line(k, "vat") = invoice[k].total

\* While lines are written, those before the next one are there and no others; an
\* invoice nobody is writing on is explained or was torn.
LinesInv ==
    /\ \A k \in DOMAIN invoice :
         Explained(k) \/ k \in torn \/ (close.stage \in Kinds /\ k = Key)
    /\ close.stage \in Kinds =>
         /\ Line(Key, "base") = IF close.stage = "base" THEN 0 ELSE close.draft.base
         /\ Line(Key, "overage") = IF close.stage = "vat" THEN close.draft.overage ELSE 0
         /\ Line(Key, "vat") = 0

\* The close writes an invoice, or a line, or its writer stops, or nothing is
\* written and nobody is writing.
LEMMA LinesMove ==
    ASSUME ShapeInv, [Next]_vars
    PROVE  \/ UNCHANGED billingVars
           \/ /\ UNCHANGED <<invoice, lines, torn>>
              /\ close.stage \notin Kinds /\ close'.stage \notin Kinds
           \/ InsertInvoice
           \/ InsertLine
           \/ UNCHANGED <<invoice, lines>> /\ torn' = Interrupted /\ close'.stage = "none"
<1>1. /\ close = [state |-> close.state, left |-> close.left, period |-> close.period,
                  todo |-> close.todo, customer |-> close.customer, stage |-> close.stage,
                  draft |-> close.draft]
      /\ CloseInv
  BY DEF ShapeInv, TypeOK, BillingTypeOK, CloseType
<1>2. "none" \notin Kinds /\ "invoice" \notin Kinds
  BY DEF Kinds
<1>3. CASE CronClose
  <2>1. close'.stage = "none"
    BY <1>3 DEF CronClose, Waiting, NoClose
  <2>2. close.stage = "none"
    BY <1>1, <1>3 DEF CronClose, CloseInv
  <2> QED
    BY <1>2, <1>3, <2>1, <2>2 DEF CronClose
<1>4. CASE StartClose
  <2>1. close'.stage = close.stage /\ close.stage = "none"
    BY <1>1, <1>4 DEF StartClose, CloseInv
  <2> QED
    BY <1>2, <1>4, <2>1 DEF StartClose
<1>5. ASSUME NEW c \in Customers, SkipCustomer(c) \/ \E s \in Scopes : ReadCustomer(c, s)
      PROVE  /\ UNCHANGED <<invoice, lines, torn>>
             /\ close.stage \notin Kinds /\ close'.stage \notin Kinds
  <2>1. close.stage = "none"
    BY <1>1, <1>5 DEF SkipCustomer, ReadCustomer, CloseInv
  <2>2. close'.stage \in {"none", "invoice"}
    BY <1>1, <1>5, <2>1 DEF SkipCustomer, ReadCustomer
  <2> QED
    BY <1>2, <1>5, <2>1, <2>2 DEF SkipCustomer, ReadCustomer
<1>6. CASE FinishClose
  <2>1. close.stage = "none" /\ close'.stage = "none"
    BY <1>1, <1>6 DEF FinishClose, CloseInv, NoClose
  <2> QED
    BY <1>2, <1>6, <2>1 DEF FinishClose
<1>7. CASE CustomerFails
  <2>1. close'.stage = "none"
    BY <1>1, <1>7 DEF CustomerFails, NextCustomer
  <2> QED
    BY <1>7, <2>1 DEF CustomerFails
<1>8. CASE CloseDies
  <2>1. close'.stage = "none"
    BY <1>8 DEF CloseDies, RetriedClose, Waiting, NoClose
  <2> QED
    BY <1>8, <2>1 DEF CloseDies
<1>9. CASE BillingNext
  BY <1>3, <1>4, <1>5, <1>6, <1>7, <1>8, <1>9 DEF BillingNext
<1>10. NextDay \/ UNCHANGED vars => UNCHANGED billingVars
  BY DEF NextDay, vars
<1> QED
  BY <1>9, <1>10, SpendStepFrame DEF Next

\* A line is written to the open invoice and to no other.
LEMMA LineWritten ==
    ASSUME BillingTypeOK, NEW kind \in Kinds, LineKept(kind), Key \in DOMAIN lines,
           close.draft \in Drafts, Line(Key, kind) = 0,
           NEW key, key = Key
    PROVE  /\ \A k \in DOMAIN lines \ {key} : lines'[k] = lines[k]
           /\ \A other \in Kinds : Line(key, other)' = IF other = kind THEN close.draft[kind]
                                                      ELSE Line(key, other)
<1>1. close.draft[kind] \in Nat
  <2>1. close.draft.base \in Nat /\ close.draft.overage \in Nat /\ close.draft.vat \in Nat
    BY DEF Drafts
  <2> QED
    BY <2>1 DEF Kinds
<1>2. CASE ~Written(close.draft, kind)
  <2>1. lines' = lines
    BY <1>2 DEF LineKept
  <2>2. close.draft[kind] = 0
    BY <1>1, <1>2 DEF Written
  <2>3. \A other \in Kinds : Line(key, other)' = Line(key, other)
    BY <2>1 DEF Line
  <2> QED
    BY <2>1, <2>2, <2>3
<1>3. CASE Written(close.draft, kind)
  <2> DEFINE g == [k \in DOMAIN lines[Key] \cup {kind} |->
                     IF k = kind THEN close.draft[k] ELSE lines[Key][k]]
  <2>1. lines' = [lines EXCEPT ![key] = g]
    BY <1>3 DEF LineKept
  <2>2. /\ DOMAIN g = DOMAIN lines[key] \cup {kind}
        /\ g[kind] = close.draft[kind]
        /\ \A other \in DOMAIN lines[key] \ {kind} : g[other] = lines[key][other]
    OBVIOUS
  <2> HIDE DEF g
  <2>3. lines'[key] = g /\ \A k \in DOMAIN lines \ {key} : lines'[k] = lines[k]
    BY <2>1
  <2>4. ASSUME NEW other \in Kinds
        PROVE  Line(key, other)' = IF other = kind THEN close.draft[kind] ELSE Line(key, other)
    BY <2>2, <2>3 DEF Line
  <2> QED
    BY <2>3, <2>4
<1> QED
  BY <1>2, <1>3

LEMMA InsertLineStep ==
    ASSUME BillingTypeOK, CloseInv, LinesInv, InsertLine,
           close.stage \in Kinds => close.draft.total = close.draft.base + close.draft.overage
                                                        + close.draft.vat
    PROVE  LinesInv'
<1> DEFINE key == Key
           kind == close.stage
           draft == close.draft
<1>1. /\ kind \in Kinds /\ LineKept(kind) /\ UNCHANGED <<invoice, torn>>
      /\ IF kind = "vat" THEN NextCustomer
         ELSE close' = [close EXCEPT !.stage = IF kind = "base" THEN "overage" ELSE "vat"]
  BY DEF InsertLine, LineKept
<1>2. /\ Key \in DOMAIN lines /\ DOMAIN lines = DOMAIN invoice /\ invoice[key] = draft
      /\ draft \in Drafts
  BY <1>1 DEF CloseInv, BillingTypeOK, Kinds
<1>3. /\ Line(key, "base") = IF kind = "base" THEN 0 ELSE draft.base
      /\ Line(key, "overage") = IF kind = "vat" THEN draft.overage ELSE 0
      /\ Line(key, "vat") = 0
  BY <1>1 DEF LinesInv
<1>4. Line(Key, kind) = 0
  BY <1>1, <1>3 DEF Kinds
<1>5. PICK k0 : k0 = Key
  OBVIOUS
<1>6. /\ \A k \in DOMAIN lines \ {k0} : lines'[k] = lines[k]
      /\ \A other \in Kinds : Line(k0, other)' = IF other = kind THEN draft[kind]
                                                ELSE Line(k0, other)
  BY <1>1, <1>2, <1>4, <1>5, LineWritten
<1>7. /\ Line(k0, "base")' = draft.base
      /\ Line(k0, "overage")' = IF kind = "base" THEN 0 ELSE draft.overage
      /\ Line(k0, "vat")' = IF kind = "vat" THEN draft.vat ELSE 0
  <2>1. "base" \in Kinds /\ "overage" \in Kinds /\ "vat" \in Kinds
    BY DEF Kinds
  <2>2. kind \in {"base", "overage", "vat"}
    BY <1>1 DEF Kinds
  <2> HIDE DEF kind, draft
  <2>3. /\ Line(k0, "base")' = IF kind = "base" THEN draft.base ELSE Line(k0, "base")
        /\ Line(k0, "overage")' = IF kind = "overage" THEN draft.overage ELSE Line(k0, "overage")
        /\ Line(k0, "vat")' = IF kind = "vat" THEN draft.vat ELSE Line(k0, "vat")
    BY <1>6, <2>1
  <2> QED
    BY <1>3, <1>5, <2>2, <2>3 DEF key
<1>8. ASSUME NEW k \in DOMAIN invoice', k # k0
      PROVE  Explained(k)' \/ k \in torn'
  <2>1. lines'[k] = lines[k] /\ k \in DOMAIN invoice /\ invoice'[k] = invoice[k]
    BY <1>1, <1>2, <1>6, <1>8
  <2>2. Explained(k) \/ k \in torn
    BY <1>5, <1>8, <2>1 DEF LinesInv
  <2> QED
    BY <1>1, <2>1, <2>2 DEF Explained, Line
<1>9. CASE kind = "vat"
  <2>1. close'.stage = "none"
    BY <1>1, <1>9 DEF NextCustomer, BillingTypeOK, CloseType
  <2>2. Explained(k0)'
    <3>1. Line(k0, "base")' + Line(k0, "overage")' + Line(k0, "vat")' = draft.total
      BY <1>1, <1>7, <1>9
    <3> QED
      BY <1>1, <1>2, <1>5, <3>1 DEF Explained
  <2> QED
    BY <1>8, <2>1, <2>2 DEF LinesInv, Kinds
<1>10. CASE kind # "vat"
  <2> DEFINE next == IF kind = "base" THEN "overage" ELSE "vat"
  <2>1. close' = [close EXCEPT !.stage = next]
    BY <1>1, <1>10
  <2>2. close'.stage = next /\ UNCHANGED <<close.draft, close.customer, close.period>>
    BY <2>1 DEF BillingTypeOK, CloseType
  <2>3. Key' = k0
    BY <1>5, <2>2 DEF Key
  <2>4. kind \in {"base", "overage"} /\ next \in Kinds
    BY <1>1, <1>10 DEF Kinds
  <2>5. /\ Line(Key, "base")' = draft.base
        /\ Line(Key, "overage")' = IF next = "vat" THEN draft.overage ELSE 0
        /\ Line(Key, "vat")' = 0
    BY <1>7, <2>3, <2>4 DEF Line
  <2> QED
    BY <1>8, <2>2, <2>3, <2>4, <2>5 DEF LinesInv, Kinds
<1> QED
  BY <1>9, <1>10

LEMMA InsertInvoiceStep ==
    ASSUME BillingTypeOK, LinesInv, InsertInvoice
    PROVE  LinesInv'
<1>1. close.stage = "invoice" /\ torn' = torn /\ close.stage \notin Kinds
  BY DEF InsertInvoice, Kinds
<1>2. CASE Key \in DOMAIN invoice
  <2>1. close'.stage = "none" /\ UNCHANGED <<invoice, lines>>
    BY <1>2 DEF InsertInvoice, NextCustomer, BillingTypeOK, CloseType
  <2> QED
    BY <1>1, <2>1 DEF LinesInv, Explained, Line, Kinds
<1>3. CASE Key \notin DOMAIN invoice
  <2>1. PICK k0 : k0 = Key
    OBVIOUS
  <2>2. /\ invoice' = [k \in DOMAIN invoice \cup {k0} |->
                         IF k = k0 THEN close.draft ELSE invoice[k]]
        /\ lines' = [k \in DOMAIN lines \cup {k0} |-> IF k = k0 THEN <<>> ELSE lines[k]]
        /\ close' = [close EXCEPT !.stage = "base"]
    BY <1>3, <2>1 DEF InsertInvoice
  <2>3. close'.stage = "base" /\ Key' = k0
    BY <2>1, <2>2 DEF BillingTypeOK, CloseType, Key
  <2>4. ASSUME NEW kind \in Kinds PROVE Line(Key, kind)' = 0
    <3>1. lines'[k0] = <<>>
      BY <2>2
    <3>2. kind \notin DOMAIN <<>>
      OBVIOUS
    <3> QED
      BY <2>3, <3>1, <3>2 DEF Line
  <2>5. ASSUME NEW k \in DOMAIN invoice', k # k0
        PROVE  Explained(k)' \/ k \in torn'
    <3>1. k \in DOMAIN invoice /\ invoice'[k] = invoice[k] /\ lines'[k] = lines[k]
      BY <2>2, <2>5 DEF BillingTypeOK
    <3> QED
      BY <1>1, <3>1 DEF LinesInv, Explained, Line
  <2>6. /\ Line(Key, "base")' = 0 /\ Line(Key, "overage")' = 0 /\ Line(Key, "vat")' = 0
    BY <2>4 DEF Kinds
  <2> QED
    BY <2>3, <2>5, <2>6 DEF LinesInv, Kinds
<1> QED
  BY <1>2, <1>3

LEMMA LinesStep ==
    ASSUME ShapeInv, InvoiceInv, LinesInv, [Next]_vars
    PROVE  LinesInv'
<1>1. BillingTypeOK /\ CloseInv /\ LedgerTypeOK
  BY DEF ShapeInv, TypeOK
<1>2. CASE UNCHANGED billingVars
  BY <1>2 DEF billingVars, LinesInv, Explained, Line, Key
<1>3. CASE /\ UNCHANGED <<invoice, lines, torn>>
           /\ close.stage \notin Kinds /\ close'.stage \notin Kinds
  BY <1>3 DEF LinesInv, Explained, Line
<1>4. CASE InsertInvoice
  BY <1>1, <1>4, InsertInvoiceStep
<1>5. CASE InsertLine
  <2>1. close.stage \in Kinds => close.stage # "none"
    BY DEF Kinds
  <2>2. close.stage \in Kinds => close.draft.total = close.draft.base + close.draft.overage
                                                     + close.draft.vat
    BY <1>1, <2>1, MonthsOfInvoices, DraftMeansMatch DEF InvoiceInv
  <2> QED
    BY <1>1, <1>5, <2>2, InsertLineStep
<1>6. CASE UNCHANGED <<invoice, lines>> /\ torn' = Interrupted /\ close'.stage = "none"
  BY <1>6 DEF LinesInv, Explained, Line, Interrupted, Kinds
<1> QED
  BY <1>2, <1>3, <1>4, <1>5, <1>6, LinesMove

\* Wherever the close fails, dies or is taken up again: the lines of an invoice
\* explain its total, but for one whose writer was stopped between two of them.
THEOREM LinesAddUp == Spec => []LinesExplainTotal
<1>1. Init => InvoiceInv /\ LinesInv
  BY DEF Init, BillingInit, NoClose, InvoiceInv, LinesInv, Kinds
<1>2. ShapeInv /\ ShapeInv' /\ InvoiceInv /\ [Next]_vars => InvoiceInv'
  BY InvoiceStep
<1>3. ShapeInv /\ InvoiceInv /\ LinesInv /\ [Next]_vars => LinesInv'
  BY LinesStep
<1>4. ShapeInv /\ [Next]_vars => ShapeInv'
  BY ShapeStep
<1>5. LinesInv => LinesExplainTotal
  BY DEF LinesInv, LinesExplainTotal, Explained, Key
<1> QED
  BY <1>1, <1>2, <1>3, <1>4, <1>5, ShapeInit, PTL DEF Spec
=============================================================================
