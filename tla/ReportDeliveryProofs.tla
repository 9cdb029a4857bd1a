------------------------- MODULE ReportDeliveryProofs -------------------------
(***************************************************************************)
(* TLAPS proofs about ReportDelivery: what a state looks like as far as    *)
(* jobs and handlers go, the accounting of the e-mails, the figures of the *)
(* snapshots, which rest on counting lemmas about RunMetrics, and types.   *)
(***************************************************************************)
EXTENDS ReportDelivery, FiniteSetTheorems, FunctionTheorems, WellFoundedInduction,
        TLAPS

-----------------------------------------------------------------------------
(* The shape of a state                                                    *)

JobsInv ==
    /\ jobs \subseteq Job
    /\ enqueued \in [Runs -> 0..MaxJobs]
    /\ aggregating \in [Procs -> Runs \cup {None}]

\* A handler that works has a job, and one that is idle has none.
HandlersInv ==
    /\ pc \in [Procs -> Steps] /\ job \in [Procs -> Job \cup {None}]
    /\ \A p \in Procs : pc[p] = "idle" <=> job[p] = None

CountsInv ==
    /\ emails \in [Runs -> Nat] /\ lost \in [Runs -> Nat] /\ raced \in [Runs -> Nat]

LEMMA NoneIsNoJob == None \notin Job
<1>1. Job \subseteq [run : Runs, n : Nat, left : Nat]
  BY DeliveryAssumption DEF Job
<1> QED
  BY <1>1, DeliveryAssumption

LEMMA Working ==
    ASSUME HandlersInv, NEW p \in Procs, pc[p] # "idle"
    PROVE  job[p] \in Job /\ RunOf(p) \in Runs
BY DEF HandlersInv, RunOf, Job

LEMMA SendKeepsJobs ==
    ASSUME JobsInv, NEW r \in Runs, Send(r)
    PROVE  jobs' \subseteq Job /\ enqueued' \in [Runs -> 0..MaxJobs]
<1>1. enqueued[r] \in 0..MaxJobs /\ MaxJobs \in Nat /\ RetryLimit \in Nat
  BY DeliveryAssumption DEF JobsInv
<1>2. CASE UNCHANGED <<jobs, enqueued>>
  BY <1>2 DEF JobsInv
<1>3. CASE /\ enqueued[r] # MaxJobs
           /\ jobs' = jobs \cup {[run |-> r, n |-> enqueued[r] + 1, left |-> RetryLimit]}
           /\ enqueued' = [enqueued EXCEPT ![r] = @ + 1]
  <2>1. [run |-> r, n |-> enqueued[r] + 1, left |-> RetryLimit] \in Job
    BY <1>1, <1>3 DEF Job
  <2> QED
    BY <1>1, <1>3, <2>1 DEF JobsInv
<1> QED
  BY <1>2, <1>3 DEF Send

LEMMA FailKeepsJobs ==
    ASSUME jobs \subseteq Job, NEW j \in Job, Fail(j)
    PROVE  jobs' \subseteq Job
<1>1. CASE j.left > 0
  <2>1. jobs' = jobs \cup {[j EXCEPT !.left = @ - 1]}
    BY <1>1 DEF Fail
  <2>2. [j EXCEPT !.left = @ - 1] \in Job
    BY <1>1, DeliveryAssumption DEF Job
  <2> QED
    BY <2>1, <2>2
<1>2. CASE ~(j.left > 0)
  BY <1>2 DEF Fail
<1> QED
  BY <1>1, <1>2

\* The handler of p ends, and nobody else moves.
LEMMA FinishKeepsHandlers ==
    ASSUME HandlersInv, NEW p \in Procs, Finish(p)
    PROVE  HandlersInv'
BY DEF HandlersInv, Finish, Steps

LEMMA MoveKeepsHandlers ==
    ASSUME HandlersInv, NEW p \in Procs, pc[p] # "idle", NEW step \in Steps \ {"idle"},
           pc' = [pc EXCEPT ![p] = step], job' = job
    PROVE  HandlersInv'
BY DEF HandlersInv

LEMMA JobsStep ==
    ASSUME JobsInv, HandlersInv, [Next]_vars
    PROVE  JobsInv'
<1>1. ASSUME NEW r \in Runs, PlanRun(r) PROVE JobsInv'
  BY <1>1 DEF PlanRun, JobsInv
<1>2. ASSUME NEW r \in Runs, NEW c \in Cells, NEW v \in Verdicts, CellJudged(r, c, v)
      PROVE  JobsInv'
  BY <1>2 DEF CellJudged, JobsInv, jobVars
<1>3. ASSUME NEW p \in Procs, NEW r \in Runs, Aggregate(p, r) \/ AggregateFails(p, r)
      PROVE  JobsInv'
  BY <1>3 DEF Aggregate, AggregateFails, JobsInv
<1>4. ASSUME NEW p \in Procs, EnqueueDelivery(p) PROVE JobsInv'
  <2> DEFINE r == aggregating[p]
  <2>1. r \in Runs
    BY <1>4 DEF EnqueueDelivery, JobsInv
  <2>2. aggregating' = [aggregating EXCEPT ![p] = None] /\ (Send(r) \/ UNCHANGED <<jobs, enqueued>>)
    BY <1>4 DEF EnqueueDelivery
  <2>3. aggregating' \in [Procs -> Runs \cup {None}]
    BY <2>2 DEF JobsInv
  <2> HIDE DEF r
  <2>4. CASE Send(r)
    BY <2>1, <2>3, <2>4, SendKeepsJobs DEF JobsInv
  <2>5. CASE UNCHANGED <<jobs, enqueued>>
    BY <2>3, <2>5 DEF JobsInv
  <2> QED
    BY <2>2, <2>4, <2>5
<1>5. ASSUME NEW p \in Procs, NEW j \in jobs, Start(p, j) PROVE JobsInv'
  BY <1>5 DEF Start, JobsInv
<1>6. ASSUME NEW p \in Procs,
             ReadCounts(p) \/ ReadRows(p) \/ FindPrevious(p) \/ KeepSnapshot(p)
             \/ CheckDelivery(p) \/ SendEmail(p) \/ RecordSent(p)
      PROVE  JobsInv'
  BY <1>6 DEF ReadCounts, ReadRows, FindPrevious, KeepSnapshot, CheckDelivery, SendEmail,
              RecordSent, jobVars, JobsInv
<1>7. ASSUME NEW p \in Procs, StepFails(p) PROVE JobsInv'
  <2>1. job[p] \in Job
    BY <1>7, Working DEF StepFails
  <2>2. jobs' \subseteq Job
    BY <1>7, <2>1, FailKeepsJobs DEF StepFails, JobsInv
  <2> QED
    BY <1>7, <2>2 DEF StepFails, JobsInv
<1>8. ASSUME NEW p \in Procs, Crash(p) PROVE JobsInv'
  <2>1. aggregating' \in [Procs -> Runs \cup {None}] /\ enqueued' = enqueued
    BY <1>8 DEF Crash, JobsInv
  <2>2. jobs' \subseteq Job
    <3>1. CASE job[p] = None
      BY <1>8, <3>1 DEF Crash, JobsInv
    <3>2. CASE job[p] # None
      <4>1. job[p] \in Job
        BY <3>2 DEF HandlersInv
      <4> QED
        BY <1>8, <3>2, <4>1, FailKeepsJobs DEF Crash, JobsInv
    <3> QED
      BY <3>1, <3>2
  <2> QED
    BY <2>1, <2>2 DEF JobsInv
<1>9. ASSUME NEW p \in Procs, Boot(p) PROVE JobsInv'
  <2>1. PICK fresh \in SUBSET Runs :
          /\ \A r \in fresh : enqueued[r] < MaxJobs
          /\ jobs' = jobs \cup {[run |-> r, n |-> enqueued[r] + 1, left |-> RetryLimit] : r \in fresh}
          /\ enqueued' = [r \in Runs |-> IF r \in fresh THEN enqueued[r] + 1 ELSE enqueued[r]]
    <3> DEFINE waiting == {r \in Missed : (~ \E j \in jobs : j.run = r) /\ enqueued[r] < MaxJobs}
    <3>1. waiting \in SUBSET Runs /\ \A r \in waiting : enqueued[r] < MaxJobs
      BY DEF Missed
    <3>2. PICK found \in SUBSET waiting :
            /\ jobs' = jobs \cup {[run |-> r, n |-> enqueued[r] + 1, left |-> RetryLimit] : r \in found}
            /\ enqueued' = [r \in Runs |-> IF r \in found THEN enqueued[r] + 1 ELSE enqueued[r]]
      BY <1>9 DEF Boot
    <3> HIDE DEF waiting
    <3> QED
      BY <3>1, <3>2
  <2>2. \A r \in fresh : [run |-> r, n |-> enqueued[r] + 1, left |-> RetryLimit] \in Job
    <3> TAKE r \in fresh
    <3>1. enqueued[r] + 1 \in 1..MaxJobs /\ RetryLimit \in 0..RetryLimit
      BY <2>1, DeliveryAssumption DEF JobsInv
    <3> QED
      BY <3>1 DEF Job
  <2>3. enqueued' \in [Runs -> 0..MaxJobs]
    BY <2>1, DeliveryAssumption DEF JobsInv
  <2>4. aggregating' = aggregating
    BY <1>9 DEF Boot
  <2> QED
    BY <2>1, <2>2, <2>3, <2>4 DEF JobsInv
<1>10. CASE UNCHANGED vars
  BY <1>10 DEF vars, jobVars, JobsInv
<1> QED
  BY <1>1, <1>2, <1>3, <1>4, <1>5, <1>6, <1>7, <1>8, <1>9, <1>10 DEF Next, Deliver

LEMMA HandlersStep ==
    ASSUME JobsInv, HandlersInv, [Next]_vars
    PROVE  HandlersInv'
<1>1. CASE UNCHANGED <<pc, job>>
  BY <1>1 DEF HandlersInv
<1>2. ASSUME NEW p \in Procs, NEW j \in jobs, Start(p, j) PROVE HandlersInv'
  <2>1. j \in Job /\ j # None
    BY NoneIsNoJob DEF JobsInv
  <2> QED
    BY <1>2, <2>1 DEF Start, HandlersInv, Steps
<1>3. ASSUME NEW p \in Procs, FindPrevious(p) \/ KeepSnapshot(p) \/ SendEmail(p)
      PROVE  HandlersInv'
  <2>1. PICK step \in Steps \ {"idle"} : pc' = [pc EXCEPT ![p] = step]
    BY <1>3 DEF FindPrevious, KeepSnapshot, SendEmail, Steps
  <2>2. job' = job /\ pc[p] # "idle"
    BY <1>3 DEF FindPrevious, KeepSnapshot, SendEmail
  <2> QED
    BY <2>1, <2>2, MoveKeepsHandlers
<1>4. ASSUME NEW p \in Procs, CheckDelivery(p) PROVE HandlersInv'
  <2>1. CASE Finish(p)
    BY <2>1, FinishKeepsHandlers
  <2>2. CASE pc' = [pc EXCEPT ![p] = "sending"] /\ job' = job
    BY <1>4, <2>2, MoveKeepsHandlers DEF CheckDelivery, Steps
  <2> QED
    BY <1>4, <2>1, <2>2 DEF CheckDelivery
<1>5. ASSUME NEW p \in Procs, StepFails(p) \/ RecordSent(p) \/ Crash(p) PROVE HandlersInv'
  BY <1>5, FinishKeepsHandlers DEF StepFails, RecordSent, Crash
<1>6. ASSUME NEW p \in Procs, ReadCounts(p) \/ ReadRows(p) PROVE UNCHANGED <<pc, job>>
  BY <1>6 DEF ReadCounts, ReadRows
<1>7. ASSUME NEW p \in Procs, EnqueueDelivery(p) \/ Boot(p) PROVE UNCHANGED <<pc, job>>
  BY <1>7 DEF EnqueueDelivery, Boot
<1>8. ASSUME NEW r \in Runs,
             \/ PlanRun(r)
             \/ \E c \in Cells, v \in Verdicts : CellJudged(r, c, v)
             \/ \E p \in Procs : Aggregate(p, r) \/ AggregateFails(p, r)
      PROVE  UNCHANGED <<pc, job>>
  BY <1>8 DEF PlanRun, CellJudged, Aggregate, AggregateFails
<1>9. UNCHANGED vars => UNCHANGED <<pc, job>>
  BY DEF vars
<1> QED
  BY <1>1, <1>2, <1>3, <1>4, <1>5, <1>6, <1>7, <1>8, <1>9 DEF Next, Deliver

-----------------------------------------------------------------------------
(* The e-mails                                                             *)

\* Handlers that have passed the check for a run, and those of them that have
\* not sent yet.
Passed(r) == {p \in Procs : pc[p] \in {"sending", "recording"} /\ RunOf(p) = r}
ToSend(r) == {p \in Procs : pc[p] = "sending" /\ RunOf(p) = r}

Covered(r) == IF r \in sent \/ Passed(r) # {} THEN 1 ELSE 0

\* One e-mail is covered by the 'sent' row, or by a handler on its way to it. Each
\* of the others, sent or about to be, has been noted as lost or raced. What may
\* still be sent must be counted: a handler that has passed sends, come what may.
MailInv ==
    /\ CountsInv
    /\ \A r \in Runs : emails[r] + Cardinality(ToSend(r)) <= lost[r] + raced[r] + Covered(r)

LEMMA CrowdsAreFinite ==
    ASSUME NEW S \in SUBSET Procs
    PROVE  IsFiniteSet(S) /\ Cardinality(S) \in Nat
BY DeliveryAssumption, FS_Subset, FS_CardinalityType

LEMMA OneMore ==
    ASSUME NEW S \in SUBSET Procs, NEW p \in Procs
    PROVE  /\ p \notin S => Cardinality(S \cup {p}) = Cardinality(S) + 1
           /\ p \in S => Cardinality(S \ {p}) = Cardinality(S) - 1
           /\ S # {} => Cardinality(S) >= 1
<1>1. IsFiniteSet(S) /\ Cardinality(S) \in Nat
  BY CrowdsAreFinite
<1>2. S # {} => Cardinality(S) # 0
  BY <1>1, FS_EmptySet
<1>3. p \notin S => Cardinality(S \cup {p}) = Cardinality(S) + 1
  BY <1>1, FS_AddElement
<1>4. p \in S => Cardinality(S \ {p}) = Cardinality(S) - 1
  BY <1>1, FS_RemoveElement
<1> QED
  BY <1>1, <1>2, <1>3, <1>4

\* Where a handler goes, it leaves one crowd and joins another.
LEMMA CrowdsMove ==
    ASSUME HandlersInv, NEW p \in Procs, NEW step \in Steps,
           pc' = [pc EXCEPT ![p] = step],
           job' = job \/ \E j : job' = [job EXCEPT ![p] = j] /\ step \notin {"sending", "recording"},
           NEW r \in Runs
    PROVE  /\ ToSend(r)' = IF step = "sending" /\ RunOf(p) = r THEN ToSend(r) \cup {p}
                           ELSE ToSend(r) \ {p}
           /\ Passed(r)' = IF step \in {"sending", "recording"} /\ RunOf(p) = r
                           THEN Passed(r) \cup {p} ELSE Passed(r) \ {p}
<1>1. \A q \in Procs \ {p} : pc'[q] = pc[q] /\ job'[q] = job[q]
  BY DEF HandlersInv
<1>2. pc'[p] = step /\ (step \in {"sending", "recording"} => job'[p] = job[p])
  BY DEF HandlersInv
<1>3. ASSUME NEW q \in Procs, q # p
      PROVE  /\ q \in ToSend(r)' <=> q \in ToSend(r)
             /\ q \in Passed(r)' <=> q \in Passed(r)
  BY <1>1, <1>3 DEF ToSend, Passed, RunOf
<1>4. /\ p \in ToSend(r)' <=> (step = "sending" /\ RunOf(p) = r)
      /\ p \in Passed(r)' <=> (step \in {"sending", "recording"} /\ RunOf(p) = r)
  BY <1>2 DEF ToSend, Passed, RunOf
<1>5. ToSend(r)' \subseteq Procs /\ Passed(r)' \subseteq Procs
  BY DEF ToSend, Passed
<1>6. ToSend(r) \subseteq Procs /\ Passed(r) \subseteq Procs
  BY DEF ToSend, Passed
<1> HIDE DEF ToSend, Passed
<1> QED
  BY <1>3, <1>4, <1>5, <1>6

\* A step that sends nothing and is not about e-mails.
LEMMA QuietMail ==
    ASSUME MailInv, UNCHANGED <<emails, lost, raced, sent>>,
           \A r \in Runs : ToSend(r)' = ToSend(r) /\ Passed(r)' = Passed(r)
    PROVE  MailInv'
BY DEF MailInv, CountsInv, Covered

\* A handler passes the check: those that have passed before it are noted.
LEMMA PassMail ==
    ASSUME HandlersInv, MailInv, NEW p \in Procs, pc[p] = "checking",
           ~NothingToSend(RunOf(p)),
           pc' = [pc EXCEPT ![p] = "sending"], job' = job,
           raced' = [raced EXCEPT ![RunOf(p)] = @ + Sending(RunOf(p))],
           UNCHANGED <<emails, lost, sent>>
    PROVE  MailInv'
<1> DEFINE z == RunOf(p)
           n == Sending(z)
<1>1. z \in Runs /\ z \notin sent
  BY Working DEF NothingToSend
<1>2. n = Cardinality(Passed(z)) /\ n \in Nat /\ (Passed(z) # {} => n >= 1)
  <2>1. Passed(z) \in SUBSET Procs
    BY DEF Passed
  <2>2. n = Cardinality(Passed(z))
    BY DEF Sending, Passed
  <2> HIDE DEF n
  <2> QED
    BY <2>1, <2>2, CrowdsAreFinite, OneMore
<1>3. p \notin ToSend(z) /\ p \notin Passed(z)
  BY DEF ToSend, Passed
<1>4. CountsInv'
  <2>1. ASSUME NEW f \in [Runs -> Nat], NEW r \in Runs, NEW m \in Nat
        PROVE  [f EXCEPT ![r] = @ + m] \in [Runs -> Nat]
    OBVIOUS
  <2>2. raced' \in [Runs -> Nat]
    BY <1>1, <1>2, <2>1 DEF MailInv, CountsInv, n
  <2> QED
    BY <2>2 DEF MailInv, CountsInv
<1> HIDE DEF n
<1>5. ASSUME NEW r \in Runs
      PROVE  emails[r]' + Cardinality(ToSend(r)') <= lost[r]' + raced[r]' + Covered(r)'
  <2>1. /\ ToSend(r)' = IF z = r THEN ToSend(r) \cup {p} ELSE ToSend(r) \ {p}
        /\ Passed(r)' = IF z = r THEN Passed(r) \cup {p} ELSE Passed(r) \ {p}
    BY CrowdsMove DEF Steps
  <2>2. /\ ToSend(r) \in SUBSET Procs /\ Cardinality(ToSend(r)) \in Nat
        /\ emails[r] \in Nat /\ lost[r] \in Nat /\ raced[r] \in Nat
        /\ emails[r] + Cardinality(ToSend(r)) <= lost[r] + raced[r] + Covered(r)
    BY CrowdsAreFinite DEF MailInv, CountsInv, ToSend
  <2>3. CASE r = z
    <3>1. Cardinality(ToSend(r)') = Cardinality(ToSend(r)) + 1
      BY <1>3, <2>1, <2>2, <2>3, OneMore
    <3>2. Covered(r)' = 1
      BY <2>1, <2>3 DEF Covered
    <3>3. raced'[r] = raced[r] + n
      BY <1>1, <2>3 DEF MailInv, CountsInv, n
    <3>4. Covered(r) <= n /\ Covered(r) \in {0, 1}
      BY <1>1, <1>2, <2>3 DEF Covered
    <3> QED
      BY <1>2, <2>2, <3>1, <3>2, <3>3, <3>4
  <2>4. CASE r # z
    <3>1. p \notin ToSend(r) /\ p \notin Passed(r)
      BY DEF ToSend, Passed
    <3>2. ToSend(r)' = ToSend(r) /\ Passed(r)' = Passed(r)
      BY <2>1, <2>4, <3>1
    <3>3. raced'[r] = raced[r] /\ Covered(r)' = Covered(r)
      BY <2>4, <3>2 DEF MailInv, CountsInv, Covered
    <3> QED
      BY <2>2, <3>2, <3>3
  <2> QED
    BY <2>3, <2>4
<1> QED
  BY <1>4, <1>5 DEF MailInv

\* The e-mail leaves.
LEMMA SendMail ==
    ASSUME HandlersInv, MailInv, NEW p \in Procs, SendEmail(p)
    PROVE  MailInv'
<1> DEFINE z == RunOf(p)
<1>1. /\ z \in Runs /\ pc[p] = "sending" /\ pc' = [pc EXCEPT ![p] = "recording"] /\ job' = job
      /\ emails' = [emails EXCEPT ![z] = @ + 1] /\ UNCHANGED <<lost, raced, sent>>
  BY Working DEF SendEmail
<1>2. p \in ToSend(z) /\ p \in Passed(z)
  BY <1>1 DEF ToSend, Passed
<1>3. CountsInv'
  BY <1>1 DEF MailInv, CountsInv
<1>4. ASSUME NEW r \in Runs
      PROVE  emails[r]' + Cardinality(ToSend(r)') <= lost[r]' + raced[r]' + Covered(r)'
  <2>1. /\ ToSend(r)' = ToSend(r) \ {p}
        /\ Passed(r)' = IF z = r THEN Passed(r) \cup {p} ELSE Passed(r) \ {p}
    BY <1>1, CrowdsMove DEF Steps
  <2>2. /\ ToSend(r) \in SUBSET Procs /\ Cardinality(ToSend(r)) \in Nat
        /\ emails[r] \in Nat /\ lost[r] \in Nat /\ raced[r] \in Nat
        /\ emails[r] + Cardinality(ToSend(r)) <= lost[r] + raced[r] + Covered(r)
    BY CrowdsAreFinite DEF MailInv, CountsInv, ToSend
  <2>3. Passed(r)' = Passed(r)
    <3>1. r # z => p \notin Passed(r)
      BY DEF Passed
    <3> QED
      BY <1>2, <2>1, <3>1
  <2>4. Covered(r)' = Covered(r) /\ Covered(r) \in {0, 1}
    BY <1>1, <2>3 DEF Covered
  <2>5. CASE r = z
    <3>1. Cardinality(ToSend(r)') = Cardinality(ToSend(r)) - 1
      BY <1>2, <2>1, <2>2, <2>5, OneMore
    <3>2. emails'[r] = emails[r] + 1
      BY <1>1, <2>5 DEF MailInv, CountsInv
    <3> QED
      BY <1>1, <2>2, <2>4, <3>1, <3>2
  <2>6. CASE r # z
    <3>1. p \notin ToSend(r)
      BY <2>6 DEF ToSend
    <3>2. ToSend(r)' = ToSend(r) /\ emails'[r] = emails[r]
      BY <1>1, <2>1, <2>6, <3>1 DEF MailInv, CountsInv
    <3> QED
      BY <1>1, <2>2, <2>4, <3>2
  <2> QED
    BY <2>5, <2>6
<1> QED
  BY <1>3, <1>4 DEF MailInv

\* A handler stops, wherever it is; where an e-mail of it has left, it is recorded
\* or noted as lost.
LEMMA StopMail ==
    ASSUME HandlersInv, MailInv, NEW p \in Procs, pc[p] # "idle", Finish(p),
           UNCHANGED <<emails, raced>>,
           \/ /\ lost' = IF pc[p] = "recording" THEN [lost EXCEPT ![RunOf(p)] = @ + 1] ELSE lost
              /\ sent' = sent
           \/ /\ pc[p] # "sending" /\ lost' = lost
              /\ pc[p] = "recording" => sent' = sent \cup {RunOf(p)}
              /\ pc[p] # "recording" => sent' = sent
    PROVE  MailInv'
<1> DEFINE z == RunOf(p)
<1>1. z \in Runs /\ pc' = [pc EXCEPT ![p] = "idle"] /\ job' = [job EXCEPT ![p] = None]
  BY Working DEF Finish
<1>2. CountsInv'
  BY <1>1 DEF MailInv, CountsInv
<1>3. ASSUME NEW r \in Runs
      PROVE  emails[r]' + Cardinality(ToSend(r)') <= lost[r]' + raced[r]' + Covered(r)'
  <2>1. ToSend(r)' = ToSend(r) \ {p} /\ Passed(r)' = Passed(r) \ {p}
    BY <1>1, CrowdsMove DEF Steps
  <2>2. /\ ToSend(r) \in SUBSET Procs /\ Cardinality(ToSend(r)) \in Nat
        /\ emails[r] \in Nat /\ lost[r] \in Nat /\ raced[r] \in Nat
        /\ emails[r] + Cardinality(ToSend(r)) <= lost[r] + raced[r] + Covered(r)
        /\ Covered(r) \in {0, 1} /\ Covered(r)' \in {0, 1}
    BY CrowdsAreFinite DEF MailInv, CountsInv, ToSend, Covered
  <2>3. CASE r = z /\ pc[p] = "sending"
    <3>1. p \in ToSend(r)
      BY <2>3 DEF ToSend
    <3>2. Cardinality(ToSend(r)') = Cardinality(ToSend(r)) - 1
      BY <2>1, <2>2, <3>1, OneMore
    <3>3. lost'[r] = lost[r]
      BY <2>3
    <3> QED
      BY <2>2, <3>2, <3>3
  <2>4. CASE r = z /\ pc[p] = "recording"
    <3>1. ToSend(r)' = ToSend(r)
      BY <2>1, <2>4 DEF ToSend
    <3>2. \/ lost'[r] = lost[r] + 1
          \/ lost'[r] = lost[r] /\ r \in sent'
      BY <1>1, <2>4 DEF MailInv, CountsInv
    <3>3. CASE lost'[r] = lost[r] + 1
      BY <2>2, <3>1, <3>3
    <3>4. CASE lost'[r] = lost[r] /\ r \in sent'
      <4>1. Covered(r)' = 1
        BY <3>4 DEF Covered
      <4> QED
        BY <2>2, <3>1, <3>4, <4>1
    <3> QED
      BY <3>2, <3>3, <3>4
  <2>5. CASE r # z \/ pc[p] \notin {"sending", "recording"}
    <3>1. p \notin ToSend(r) /\ p \notin Passed(r)
      BY <2>5 DEF ToSend, Passed
    <3>2. ToSend(r)' = ToSend(r) /\ Passed(r)' = Passed(r)
      BY <2>1, <3>1
    <3>3. lost'[r] = lost[r] /\ (r \in sent' <=> r \in sent)
      BY <1>1, <2>5 DEF MailInv, CountsInv
    <3>4. Covered(r)' = Covered(r)
      BY <3>2, <3>3 DEF Covered
    <3> QED
      BY <2>2, <3>2, <3>3, <3>4
  <2> QED
    BY <2>3, <2>4, <2>5
<1> QED
  BY <1>2, <1>3 DEF MailInv

\* A handler moves on before the check.
LEMMA EarlyMail ==
    ASSUME HandlersInv, MailInv, NEW p \in Procs, pc[p] \notin {"sending", "recording"},
           NEW step \in Steps \ {"sending", "recording"},
           pc' = [pc EXCEPT ![p] = step],
           job' = job \/ \E j : job' = [job EXCEPT ![p] = j],
           UNCHANGED <<emails, lost, raced, sent>>
    PROVE  MailInv'
<1>1. ASSUME NEW r \in Runs PROVE ToSend(r)' = ToSend(r) /\ Passed(r)' = Passed(r)
  <2>1. ToSend(r)' = ToSend(r) \ {p} /\ Passed(r)' = Passed(r) \ {p}
    BY CrowdsMove
  <2>2. p \notin ToSend(r) /\ p \notin Passed(r)
    BY DEF ToSend, Passed
  <2> QED
    BY <2>1, <2>2
<1> QED
  BY <1>1, QuietMail

LEMMA MailStep ==
    ASSUME JobsInv, HandlersInv, MailInv, [Next]_vars
    PROVE  MailInv'
<1>1. ASSUME UNCHANGED <<pc, job, emails, lost, raced, sent>> PROVE MailInv'
  BY <1>1, QuietMail DEF ToSend, Passed, RunOf
<1>2. ASSUME NEW p \in Procs, NEW j \in jobs, Start(p, j) PROVE MailInv'
  BY <1>2, EarlyMail DEF Start, Steps
<1>3. ASSUME NEW p \in Procs, FindPrevious(p) \/ KeepSnapshot(p) PROVE MailInv'
  <2>1. PICK step \in Steps \ {"sending", "recording"} : pc' = [pc EXCEPT ![p] = step]
    BY <1>3 DEF FindPrevious, KeepSnapshot, Steps
  <2> QED
    BY <1>3, <2>1, EarlyMail DEF FindPrevious, KeepSnapshot
<1>4. ASSUME NEW p \in Procs, CheckDelivery(p) PROVE MailInv'
  <2>1. pc[p] = "checking" /\ UNCHANGED <<emails, lost, sent>>
    BY <1>4 DEF CheckDelivery
  <2>2. CASE NothingToSend(RunOf(p))
    <3>1. Finish(p) /\ raced' = raced
      BY <1>4, <2>2 DEF CheckDelivery
    <3> QED
      BY <2>1, <3>1, StopMail
  <2>3. CASE ~NothingToSend(RunOf(p))
    BY <1>4, <2>1, <2>3, PassMail DEF CheckDelivery
  <2> QED
    BY <2>2, <2>3
<1>5. ASSUME NEW p \in Procs, SendEmail(p) PROVE MailInv'
  BY <1>5, SendMail
<1>6. ASSUME NEW p \in Procs, StepFails(p) PROVE MailInv'
  BY <1>6, StopMail DEF StepFails
<1>7. ASSUME NEW p \in Procs, RecordSent(p) PROVE MailInv'
  BY <1>7, StopMail DEF RecordSent
<1>8. ASSUME NEW p \in Procs, Crash(p) PROVE MailInv'
  <2>1. CASE job[p] = None
    <3>1. pc[p] = "idle" /\ Finish(p) /\ UNCHANGED <<emails, lost, raced, sent>>
      BY <1>8, <2>1 DEF Crash, HandlersInv
    <3> QED
      BY <3>1, EarlyMail DEF Finish, Steps
  <2>2. CASE job[p] # None
    <3>1. pc[p] # "idle" /\ Finish(p) /\ UNCHANGED <<emails, raced, sent>>
      BY <1>8, <2>2 DEF Crash, HandlersInv
    <3>2. lost' = IF pc[p] = "recording" THEN [lost EXCEPT ![RunOf(p)] = @ + 1] ELSE lost
      BY <1>8, <2>2 DEF Crash
    <3> QED
      BY <3>1, <3>2, StopMail
  <2> QED
    BY <2>1, <2>2
<1>9. ASSUME NEW p \in Procs, ReadCounts(p) \/ ReadRows(p) \/ EnqueueDelivery(p) \/ Boot(p)
      PROVE  MailInv'
  BY <1>1, <1>9 DEF ReadCounts, ReadRows, EnqueueDelivery, Boot
<1>10. ASSUME NEW r \in Runs,
              \/ PlanRun(r)
              \/ \E c \in Cells, v \in Verdicts : CellJudged(r, c, v)
              \/ \E p \in Procs : Aggregate(p, r) \/ AggregateFails(p, r)
       PROVE  MailInv'
  BY <1>1, <1>10 DEF PlanRun, CellJudged, Aggregate, AggregateFails
<1>11. CASE UNCHANGED vars
  BY <1>1, <1>11 DEF vars
<1> QED
  BY <1>2, <1>3, <1>4, <1>5, <1>6, <1>7, <1>8, <1>9, <1>10, <1>11 DEF Next, Deliver

LEMMA MailInit == Init => JobsInv /\ HandlersInv /\ MailInv
<1> SUFFICES ASSUME Init PROVE JobsInv /\ HandlersInv /\ MailInv
  OBVIOUS
<1>1. JobsInv
  BY DeliveryAssumption DEF Init, JobsInv
<1>2. HandlersInv
  BY DEF Init, HandlersInv, Steps
<1>3. ASSUME NEW r \in Runs PROVE ToSend(r) = {} /\ Passed(r) = {}
  BY DEF Init, ToSend, Passed
<1>4. MailInv
  <2>1. CountsInv /\ \A r \in Runs : emails[r] = 0 /\ lost[r] = 0 /\ raced[r] = 0
    BY DEF Init, CountsInv
  <2>2. \A r \in Runs : Cardinality(ToSend(r)) = 0 /\ Covered(r) = 0
    BY <1>3, FS_EmptySet DEF Init, Covered
  <2> QED
    BY <2>1, <2>2 DEF MailInv
<1> QED
  BY <1>1, <1>2, <1>4

\* However many processes deliver, fail and die: a run is mailed once, but for the
\* e-mails whose handler stopped before the 'sent' row and for those that a
\* handler sent having passed the check behind another.
THEOREM EmailsStayAccounted == Spec => []EmailsAreAccounted
<1>1. JobsInv /\ HandlersInv /\ [Next]_vars => JobsInv' /\ HandlersInv'
  BY JobsStep, HandlersStep
<1>2. JobsInv /\ HandlersInv /\ MailInv /\ [Next]_vars => MailInv'
  BY MailStep
<1>3. MailInv => EmailsAreAccounted
  <2> SUFFICES ASSUME MailInv, NEW r \in Runs PROVE emails[r] <= 1 + lost[r] + raced[r]
    BY DEF EmailsAreAccounted
  <2>1. /\ emails[r] \in Nat /\ lost[r] \in Nat /\ raced[r] \in Nat
        /\ Cardinality(ToSend(r)) \in Nat /\ Covered(r) \in {0, 1}
        /\ emails[r] + Cardinality(ToSend(r)) <= lost[r] + raced[r] + Covered(r)
    BY CrowdsAreFinite DEF MailInv, CountsInv, ToSend, Covered
  <2> QED
    BY <2>1
<1> QED
  BY <1>1, <1>2, <1>3, MailInit, PTL DEF Spec

-----------------------------------------------------------------------------
(* Counted sums: what a report adds up.                                    *)

Units(f, S) == UNION {{x} \X (1..f[x]) : x \in S}

LEMMA IntervalSize ==
    ASSUME NEW n \in Nat
    PROVE  IsFiniteSet(1..n) /\ Cardinality(1..n) = n
<1>1. IsFiniteSet(1..n) /\ Cardinality(1..n) = IF 1 > n THEN 0 ELSE n - 1 + 1
  BY FS_Interval
<1> QED
  BY <1>1

\* A sum of bounded entries is bounded, and no entry exceeds it.
LEMMA TotalBounds ==
    ASSUME NEW f, NEW S, IsFiniteSet(S), NEW M \in Nat, \A x \in S : f[x] \in 0..M
    PROVE  /\ Total(f, S) \in Nat
           /\ Total(f, S) <= Cardinality(S) * M
           /\ \A x \in S : f[x] <= Total(f, S)
<1>1. IsFiniteSet(S \X (1..M)) /\ Cardinality(S \X (1..M)) = Cardinality(S) * M
  <2>1. IsFiniteSet(1..M) /\ Cardinality(1..M) = M
    BY IntervalSize
  <2> QED
    BY <2>1, FS_Product
<1>2. Units(f, S) \subseteq S \X (1..M)
  BY DEF Units
<1>3. IsFiniteSet(Units(f, S)) /\ Cardinality(Units(f, S)) <= Cardinality(S) * M
  BY <1>1, <1>2, FS_Subset
<1>4. ASSUME NEW x \in S PROVE f[x] <= Cardinality(Units(f, S))
  <2>1. {x} \X (1..f[x]) \subseteq Units(f, S)
    BY DEF Units
  <2>2. Cardinality({x} \X (1..f[x])) <= Cardinality(Units(f, S))
    BY <1>3, <2>1, FS_Subset
  <2>3. f[x] \in Nat
    OBVIOUS
  <2>4. IsFiniteSet(1..f[x]) /\ Cardinality(1..f[x]) = f[x]
    BY <2>3, IntervalSize
  <2>5. IsFiniteSet({x}) /\ Cardinality({x}) = 1
    BY FS_Singleton
  <2>6. Cardinality({x} \X (1..f[x])) = 1 * f[x]
    BY <2>4, <2>5, FS_Product
  <2> QED
    BY <2>2, <2>3, <2>6
<1>5. Total(f, S) = Cardinality(Units(f, S))
  BY DEF Total, Units
<1> QED
  BY <1>3, <1>4, <1>5, FS_CardinalityType

\* The sizes of the parts of a set add up to its size.
LEMMA PartsAddUp ==
    ASSUME NEW S, IsFiniteSet(S), NEW K, NEW part \in [S -> K], NEW f,
           \A k \in K : f[k] = Cardinality({s \in S : part[s] = k})
    PROVE  Total(f, K) = Cardinality(S)
<1> DEFINE Part(k) == {s \in S : part[s] = k}
           U == Units(f, K)
           number == [k \in K |-> CHOOSE b : b \in Bijection(1..f[k], Part(k))]
           h == [u \in U |-> number[u[1]][u[2]]]
<1>1. ASSUME NEW k \in K
      PROVE  number[k] \in Bijection(1..f[k], Part(k))
  <2>1. IsFiniteSet(Part(k))
    BY FS_Subset
  <2>2. ExistsBijection(1..f[k], Part(k))
    BY <2>1, FS_CardinalityType
  <2> QED
    BY <2>2, Fun_ExistsBij
<1>2. ASSUME NEW k \in K, NEW i \in 1..f[k]
      PROVE  number[k][i] \in S /\ part[number[k][i]] = k
  <2>1. number[k][i] \in Part(k)
    <3> HIDE DEF number, Part
    <3> QED
      BY <1>1 DEF Bijection, Injection
  <2> QED
    BY <2>1
<1>3. ASSUME NEW k \in K, NEW i \in 1..f[k], NEW m \in 1..f[k], number[k][i] = number[k][m]
      PROVE  i = m
  <2> HIDE DEF number, Part
  <2> QED
    BY <1>1, <1>3 DEF Bijection, Injection, IsInjective
<1>4. ASSUME NEW s \in S
      PROVE  \E i \in 1..f[part[s]] : number[part[s]][i] = s
  <2>1. s \in Part(part[s]) /\ part[s] \in K
    OBVIOUS
  <2> HIDE DEF number, Part
  <2> QED
    BY <1>1, <2>1 DEF Bijection, Surjection
<1> HIDE DEF number
<1>5. \A u \in U : \E k \in K : \E i \in 1..f[k] : u = <<k, i>>
  BY DEF Units
<1>6. \A k \in K : \A i \in 1..f[k] : <<k, i>> \in U /\ h[<<k, i>>] = number[k][i]
  BY DEF Units
<1> HIDE DEF U
<1>7. h \in [U -> S]
  BY <1>2, <1>5
<1>8. ASSUME NEW u \in U, NEW v \in U, h[u] = h[v] PROVE u = v
  <2>1. PICK k \in K : \E i \in 1..f[k] : u = <<k, i>>
    BY <1>5
  <2>2. PICK i \in 1..f[k] : u = <<k, i>>
    BY <2>1
  <2>3. PICK l \in K : \E m \in 1..f[l] : v = <<l, m>>
    BY <1>5
  <2>4. PICK m \in 1..f[l] : v = <<l, m>>
    BY <2>3
  <2>5. number[k][i] = number[l][m]
    BY <1>6, <1>8, <2>2, <2>4
  <2>6. k = l
    BY <1>2, <2>5
  <2> QED
    BY <1>3, <2>2, <2>4, <2>5, <2>6
<1>9. ASSUME NEW s \in S PROVE \E u \in U : h[u] = s
  <2>1. PICK i \in 1..f[part[s]] : number[part[s]][i] = s
    BY <1>4
  <2>2. <<part[s], i>> \in U /\ h[<<part[s], i>>] = s
    BY <1>6, <2>1
  <2> QED
    BY <2>2
<1> HIDE DEF h
<1>10. h \in Bijection(U, S)
  BY <1>7, <1>8, <1>9 DEF Bijection, Injection, Surjection, IsInjective
<1>11. ExistsBijection(S, U)
  BY <1>10, Fun_ExistsBij, Fun_ExistsBijSymmetric
<1>12. Cardinality(U) = Cardinality(S)
  BY <1>11, FS_Bijection
<1> QED
  BY <1>12 DEF Total, Units, U

-----------------------------------------------------------------------------
(* The figures of one set of judgments agree.                              *)

\* The judgments of a run at some time.
Judgments == UNION {[D -> Verdicts] : D \in SUBSET Cells}

LEMMA JudgmentsShape ==
    ASSUME NEW j \in Judgments
    PROVE  /\ DOMAIN j \subseteq Cells
           /\ \A c \in DOMAIN j : j[c] \in Verdicts /\ j[c] \in Judgment
           /\ \A c \in DOMAIN j : QuestionOf(c) \in Questions /\ ModelOf(c) \in Models
           /\ BrandHits(j) \subseteq Passing(j) /\ Passing(j) \subseteq DOMAIN j
<1>1. DOMAIN j \subseteq Cells /\ \A c \in DOMAIN j : j[c] \in Verdicts
  BY DEF Judgments
<1> QED
  BY <1>1, DeliveryAssumption DEF Cells, QuestionOf, ModelOf, BrandHits, Passing

LEMMA CellsAreFinite ==
    /\ IsFiniteSet(Cells) /\ NTotal \in Nat /\ NTotal > 0
    /\ \A S \in SUBSET Cells : IsFiniteSet(S) /\ Cardinality(S) \in 0..NTotal
<1>1. IsFiniteSet(Cells) /\ Cells # {}
  <2>1. IsFiniteSet(Questions \X Models)
    BY MetricsAssumption, FS_Product
  <2>2. PICK q \in Questions, m \in Models : TRUE
    BY MetricsAssumption
  <2>3. <<q, m>> \in Questions \X Models
    OBVIOUS
  <2> QED
    BY <2>1, <2>3 DEF Cells
<1>2. NTotal \in Nat /\ NTotal # 0
  BY <1>1, FS_CardinalityType, FS_EmptySet DEF NTotal
<1>3. ASSUME NEW S \in SUBSET Cells PROVE IsFiniteSet(S) /\ Cardinality(S) \in 0..NTotal
  <2>1. IsFiniteSet(S) /\ Cardinality(S) <= Cardinality(Cells)
    BY <1>1, FS_Subset
  <2>2. Cardinality(S) \in Nat
    BY <2>1, FS_CardinalityType
  <2> QED
    BY <1>2, <2>1, <2>2 DEF NTotal
<1> QED
  BY <1>1, <1>2, <1>3

\* The view and the rows behind it select the same judgments.
LEMMA CountsCiteRows ==
    ASSUME NEW j \in Judgments
    PROVE  /\ SmrOverall(j).brandHits = Cardinality(SmrEvidence(j))
           /\ SmrOverall(j).citationHits = Cardinality(CitationEvidence(j))
           /\ SmrOverall(j).recommendationHits = Cardinality(RecommendationEvidence(j))
           /\ CitationEvidence(j) \cup RecommendationEvidence(j) \cup VisibilityEvidence(j)
                 \subseteq SmrEvidence(j)
<1>1. CitationEvidence(j) = {c \in BrandHits(j) : j[c].cited}
  BY DEF CitationEvidence, BrandHits
<1>2. RecommendationEvidence(j) = {c \in BrandHits(j) : j[c].recommended}
  BY DEF RecommendationEvidence, BrandHits
<1>3. VisibilityEvidence(j) \subseteq BrandHits(j)
  BY DEF VisibilityEvidence, BrandHits
<1> QED
  BY <1>1, <1>2, <1>3 DEF SmrOverall, SmrEvidence

\* 1 / rank is at most 1.
LEMMA InvRankIsBounded ==
    ASSUME NEW j \in Judgments
    PROVE  InvRank(j) <= RankScale * Cardinality(VisibilityEvidence(j))
<1> DEFINE ranked == {c \in BrandHits(j) : j[c].rank # 0}
           f == [c \in ranked |-> RankScale \div j[c].rank]
<1>1. ranked = VisibilityEvidence(j)
  BY DEF BrandHits, VisibilityEvidence
<1>2. ranked \in SUBSET Cells
  BY JudgmentsShape
<1>3. ASSUME NEW c \in ranked PROVE f[c] \in 0..RankScale
  <2>1. j[c].rank \in 1..MaxRank
    BY JudgmentsShape DEF Judgment, MaxRank
  <2>2. j[c].rank = 1 \/ j[c].rank = 2 \/ j[c].rank = 3
    BY <2>1 DEF MaxRank
  <2> QED
    BY <2>2 DEF RankScale
<1>4. IsFiniteSet(ranked) /\ Cardinality(ranked) \in Nat
  BY <1>2, CellsAreFinite
<1> HIDE DEF ranked, f
<1>5. Total(f, ranked) <= Cardinality(ranked) * RankScale
  BY <1>3, <1>4, TotalBounds DEF RankScale
<1>6. InvRank(j) = Total(f, ranked)
  BY DEF InvRank, f, ranked
<1> QED
  BY <1>1, <1>4, <1>5, <1>6 DEF RankScale

\* The slices and the gaps part the hits.
LEMMA SlicesPartTheHits ==
    ASSUME NEW j \in Judgments
    PROVE  /\ Total(Decomposition(j).byModel, Models) = Cardinality(BrandHits(j))
           /\ Total(Decomposition(j).byQuestion, Questions) = Cardinality(BrandHits(j))
           /\ Total(Decomposition(j).citationByModel, Models) = Cardinality(CitationEvidence(j))
<1> DEFINE H == BrandHits(j)
           C == CitationEvidence(j)
<1>1. /\ IsFiniteSet(H) /\ IsFiniteSet(C)
      /\ \A c \in H \cup C : QuestionOf(c) \in Questions /\ ModelOf(c) \in Models
  <2>1. H \cup C \subseteq DOMAIN j /\ DOMAIN j \subseteq Cells
    BY JudgmentsShape DEF CitationEvidence
  <2>2. H \in SUBSET Cells /\ C \in SUBSET Cells
    BY <2>1
  <2> QED
    BY <2>1, <2>2, JudgmentsShape, CellsAreFinite
<1>2. Total(Decomposition(j).byModel, Models) = Cardinality(H)
  <2> DEFINE part == [c \in H |-> ModelOf(c)]
             f == [m \in Models |-> ByModel(j, m)]
  <2>1. part \in [H -> Models]
    BY <1>1
  <2>2. \A m \in Models : f[m] = Cardinality({c \in H : part[c] = m})
    <3> TAKE m \in Models
    <3>1. {c \in H : part[c] = m} = {c \in BrandHits(j) : ModelOf(c) = m}
      OBVIOUS
    <3> QED
      BY <3>1 DEF ByModel
  <2>3. Decomposition(j).byModel = f
    BY DEF Decomposition
  <2> HIDE DEF part, f, H
  <2> QED
    BY <1>1, <2>1, <2>2, <2>3, PartsAddUp
<1>3. Total(Decomposition(j).byQuestion, Questions) = Cardinality(H)
  <2> DEFINE part == [c \in H |-> QuestionOf(c)]
             f == [q \in Questions |-> ByQuestion(j, q)]
  <2>1. part \in [H -> Questions]
    BY <1>1
  <2>2. \A q \in Questions : f[q] = Cardinality({c \in H : part[c] = q})
    <3> TAKE q \in Questions
    <3>1. {c \in H : part[c] = q} = {c \in BrandHits(j) : QuestionOf(c) = q}
      OBVIOUS
    <3> QED
      BY <3>1 DEF ByQuestion
  <2>3. Decomposition(j).byQuestion = f
    BY DEF Decomposition
  <2> HIDE DEF part, f, H
  <2> QED
    BY <1>1, <2>1, <2>2, <2>3, PartsAddUp
<1>4. Total(Decomposition(j).citationByModel, Models) = Cardinality(C)
  <2> DEFINE part == [c \in C |-> ModelOf(c)]
             f == [m \in Models |-> CitationByModel(j, m)]
  <2>1. part \in [C -> Models]
    BY <1>1
  <2>2. \A m \in Models : f[m] = Cardinality({c \in C : part[c] = m})
    <3> TAKE m \in Models
    <3>1. {c \in C : part[c] = m}
             = {c \in Passing(j) : j[c].cited /\ j[c].mentioned /\ ModelOf(c) = m}
      BY DEF CitationEvidence
    <3> QED
      BY <3>1 DEF CitationByModel
  <2>3. Decomposition(j).citationByModel = f
    BY DEF Decomposition
  <2> HIDE DEF part, f, C
  <2> QED
    BY <1>1, <2>1, <2>2, <2>3, PartsAddUp
<1> QED
  BY <1>2, <1>3, <1>4

LEMMA GapsPartTheHits ==
    ASSUME NEW j \in Judgments, NEW gaps, gaps = PriorityGap(j)
    PROVE  Total([q \in DOMAIN gaps |-> gaps[q].brandHits], DOMAIN gaps)
              = Cardinality(BrandHits(j))
<1> DEFINE H == BrandHits(j)
           K == {x \in Questions : GapOf(j, x).total > 0}
           part == [c \in H |-> QuestionOf(c)]
           f == [q \in DOMAIN gaps |-> gaps[q].brandHits]
<1>1. DOMAIN gaps = K /\ \A q \in K : gaps[q] = GapOf(j, q)
  BY DEF PriorityGap
<1>2. ASSUME NEW c \in H PROVE QuestionOf(c) \in K
  <2> DEFINE q == QuestionOf(c)
             R == {d \in DOMAIN j : QuestionOf(d) = q}
  <2>1. c \in DOMAIN j /\ q \in Questions /\ c \in R
    BY JudgmentsShape
  <2>2. R \in SUBSET Cells
    BY JudgmentsShape
  <2>3. Cardinality(R) \in Nat /\ Cardinality(R) # 0
    BY <2>1, <2>2, CellsAreFinite, FS_EmptySet
  <2>4. GapOf(j, q).total = Cardinality(R)
    BY DEF GapOf
  <2> QED
    BY <2>1, <2>3, <2>4
<1>3. part \in [H -> K]
  BY <1>2
<1>4. \A q \in K : f[q] = Cardinality({c \in H : part[c] = q})
  <2> TAKE q \in K
  <2>1. {c \in H : part[c] = q} = {c \in BrandHits(j) : QuestionOf(c) = q}
    OBVIOUS
  <2>2. f[q] = GapOf(j, q).brandHits
    BY <1>1
  <2> QED
    BY <2>1, <2>2 DEF GapOf
<1>5. IsFiniteSet(H)
  <2>1. H \in SUBSET Cells
    BY JudgmentsShape
  <2> QED
    BY <2>1, CellsAreFinite
<1> HIDE DEF H, K, part, f
<1>6. Total(f, K) = Cardinality(H)
  BY <1>3, <1>4, <1>5, PartsAddUp
<1> QED
  BY <1>1, <1>6 DEF f, H

\* A hit is never among what was abstained from.
LEMMA HitsAndAbstained ==
    ASSUME NEW j \in Judgments
    PROVE  Cardinality(BrandHits(j)) + AbstainCount(j) <= NTotal
<1> DEFINE H == BrandHits(j)
           A == {c \in DOMAIN j : \/ j[c].provenance = "abstain"
                                  \/ j[c].guard = "downgraded_abstain"}
<1>1. H \in SUBSET Cells /\ A \in SUBSET Cells /\ H \cup A \in SUBSET Cells
  BY JudgmentsShape
<1>2. H \cap A = {}
  BY JudgmentsShape, DeliveryAssumption DEF BrandHits, Passing
<1>3. IsFiniteSet(H) /\ IsFiniteSet(A)
      /\ Cardinality(H) \in Nat /\ Cardinality(A) \in Nat /\ Cardinality(H \cup A) <= NTotal
  BY <1>1, CellsAreFinite
<1>4. AbstainCount(j) = Cardinality(A)
  BY DEF AbstainCount
<1> HIDE DEF H, A
<1>5. Cardinality(H \cup A) = Cardinality(H) + Cardinality(A)
  BY <1>2, <1>3, FS_Union, FS_EmptySet
<1> QED
  BY <1>3, <1>4, <1>5, CellsAreFinite DEF H

\* Every share of voice passes the gate: it is counted in the total it is divided by.
LEMMA VoicesAreVerified ==
    ASSUME NEW j \in Judgments
    PROVE  VerifiedSov(j) = Competitors
<1> DEFINE f == [k \in Competitors |-> RivalMentions(j, k)]
           B == BrandMentions(j)
           T == Total(f, Competitors)
<1>1. B \in Nat
  <2>1. {c \in Passing(j) : j[c].mentioned} \in SUBSET Cells
    BY JudgmentsShape
  <2> QED
    BY <2>1, CellsAreFinite DEF BrandMentions
<1>2. \A k \in Competitors : f[k] \in 0..NTotal
  <2> TAKE k \in Competitors
  <2>1. {c \in Passing(j) : k \in j[c].rivals} \in SUBSET Cells
    BY JudgmentsShape
  <2> QED
    BY <2>1, CellsAreFinite DEF RivalMentions
<1>3. TotalMentions(j) = B + T
  BY DEF TotalMentions
<1>4. \A k \in Competitors : f[k] = RivalMentions(j, k)
  OBVIOUS
<1> HIDE DEF f
<1>5. T \in Nat /\ \A k \in Competitors : f[k] <= T
  BY <1>2, CellsAreFinite, MetricsAssumption, TotalBounds
<1> HIDE DEF B, T
<1>6. ASSUME NEW k \in Competitors
      PROVE  VerifiableShare(RivalMentions(j, k),
                 IF TotalMentions(j) > 0 THEN TotalMentions(j) ELSE NTotal)
  <2>1. f[k] \in Nat /\ f[k] <= T /\ RivalMentions(j, k) = f[k]
    BY <1>2, <1>4, <1>5, CellsAreFinite
  <2> QED
    BY <1>1, <1>3, <1>5, <2>1, CellsAreFinite DEF VerifiableShare
<1> QED
  BY <1>6 DEF VerifiedSov

\* What is read of a run while nothing is judged adds up.
LEMMA OneReadAddsUp ==
    ASSUME NEW r, judged[r] \in Judgments, NEW report,
           report.counts = Counts(r), report.rows = Rows(r)
    PROVE  AddsUp(report)
<1> DEFINE j == judged[r]
<1>1. /\ report.counts = SmrOverall(j)
      /\ report.rows.hits = SmrEvidence(j) /\ report.rows.citations = CitationEvidence(j)
      /\ report.rows.recommendations = RecommendationEvidence(j)
      /\ report.rows.visible = VisibilityEvidence(j)
      /\ report.rows.slices = Decomposition(j) /\ report.rows.gaps = PriorityGap(j)
      /\ report.rows.voices = VerifiedSov(j) /\ report.rows.abstained = AbstainCount(j)
  BY DEF Counts, Rows
<1>2. /\ SmrOverall(j).brandHits = Cardinality(BrandHits(j))
      /\ SmrOverall(j).invRankSum = InvRank(j)
  BY DEF SmrOverall
<1>3. j \in Judgments
  OBVIOUS
<1> HIDE DEF j
<1>4. /\ SmrOverall(j).brandHits = Cardinality(SmrEvidence(j))
      /\ SmrOverall(j).citationHits = Cardinality(CitationEvidence(j))
      /\ SmrOverall(j).recommendationHits = Cardinality(RecommendationEvidence(j))
      /\ CitationEvidence(j) \cup RecommendationEvidence(j) \cup VisibilityEvidence(j)
            \subseteq SmrEvidence(j)
  BY <1>3, CountsCiteRows
<1>5. SmrOverall(j).invRankSum <= RankScale * Cardinality(VisibilityEvidence(j))
  BY <1>2, <1>3, InvRankIsBounded
<1>6. /\ SmrOverall(j).brandHits = Total(Decomposition(j).byModel, Models)
      /\ SmrOverall(j).brandHits = Total(Decomposition(j).byQuestion, Questions)
      /\ SmrOverall(j).citationHits = Total(Decomposition(j).citationByModel, Models)
  BY <1>2, <1>3, <1>4, SlicesPartTheHits
<1>7. \A gaps : gaps = PriorityGap(j) =>
         SmrOverall(j).brandHits = Total([q \in DOMAIN gaps |-> gaps[q].brandHits], DOMAIN gaps)
  BY <1>2, <1>3, GapsPartTheHits
<1>8. SmrOverall(j).brandHits + AbstainCount(j) <= NTotal /\ VerifiedSov(j) = Competitors
  BY <1>2, <1>3, HitsAndAbstained, VoicesAreVerified
<1>9. SmrOverall(j).brandHits
        = Total([q \in DOMAIN report.rows.gaps |-> report.rows.gaps[q].brandHits],
                DOMAIN report.rows.gaps)
  BY <1>1, <1>7
<1> QED
  BY <1>1, <1>4, <1>5, <1>6, <1>8, <1>9 DEF AddsUp

-----------------------------------------------------------------------------
(* The snapshots                                                           *)

\* What the handler of p has read is what the run shows at this moment, or adds up.
Reading(p) ==
    /\ pc[p] = "idle" => counts[p] = None /\ rows[p] = None
    /\ pc[p] = "reading" /\ ~stale[p] =>
         /\ counts[p] # None /\ rows[p] = None => counts[p] = Counts(RunOf(p))
         /\ counts[p] = None /\ rows[p] # None => rows[p] = Rows(RunOf(p))
         /\ counts[p] # None /\ rows[p] # None => AddsUp(Report(p))
    /\ pc[p] = "snapshotting" /\ ~stale[p] => AddsUp(Report(p))

\* Counts and rows are read one after the other. Nothing that is written before the
\* first or after the second matters; what is written in between marks the handler.
ReadInv ==
    /\ judged \in [Runs -> Judgments]
    /\ DOMAIN counts = Procs /\ counts = [p \in Procs |-> counts[p]]
    /\ DOMAIN rows = Procs /\ rows = [p \in Procs |-> rows[p]]
    /\ stale \in [Procs -> BOOLEAN]
    /\ \A p \in Procs : Reading(p)
    /\ SnapshotAddsUp

LEMMA SameFigures ==
    ASSUME NEW a, NEW b, a.counts = b.counts, a.rows = b.rows, AddsUp(a)
    PROVE  AddsUp(b)
BY DEF AddsUp

\* A step that leaves the handlers, the reads and the snapshots alone.
LEMMA QuietRead ==
    ASSUME ReadInv, UNCHANGED <<judged, pc, job, counts, rows, stale, snapshot>>
    PROVE  ReadInv'
BY DEF ReadInv, Reading, SnapshotAddsUp, AddsUp, Report, RunOf, Counts, Rows

\* The handlers other than p, and what has been judged, stay as they are.
LEMMA OthersRead ==
    ASSUME ReadInv, NEW p \in Procs, judged' = judged,
           \A q \in Procs \ {p} : /\ pc'[q] = pc[q] /\ job'[q] = job[q]
                                  /\ counts'[q] = counts[q] /\ rows'[q] = rows[q]
                                  /\ stale'[q] = stale[q]
    PROVE  \A q \in Procs \ {p} : Reading(q)'
<1> TAKE q \in Procs \ {p}
<1>1. Reading(q)
  BY DEF ReadInv
<1>2. Counts(RunOf(q))' = Counts(RunOf(q)) /\ Rows(RunOf(q))' = Rows(RunOf(q))
  BY DEF RunOf, Counts, Rows
<1>3. AddsUp(Report(q)) => AddsUp(Report(q))'
  <2>1. ASSUME AddsUp(Report(q)) PROVE AddsUp(Report(q)')
    BY <2>1, SameFigures DEF Report
  <2> QED
    BY <2>1 DEF AddsUp, Report
<1> QED
  BY <1>1, <1>2, <1>3 DEF Reading

\* The handler of p ends: it has read nothing.
LEMMA FinishKeepsReads ==
    ASSUME ReadInv, HandlersInv, NEW p \in Procs, Finish(p), UNCHANGED <<judged, snapshot>>
    PROVE  ReadInv'
<1>1. /\ pc' = [pc EXCEPT ![p] = "idle"] /\ job' = [job EXCEPT ![p] = None]
      /\ counts' = [counts EXCEPT ![p] = None] /\ rows' = [rows EXCEPT ![p] = None]
      /\ stale' = [stale EXCEPT ![p] = FALSE]
  BY DEF Finish
<1>2. /\ pc'[p] = "idle" /\ counts'[p] = None /\ rows'[p] = None
      /\ DOMAIN counts' = Procs /\ counts' = [q \in Procs |-> counts'[q]]
      /\ DOMAIN rows' = Procs /\ rows' = [q \in Procs |-> rows'[q]]
      /\ stale' \in [Procs -> BOOLEAN]
  BY <1>1 DEF ReadInv, HandlersInv
<1>3. \A q \in Procs \ {p} : Reading(q)'
  <2>1. \A q \in Procs \ {p} : /\ pc'[q] = pc[q] /\ job'[q] = job[q]
                               /\ counts'[q] = counts[q] /\ rows'[q] = rows[q]
                               /\ stale'[q] = stale[q]
    BY <1>1 DEF ReadInv, HandlersInv
  <2> QED
    BY <2>1, OthersRead
<1>4. Reading(p)'
  BY <1>2 DEF Reading
<1>5. SnapshotAddsUp'
  BY DEF ReadInv, SnapshotAddsUp, AddsUp
<1> QED
  BY <1>2, <1>3, <1>4, <1>5 DEF ReadInv

\* A judgment is written: who has read half of its run is marked.
LEMMA JudgingKeepsReads ==
    ASSUME ReadInv, HandlersInv, NEW r \in Runs, NEW c \in Cells, NEW v \in Verdicts,
           CellJudged(r, c, v)
    PROVE  ReadInv'
<1>1. UNCHANGED <<pc, job, counts, rows, snapshot>>
  BY DEF CellJudged
<1>2. judged' \in [Runs -> Judgments] /\ \A s \in Runs \ {r} : judged'[s] = judged[s]
  <2> DEFINE old == judged[r]
             new == [d \in DOMAIN old \cup {c} |-> IF d = c THEN v ELSE old[d]]
  <2>1. old \in Judgments
    BY DEF ReadInv
  <2>2. DOMAIN old \cup {c} \in SUBSET Cells /\ \A d \in DOMAIN old : old[d] \in Verdicts
    BY <2>1, JudgmentsShape
  <2>3. new \in [DOMAIN old \cup {c} -> Verdicts]
    BY <2>2
  <2>4. new \in Judgments
    BY <2>2, <2>3 DEF Judgments
  <2>5. judged' = [judged EXCEPT ![r] = new]
    BY DEF CellJudged
  <2> HIDE DEF new, old
  <2> QED
    BY <2>4, <2>5 DEF ReadInv
<1>3. stale' \in [Procs -> BOOLEAN]
      /\ \A p \in Procs :
           stale'[p] = (stale[p] \/ (/\ pc[p] = "reading" /\ RunOf(p) = r
                                     /\ (counts[p] # None) # (rows[p] # None)))
  BY DEF CellJudged, ReadInv
<1>4. ASSUME NEW p \in Procs PROVE Reading(p)'
  <2>1. Reading(p)
    BY DEF ReadInv
  <2>2. AddsUp(Report(p)) => AddsUp(Report(p))'
    <3>1. ASSUME AddsUp(Report(p)) PROVE AddsUp(Report(p)')
      BY <1>1, <3>1, SameFigures DEF Report
    <3> QED
      BY <3>1 DEF AddsUp, Report
  <2>3. pc'[p] = pc[p] /\ counts'[p] = counts[p] /\ rows'[p] = rows[p] /\ RunOf(p)' = RunOf(p)
    BY <1>1 DEF RunOf
  <2>4. ASSUME pc[p] = "reading", ~stale'[p], (counts[p] # None) # (rows[p] # None)
        PROVE  Counts(RunOf(p))' = Counts(RunOf(p)) /\ Rows(RunOf(p))' = Rows(RunOf(p))
    <3>1. RunOf(p) # r /\ RunOf(p) \in Runs
      BY <1>3, <2>4, Working
    <3>2. judged'[RunOf(p)'] = judged[RunOf(p)]
      BY <1>2, <2>3, <3>1
    <3> QED
      BY <3>2 DEF Counts, Rows
  <2>5. ~stale'[p] => ~stale[p]
    BY <1>3
  <2> QED
    BY <2>1, <2>2, <2>3, <2>4, <2>5 DEF Reading
<1>5. SnapshotAddsUp'
  BY <1>1 DEF ReadInv, SnapshotAddsUp, AddsUp
<1> QED
  BY <1>1, <1>2, <1>3, <1>4, <1>5 DEF ReadInv

\* One of the two reads. When it is the second and nothing was judged since the
\* first, both are of one set of judgments.
LEMMA ReadKeepsReads ==
    ASSUME ReadInv, HandlersInv, NEW p \in Procs, ReadCounts(p) \/ ReadRows(p)
    PROVE  ReadInv'
<1> DEFINE r == RunOf(p)
<1>1. /\ UNCHANGED <<judged, pc, job, stale, snapshot>> /\ pc[p] = "reading"
      /\ r \in Runs /\ judged[r] \in Judgments /\ Reading(p)
  BY Working DEF ReadCounts, ReadRows, ReadInv, runVars
<1>2. \/ counts[p] = None /\ counts' = [counts EXCEPT ![p] = Counts(r)] /\ rows' = rows
      \/ rows[p] = None /\ rows' = [rows EXCEPT ![p] = Rows(r)] /\ counts' = counts
  BY DEF ReadCounts, ReadRows
<1>3. /\ DOMAIN counts' = Procs /\ counts' = [q \in Procs |-> counts'[q]]
      /\ DOMAIN rows' = Procs /\ rows' = [q \in Procs |-> rows'[q]]
      /\ \A q \in Procs \ {p} : counts'[q] = counts[q] /\ rows'[q] = rows[q]
      /\ \/ counts[p] = None /\ counts'[p] = Counts(r) /\ rows'[p] = rows[p]
         \/ rows[p] = None /\ rows'[p] = Rows(r) /\ counts'[p] = counts[p]
  <2> HIDE DEF r
  <2> QED
    BY <1>2 DEF ReadInv
<1>4. RunOf(p)' = r /\ Counts(RunOf(p))' = Counts(r) /\ Rows(RunOf(p))' = Rows(r)
  BY <1>1 DEF RunOf, Counts, Rows
<1>5. ASSUME counts'[p] # None, rows'[p] # None, ~stale[p] PROVE AddsUp(Report(p))'
  <2>1. counts'[p] = Counts(r) /\ rows'[p] = Rows(r)
    <3> HIDE DEF r
    <3> QED
      BY <1>1, <1>3, <1>5 DEF Reading, r
  <2>2. Report(p)'.counts = Counts(r) /\ Report(p)'.rows = Rows(r)
    BY <2>1 DEF Report
  <2>3. AddsUp(Report(p)')
    BY <1>1, <2>2, OneReadAddsUp
  <2> QED
    BY <2>3 DEF AddsUp, Report
<1>6. Reading(p)'
  <2>1. ~stale[p] =>
          /\ counts[p] # None /\ rows[p] = None => counts[p] = Counts(r)
          /\ counts[p] = None /\ rows[p] # None => rows[p] = Rows(r)
    BY <1>1 DEF Reading
  <2>2. pc'[p] = "reading" /\ stale'[p] = stale[p]
    BY <1>1
  <2> HIDE DEF r
  <2>3. ~stale[p] =>
          /\ counts'[p] # None /\ rows'[p] = None => counts'[p] = Counts(r)
          /\ counts'[p] = None /\ rows'[p] # None => rows'[p] = Rows(r)
    BY <1>3, <2>1
  <2> QED
    BY <1>4, <1>5, <2>2, <2>3 DEF Reading
<1>7. \A q \in Procs \ {p} : Reading(q)'
  BY <1>1, <1>3, OthersRead
<1>8. SnapshotAddsUp'
  BY <1>1 DEF ReadInv, SnapshotAddsUp, AddsUp
<1> QED
  BY <1>1, <1>3, <1>6, <1>7, <1>8 DEF ReadInv

\* The handler moves on with what it has read, and may keep it as the snapshot.
LEMMA MovingKeepsReads ==
    ASSUME ReadInv, HandlersInv, NEW p \in Procs, UNCHANGED <<judged, counts, rows, stale>>,
           pc[p] = "idle" => counts[p] = None /\ rows[p] = None,
           NEW step \in Steps \ {"idle"}, pc' = [pc EXCEPT ![p] = step],
           job' = job \/ \E j : job' = [job EXCEPT ![p] = j],
           step = "reading" => pc[p] = "idle",
           step = "snapshotting" => pc[p] = "reading" /\ counts[p] # None /\ rows[p] # None,
           SnapshotAddsUp'
    PROVE  ReadInv'
<1>1. pc'[p] = step /\ \A q \in Procs \ {p} : pc'[q] = pc[q] /\ job'[q] = job[q]
  BY DEF HandlersInv
<1>2. \A q \in Procs \ {p} : Reading(q)'
  BY <1>1, OthersRead
<1>3. Reading(p)
  BY DEF ReadInv
<1>4. CASE step = "reading"
  <2>1. counts'[p] = None /\ rows'[p] = None
    BY <1>3, <1>4 DEF Reading
  <2> QED
    BY <1>1, <1>2, <1>4, <2>1 DEF ReadInv, Reading
<1>5. CASE step = "snapshotting"
  <2>1. ~stale[p] => AddsUp(Report(p))
    BY <1>3, <1>5 DEF Reading
  <2>2. AddsUp(Report(p)) => AddsUp(Report(p))'
    <3>1. ASSUME AddsUp(Report(p)) PROVE AddsUp(Report(p)')
      BY <3>1, SameFigures DEF Report
    <3> QED
      BY <3>1 DEF AddsUp, Report
  <2>3. Reading(p)'
    BY <1>1, <1>5, <2>1, <2>2 DEF Reading
  <2> QED
    BY <1>2, <2>3 DEF ReadInv
<1>6. CASE step \notin {"reading", "snapshotting"}
  <2>1. Reading(p)'
    BY <1>1, <1>6 DEF Reading
  <2> QED
    BY <1>2, <2>1 DEF ReadInv
<1> QED
  BY <1>4, <1>5, <1>6

LEMMA ReadStep ==
    ASSUME JobsInv, HandlersInv, ReadInv, [Next]_vars
    PROVE  ReadInv'
<1>1. SnapshotAddsUp /\ (UNCHANGED snapshot => SnapshotAddsUp')
  BY DEF ReadInv, SnapshotAddsUp, AddsUp
<1>2. ASSUME NEW p \in Procs, NEW j \in jobs, Start(p, j) PROVE ReadInv'
  <2>1. counts[p] = None /\ rows[p] = None
    BY <1>2 DEF Start, ReadInv, Reading
  <2>2. /\ pc' = [pc EXCEPT ![p] = "reading"] /\ job' = [job EXCEPT ![p] = j] /\ pc[p] = "idle"
        /\ UNCHANGED <<judged, counts, rows, stale, snapshot>> /\ "reading" \in Steps \ {"idle"}
    BY <1>2 DEF Start, runVars, readVars, Steps
  <2> QED
    BY <1>1, <2>1, <2>2, MovingKeepsReads
<1>3. ASSUME NEW p \in Procs, FindPrevious(p) PROVE ReadInv'
  <2>1. /\ pc' = [pc EXCEPT ![p] = "snapshotting"] /\ job' = job /\ pc[p] = "reading"
        /\ counts[p] # None /\ rows[p] # None /\ "snapshotting" \in Steps \ {"idle"}
        /\ UNCHANGED <<judged, counts, rows, stale, snapshot>>
    BY <1>3 DEF FindPrevious, runVars, Steps
  <2> QED
    BY <1>1, <2>1, MovingKeepsReads
<1>4. ASSUME NEW p \in Procs, KeepSnapshot(p) PROVE ReadInv'
  <2>1. /\ pc' = [pc EXCEPT ![p] = "checking"] /\ job' = job /\ pc[p] = "snapshotting"
        /\ "checking" \in Steps \ {"idle"} /\ UNCHANGED <<judged, counts, rows, stale>>
    BY <1>4 DEF KeepSnapshot, runVars, readVars, Steps
  <2>2. Report(p).torn \/ AddsUp(Report(p))
    <3>1. Report(p).torn = stale[p]
      BY DEF Report
    <3> QED
      BY <2>1, <3>1 DEF ReadInv, Reading
  <2>3. SnapshotAddsUp'
    <3>1. CASE snapshot' = snapshot
      BY <1>1, <3>1
    <3>2. CASE snapshot' = [r \in DOMAIN snapshot \cup {RunOf(p)} |->
                              IF r = RunOf(p) THEN Report(p) ELSE snapshot[r]]
      <4>1. ASSUME NEW r \in DOMAIN snapshot' PROVE snapshot'[r].torn \/ AddsUp(snapshot'[r])
        <5>1. snapshot'[r] = Report(p) \/ (r \in DOMAIN snapshot /\ snapshot'[r] = snapshot[r])
          BY <3>2
        <5>2. CASE snapshot'[r] = Report(p)
          BY <2>2, <5>2
        <5>3. CASE r \in DOMAIN snapshot /\ snapshot'[r] = snapshot[r]
          BY <1>1, <5>3 DEF SnapshotAddsUp
        <5> QED
          BY <5>1, <5>2, <5>3
      <4> QED
        BY <4>1 DEF SnapshotAddsUp, AddsUp
    <3> QED
      BY <1>4, <3>1, <3>2 DEF KeepSnapshot
  <2> QED
    BY <2>1, <2>3, MovingKeepsReads
<1>5. ASSUME NEW p \in Procs, CheckDelivery(p) PROVE ReadInv'
  <2>1. UNCHANGED <<judged, snapshot>> /\ pc[p] = "checking"
    BY <1>5 DEF CheckDelivery, runVars
  <2>2. CASE Finish(p)
    BY <2>1, <2>2, FinishKeepsReads
  <2>3. CASE pc' = [pc EXCEPT ![p] = "sending"] /\ UNCHANGED <<job, readVars>>
    <3>1. UNCHANGED <<counts, rows, stale>> /\ "sending" \in Steps \ {"idle"} /\ job' = job
      BY <2>3 DEF readVars, Steps
    <3> QED
      BY <1>1, <2>1, <2>3, <3>1, MovingKeepsReads
  <2> QED
    BY <1>5, <2>2, <2>3 DEF CheckDelivery
<1>6. ASSUME NEW p \in Procs, SendEmail(p) PROVE ReadInv'
  <2>1. /\ pc' = [pc EXCEPT ![p] = "recording"] /\ job' = job /\ pc[p] = "sending"
        /\ "recording" \in Steps \ {"idle"}
        /\ UNCHANGED <<judged, counts, rows, stale, snapshot>>
    BY <1>6 DEF SendEmail, runVars, readVars, Steps
  <2> QED
    BY <1>1, <2>1, MovingKeepsReads
<1>7. ASSUME NEW p \in Procs, StepFails(p) \/ RecordSent(p) \/ Crash(p) PROVE ReadInv'
  BY <1>7, FinishKeepsReads DEF StepFails, RecordSent, Crash, runVars
<1>8. ASSUME NEW p \in Procs, ReadCounts(p) \/ ReadRows(p) PROVE ReadInv'
  BY <1>8, ReadKeepsReads
<1>9. ASSUME NEW r \in Runs, NEW c \in Cells, NEW v \in Verdicts, CellJudged(r, c, v)
      PROVE  ReadInv'
  BY <1>9, JudgingKeepsReads
<1>10. ASSUME NEW p \in Procs, EnqueueDelivery(p) \/ Boot(p) PROVE ReadInv'
  <2>1. UNCHANGED <<judged, pc, job, counts, rows, stale, snapshot>>
    BY <1>10 DEF EnqueueDelivery, Boot, runVars, readVars
  <2> QED
    BY <2>1, QuietRead
<1>11. ASSUME NEW r \in Runs,
              PlanRun(r) \/ \E p \in Procs : Aggregate(p, r) \/ AggregateFails(p, r)
       PROVE  ReadInv'
  <2>1. UNCHANGED <<judged, pc, job, counts, rows, stale, snapshot>>
    BY <1>11 DEF PlanRun, Aggregate, AggregateFails, readVars
  <2> QED
    BY <2>1, QuietRead
<1>12. CASE UNCHANGED vars
  <2>1. UNCHANGED <<judged, pc, job, counts, rows, stale, snapshot>>
    BY <1>12 DEF vars, runVars, readVars
  <2> QED
    BY <2>1, QuietRead
<1> QED
  BY <1>2, <1>3, <1>4, <1>5, <1>6, <1>7, <1>8, <1>9, <1>10, <1>11, <1>12 DEF Next, Deliver

LEMMA NothingIsRead ==
    ASSUME Init
    PROVE  JobsInv /\ HandlersInv /\ ReadInv
<1>1. JobsInv /\ HandlersInv
  BY DeliveryAssumption DEF Init, JobsInv, HandlersInv, Steps
<1>2. judged \in [Runs -> Judgments]
  <2>1. <<>> \in [{} -> Verdicts]
    OBVIOUS
  <2>2. <<>> \in Judgments
    BY <2>1 DEF Judgments
  <2> QED
    BY <2>2 DEF Init
<1>3. /\ DOMAIN counts = Procs /\ counts = [p \in Procs |-> counts[p]]
      /\ DOMAIN rows = Procs /\ rows = [p \in Procs |-> rows[p]]
      /\ stale \in [Procs -> BOOLEAN]
  BY DEF Init
<1>4. \A p \in Procs : Reading(p)
  BY DEF Init, Reading
<1>5. SnapshotAddsUp
  BY DEF Init, SnapshotAddsUp
<1> QED
  BY <1>1, <1>2, <1>3, <1>4, <1>5 DEF ReadInv

\* The figures that assembleReport keeps in report_snapshot agree with each other and
\* with the rows they cite, for every set of questions, models, competitors and
\* verdicts, unless a response was judged between two of its reads (report/deliver.ts).
THEOREM SnapshotsAlwaysAddUp == Spec => []SnapshotAddsUp
<1>1. Init => JobsInv /\ HandlersInv /\ ReadInv
  BY NothingIsRead
<1>2. JobsInv /\ HandlersInv /\ ReadInv /\ [Next]_vars => (JobsInv /\ HandlersInv /\ ReadInv)'
  BY JobsStep, HandlersStep, ReadStep
<1>3. ReadInv => SnapshotAddsUp
  BY DEF ReadInv
<1> QED
  BY <1>1, <1>2, <1>3, PTL DEF Spec

-----------------------------------------------------------------------------
(* Types                                                                   *)

RunTypes ==
    /\ status \in [Runs -> Statuses]
    /\ plannedAt \in [Runs -> Nat] /\ finishedAt \in [Runs -> Nat] /\ clock \in Nat
    /\ aggJob \in [Runs -> {"none", "ready", "active", "done", "dead"}]
    /\ aggLeft \in [Runs -> 0..AggRetries]

DeliveryTypes ==
    /\ dead \subseteq Runs /\ overlooked \subseteq Runs /\ against \in [Procs -> Runs \cup {None}]
    /\ DOMAIN snapshot \subseteq Runs /\ sent \subseteq Runs
    /\ owner \in BOOLEAN /\ up \subseteq Procs /\ crashes \in 0..MaxCrashes

\* Of natural numbers below a bound one is the largest.
LEMMA LargestBelow ==
    ASSUME NEW V \in SUBSET Nat, V # {}, NEW bound \in Nat, \A v \in V : v < bound
    PROVE  \E v \in V : \A w \in V : w <= v
<1> DEFINE Less == {ss \in Nat \X Nat : ss[1] < ss[2]}
<1>0. IsWellFoundedOn(Less, Nat)
  BY NatLessThanWellFounded DEF OpToRel
<1> DEFINE T == {n \in Nat : \A w \in V : w <= n}
<1>1. T \subseteq Nat /\ bound \in T
  OBVIOUS
<1>2. PICK m \in T : \A n \in T : ~ (<<n, m>> \in Less)
  <2> HIDE DEF T, Less
  <2>1. T # {}
    BY <1>1
  <2> QED
    BY <1>1, <2>1, <1>0, WFMin
<1>3. \A n \in T : ~(n < m)
  BY <1>1, <1>2
<1>4. CASE m \in V
  BY <1>4
<1>5. CASE m \notin V
  <2>1. PICK v \in V : TRUE
    OBVIOUS
  <2>2. \A w \in V : w <= m - 1
    BY <1>5
  <2>3. m - 1 \in T
    BY <2>1, <2>2
  <2> QED
    BY <1>3, <2>3
<1> QED
  BY <1>4, <1>5

\* The run that a report is compared with is one of the runs, or none.
LEMMA PreviousIsARun ==
    ASSUME RunTypes, NEW before \in Nat
    PROVE  PreviousOperatingRun(before) \in Runs \cup {None}
<1> DEFINE earlier == Candidates(before)
<1>1. CASE earlier = {}
  BY <1>1 DEF PreviousOperatingRun
<1>2. CASE earlier # {}
  <2> DEFINE V == {plannedAt[s] : s \in earlier}
  <2>1. /\ V \in SUBSET Nat /\ V # {} /\ \A v \in V : v < before
        /\ earlier \subseteq Runs
    BY <1>2 DEF Candidates, RunTypes
  <2>2. PICK v \in V : \A w \in V : w <= v
    <3> HIDE DEF V
    <3> QED
      BY <2>1, LargestBelow
  <2>3. PICK s \in earlier : plannedAt[s] = v
    OBVIOUS
  <2>4. \A t \in earlier : plannedAt[t] <= plannedAt[s]
    BY <2>2, <2>3
  <2> HIDE DEF V
  <2>5. \E x \in Candidates(before) : \A t \in Candidates(before) : plannedAt[t] <= plannedAt[x]
    BY <2>3, <2>4
  <2> HIDE DEF earlier
  <2>6. (CHOOSE x \in Candidates(before) :
           \A t \in Candidates(before) : plannedAt[t] <= plannedAt[x]) \in Candidates(before)
    BY <2>5
  <2> QED
    BY <1>2, <2>1, <2>6 DEF PreviousOperatingRun, earlier
<1> QED
  BY <1>1, <1>2

\* The aggregate of a run fails.
LEMMA FailAggregateTypes ==
    ASSUME RunTypes, NEW r \in Runs, FailAggregate(r)
    PROVE  /\ aggJob' \in [Runs -> {"none", "ready", "active", "done", "dead"}]
           /\ aggLeft' \in [Runs -> 0..AggRetries]
<1>1. CASE aggLeft[r] > 0
  <2>1. aggLeft[r] - 1 \in 0..AggRetries
    BY <1>1, DeliveryAssumption DEF RunTypes
  <2> QED
    BY <1>1, <2>1 DEF FailAggregate, RunTypes
<1>2. CASE ~(aggLeft[r] > 0)
  BY <1>2 DEF FailAggregate, RunTypes
<1> QED
  BY <1>1, <1>2

LEMMA RunTypesStep ==
    ASSUME JobsInv, RunTypes, [Next]_vars
    PROVE  RunTypes'
<1>1. CASE UNCHANGED <<status, plannedAt, finishedAt, clock, aggJob, aggLeft>>
  BY <1>1 DEF RunTypes
<1>2. ASSUME NEW r \in Runs, PlanRun(r) PROVE RunTypes'
  <2>1. PICK s \in Statuses : status' = [status EXCEPT ![r] = s]
    BY <1>2 DEF PlanRun, Statuses
  <2>2. clock' \in Nat /\ finishedAt' \in [Runs -> Nat] /\ plannedAt' \in [Runs -> Nat]
    BY <1>2 DEF PlanRun, RunTypes
  <2>3. aggJob' \in [Runs -> {"none", "ready", "active", "done", "dead"}]
    BY <1>2 DEF PlanRun, RunTypes
  <2> QED
    BY <1>2, <2>1, <2>2, <2>3 DEF PlanRun, RunTypes
<1>3. ASSUME NEW p \in Procs, NEW r \in Runs, Aggregate(p, r) PROVE RunTypes'
  <2>1. PICK s \in Statuses : status' = [status EXCEPT ![r] = s]
    BY <1>3 DEF Aggregate, FinalStatuses, Statuses
  <2> QED
    BY <1>3, <2>1 DEF Aggregate, RunTypes
<1>4. ASSUME NEW p \in Procs, EnqueueDelivery(p) PROVE RunTypes'
  <2>1. PICK r \in Runs : aggregating[p] = r
    BY <1>4 DEF EnqueueDelivery, JobsInv
  <2>2. \/ aggJob' = [aggJob EXCEPT ![r] = "done"] /\ aggLeft' = aggLeft
        \/ FailAggregate(r)
    BY <1>4, <2>1 DEF EnqueueDelivery, ThrowAggregate
  <2>3. CASE FailAggregate(r)
    BY <1>4, <2>3, FailAggregateTypes DEF EnqueueDelivery, runVars, RunTypes
  <2>4. CASE aggJob' = [aggJob EXCEPT ![r] = "done"] /\ aggLeft' = aggLeft
    BY <1>4, <2>4 DEF EnqueueDelivery, runVars, RunTypes
  <2> QED
    BY <2>2, <2>3, <2>4
<1>5. ASSUME NEW p \in Procs, Crash(p) PROVE RunTypes'
  <2>1. UNCHANGED <<status, plannedAt, finishedAt, clock>>
    BY <1>5 DEF Crash, runVars
  <2>2. CASE UNCHANGED <<aggJob, aggLeft>>
    BY <1>1, <2>1, <2>2
  <2>3. CASE aggregating[p] # None /\ FailAggregate(aggregating[p])
    <3>1. aggregating[p] \in Runs
      BY <2>3 DEF JobsInv
    <3> QED
      BY <2>1, <2>3, <3>1, FailAggregateTypes DEF RunTypes
  <2> QED
    BY <1>5, <2>2, <2>3 DEF Crash
<1>9. ASSUME NEW p \in Procs, NEW r \in Runs, AggregateFails(p, r) PROVE RunTypes'
  <2>1. /\ aggJob' \in [Runs -> {"none", "ready", "active", "done", "dead"}]
        /\ aggLeft' \in [Runs -> 0..AggRetries]
    BY <1>9, FailAggregateTypes DEF AggregateFails, ThrowAggregate
  <2>2. /\ status' \in [Runs -> Statuses] /\ finishedAt' \in [Runs -> Nat] /\ clock' \in Nat
    BY <1>9 DEF AggregateFails, RunTypes, Statuses
  <2> QED
    BY <1>9, <2>1, <2>2 DEF AggregateFails, RunTypes
<1>6. ASSUME NEW p \in Procs, Boot(p) \/ Deliver(p)
      PROVE  UNCHANGED <<status, plannedAt, finishedAt, clock, aggJob, aggLeft>>
  BY <1>6 DEF Boot, Deliver, Start, ReadCounts, ReadRows, FindPrevious, KeepSnapshot,
              CheckDelivery, SendEmail, StepFails, RecordSent, runVars, jobVars
<1>7. ASSUME NEW r \in Runs, NEW c \in Cells, NEW v \in Verdicts, CellJudged(r, c, v)
      PROVE  UNCHANGED <<status, plannedAt, finishedAt, clock, aggJob, aggLeft>>
  BY <1>7 DEF CellJudged, jobVars
<1>8. UNCHANGED vars => UNCHANGED <<status, plannedAt, finishedAt, clock, aggJob, aggLeft>>
  BY DEF vars, runVars, jobVars
<1> QED
  BY <1>1, <1>2, <1>3, <1>4, <1>5, <1>6, <1>7, <1>8, <1>9 DEF Next

LEMMA DeliveryTypesStep ==
    ASSUME JobsInv, HandlersInv, RunTypes, DeliveryTypes, [Next]_vars
    PROVE  DeliveryTypes'
<1> DEFINE others == <<dead, overlooked, against, snapshot, sent, owner, up, crashes>>
<1>1. CASE UNCHANGED others
  BY <1>1 DEF DeliveryTypes
<1>2. ASSUME NEW j \in Job, Fail(j) PROVE dead' \subseteq Runs
  BY <1>2 DEF Fail, Job, DeliveryTypes
<1>3. ASSUME NEW p \in Procs, FindPrevious(p) PROVE DeliveryTypes'
  <2>1. RunOf(p) \in Runs
    BY <1>3, Working DEF FindPrevious
  <2>2. ReferenceDate(RunOf(p)) \in Nat
    BY <2>1 DEF ReferenceDate, RunTypes
  <2>3. PICK s \in Runs \cup {None} : against' = [against EXCEPT ![p] = s]
    BY <1>3, <2>2, PreviousIsARun DEF FindPrevious
  <2> QED
    BY <1>3, <2>3 DEF FindPrevious, jobVars, DeliveryTypes
<1>4. ASSUME NEW p \in Procs, KeepSnapshot(p) PROVE DeliveryTypes'
  <2>1. RunOf(p) \in Runs
    BY <1>4, Working DEF KeepSnapshot
  <2>2. DOMAIN snapshot' \subseteq Runs
    BY <1>4, <2>1 DEF KeepSnapshot, DeliveryTypes
  <2> QED
    BY <1>4, <2>2 DEF KeepSnapshot, jobVars, readVars, DeliveryTypes
<1>5. ASSUME NEW p \in Procs, CheckDelivery(p) PROVE DeliveryTypes'
  BY <1>5 DEF CheckDelivery, Finish, jobVars, readVars, DeliveryTypes
<1>6. ASSUME NEW p \in Procs, StepFails(p) PROVE DeliveryTypes'
  <2>1. dead' \subseteq Runs
    BY <1>2, <1>6, Working DEF StepFails
  <2> QED
    BY <1>6, <2>1 DEF StepFails, Finish, DeliveryTypes
<1>7. ASSUME NEW p \in Procs, RecordSent(p) PROVE DeliveryTypes'
  <2>1. RunOf(p) \in Runs
    BY <1>7, Working DEF RecordSent
  <2> QED
    BY <1>7, <2>1 DEF RecordSent, Finish, jobVars, DeliveryTypes
<1>8. ASSUME NEW p \in Procs, Crash(p) PROVE DeliveryTypes'
  <2>1. dead' \subseteq Runs
    BY <1>2, <1>8 DEF Crash, HandlersInv, DeliveryTypes
  <2>2. crashes' \in 0..MaxCrashes
    BY <1>8, DeliveryAssumption DEF Crash, DeliveryTypes
  <2>3. up' \subseteq Procs /\ against' \in [Procs -> Runs \cup {None}]
    BY <1>8 DEF Crash, Finish, DeliveryTypes
  <2> QED
    BY <1>8, <2>1, <2>2, <2>3 DEF Crash, DeliveryTypes
<1>9. ASSUME NEW p \in Procs, Boot(p) PROVE DeliveryTypes'
  <2>1. overlooked' \subseteq Runs
    BY <1>9 DEF Boot, Missed, DeliveryTypes
  <2> QED
    BY <1>9, <2>1 DEF Boot, readVars, DeliveryTypes
<1>10. ASSUME NEW p \in Procs,
              \/ \E j \in jobs : Start(p, j)
              \/ ReadCounts(p) \/ ReadRows(p) \/ SendEmail(p)
       PROVE  UNCHANGED others
  BY <1>10 DEF Start, ReadCounts, ReadRows, SendEmail, jobVars, readVars
<1>11. ASSUME NEW r \in Runs,
              \/ PlanRun(r)
              \/ \E c \in Cells, v \in Verdicts : CellJudged(r, c, v)
              \/ \E p \in Procs : Aggregate(p, r)
       PROVE  UNCHANGED others
  BY <1>11 DEF PlanRun, CellJudged, Aggregate, jobVars, readVars
<1>12. UNCHANGED vars => UNCHANGED others
  BY DEF vars, jobVars, readVars
<1>13. ASSUME NEW p \in Procs, EnqueueDelivery(p) PROVE DeliveryTypes'
  <2>1. aggregating[p] \in Runs
    BY <1>13 DEF EnqueueDelivery, JobsInv
  <2>2. overlooked' \subseteq Runs
    BY <1>13, <2>1 DEF EnqueueDelivery, ThrowAggregate, DeliveryTypes
  <2> QED
    BY <1>13, <2>2 DEF EnqueueDelivery, readVars, DeliveryTypes
<1>14. ASSUME NEW p \in Procs, NEW r \in Runs, AggregateFails(p, r) PROVE DeliveryTypes'
  <2>1. overlooked' \subseteq Runs
    BY <1>14 DEF AggregateFails, ThrowAggregate, DeliveryTypes
  <2> QED
    BY <1>14, <2>1 DEF AggregateFails, readVars, DeliveryTypes
<1> HIDE DEF others
<1> QED
  BY <1>1, <1>3, <1>4, <1>5, <1>6, <1>7, <1>8, <1>9, <1>10, <1>11, <1>12,
     <1>13, <1>14 DEF Next, Deliver

LEMMA TypesInit ==
    ASSUME Init
    PROVE  RunTypes /\ DeliveryTypes
<1>1. RunTypes
  BY DeliveryAssumption DEF Init, RunTypes, Statuses
<1>2. DeliveryTypes
  BY DeliveryAssumption DEF Init, DeliveryTypes
<1> QED
  BY <1>1, <1>2

\* Every variable has its type, in particular the run that a report is compared with:
\* the latest of the candidates exists, however many runs there are (report/deliver.ts).
THEOREM TypeCorrect == Spec => []TypeOK
<1> DEFINE Inv == JobsInv /\ HandlersInv /\ MailInv /\ ReadInv /\ RunTypes /\ DeliveryTypes
<1>1. Init => Inv
  BY MailInit, NothingIsRead, TypesInit
<1>2. Inv /\ [Next]_vars => Inv'
  BY JobsStep, HandlersStep, MailStep, ReadStep, RunTypesStep, DeliveryTypesStep
<1>3. Inv => TypeOK
  <2> SUFFICES ASSUME Inv PROVE TypeOK
    OBVIOUS
  <2>1. \A r \in Runs : DOMAIN judged[r] \subseteq Cells
    BY JudgmentsShape DEF ReadInv
  <2> QED
    BY <2>1 DEF JobsInv, HandlersInv, MailInv, CountsInv, RunTypes, DeliveryTypes, TypeOK
<1> QED
  BY <1>1, <1>2, <1>3, PTL DEF Spec
=============================================================================
