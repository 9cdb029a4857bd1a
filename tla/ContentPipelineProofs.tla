------------------------ MODULE ContentPipelineProofs ------------------------
(***************************************************************************)
(* Proofs about ContentPipeline, for any drafts, registry, prices, editors *)
(* and faults: types, that what has passed is backed by signed sources and *)
(* has no twin, what a run may spend, and, while nothing failed or         *)
(* overlapped, that no asset waits without a reason.                       *)
(***************************************************************************)
EXTENDS ContentPipeline, TLAPS

-----------------------------------------------------------------------------
(* Types *)

\* The claims that can be made of the drafts, and what they look like once verified.
SpansOf == UNION {Prompted(Draft[i]) : i \in Ids}
ClaimsIn(states) ==
    [span : {s.id : s \in SpansOf}, kind : {s.kind : s \in SpansOf} \cup {"capability"},
     text : {s.text : s \in SpansOf}, payload : {s.payload : s \in SpansOf} \cup {NoPayload},
     source : SourceIds \cup {NoSource}, state : states]
AnyClaim == ClaimsIn({"unverified", "verified", "rejected", "needs_human"})
Settled == ClaimsIn({"verified", "rejected", "needs_human"})

Phases == {"idle", "generating", "inserting", "gating", "done", "crashed"}
RowSets == UNION {[S -> SUBSET Settled] : S \in SUBSET Ids}
EditorType == [kind : {"none", "finished", "gateContent", "review", "web"}, at : 0..4,
               rows : RowSets, sources : SUBSET SourceIds]

AssetShape ==
    /\ asset \in [Ids -> [status : Statuses, claims : SUBSET Settled, blind : BOOLEAN]]
    /\ \A i \in Ids : asset[i].status = "absent" => asset[i].claims = {}

GenShape ==
    /\ gen = [pc |-> gen.pc, left |-> gen.left, made |-> gen.made, todo |-> gen.todo,
              sources |-> gen.sources, spent |-> gen.spent]
    /\ gen.pc \in Phases /\ gen.made \in SUBSET Ids /\ gen.todo \in SUBSET gen.made
    /\ gen.sources \in SUBSET signed /\ gen.spent \in Nat

EditorShape ==
    /\ editor \in [Editors -> EditorType]
    /\ \A e \in Editors : editor[e].sources \subseteq signed
    /\ \A e \in Editors : AtWork(e) =>
         editor[e].at \in 1..(IF editor[e].kind = "gateContent" THEN 3 ELSE 4)

ShapeInv ==
    /\ AssetShape /\ GenShape /\ EditorShape
    /\ signed \in SUBSET SourceIds /\ queued \in SUBSET Ids /\ disturbed \in BOOLEAN

LEMMA NoRows == <<>> \in RowSets /\ DOMAIN <<>> = {}
<1>1. <<>> \in [{} -> SUBSET Settled]
  OBVIOUS
<1> QED
  BY <1>1 DEF RowSets

LEMMA RowSetOf ==
    ASSUME NEW r \in RowSets
    PROVE  DOMAIN r \in SUBSET Ids /\ \A i \in DOMAIN r : r[i] \in SUBSET Settled
BY DEF RowSets

LEMMA KindsOf ==
    ASSUME ShapeInv, NEW e \in Editors, AtWork(e)
    PROVE  editor[e].kind \in {"gateContent", "review", "web"}
BY PipelineAssumption DEF AtWork

\* Which step of its program an editor is at.
LEMMA DoingAt ==
    ASSUME ShapeInv, NEW e \in Editors, NEW step, Doing(e, step)
    PROVE  /\ AtWork(e)
           /\ step = "rows" => \/ editor[e].kind \in {"gateContent", "review"} /\ editor[e].at = 1
                               \/ editor[e].kind = "web" /\ editor[e].at = 3
           /\ step = "sources" => \/ editor[e].kind \in {"gateContent", "web"} /\ editor[e].at = 2
                                  \/ editor[e].kind = "review" /\ editor[e].at = 3
           /\ step = "sign" => \/ editor[e].kind = "review" /\ editor[e].at = 2
                               \/ editor[e].kind = "web" /\ editor[e].at = 1
           /\ step = "regate" => \/ editor[e].kind = "gateContent" /\ editor[e].at = 3
                                 \/ editor[e].kind \in {"review", "web"} /\ editor[e].at = 4
<1>1. AtWork(e) /\ Program(editor[e].kind)[editor[e].at] = step
  BY DEF Doing, Steps
<1>2. editor[e].kind \in {"gateContent", "review", "web"}
  BY <1>1, KindsOf
<1>3. editor[e].at \in 1..(IF editor[e].kind = "gateContent" THEN 3 ELSE 4)
  BY <1>1 DEF ShapeInv, EditorShape
<1>4. CASE editor[e].kind = "gateContent"
  BY <1>1, <1>3, <1>4 DEF Program
<1>5. CASE editor[e].kind = "review"
  BY <1>1, <1>3, <1>5 DEF Program
<1>6. CASE editor[e].kind = "web"
  BY <1>1, <1>3, <1>6 DEF Program
<1> QED
  BY <1>2, <1>4, <1>5, <1>6

-----------------------------------------------------------------------------
(* Claims and gates *)

\* What settling a claim leaves alone is all that settling it again looks at.
LEMMA ResolveOnce ==
    ASSUME NEW c \in AnyClaim, NEW reg
    PROVE  /\ Resolve(c, Sources, reg) \in Settled
           /\ Resolve(Resolve(c, Sources, reg), Sources, reg) = Resolve(c, Sources, reg)
<1>1. ASSUME NEW b \in AnyClaim, NEW x \in SourceIds \cup {NoSource},
             NEW y \in {"verified", "rejected", "needs_human"}
      PROVE  /\ Settle(b, x, y) \in Settled /\ Settle(b, x, y) \in AnyClaim
             /\ Settle(b, x, y).kind = b.kind /\ Settle(b, x, y).text = b.text
             /\ Settle(b, x, y).payload = b.payload
  BY DEF Settle, Settled, AnyClaim, ClaimsIn
<1>2. ASSUME NEW b \in AnyClaim, NEW x \in SourceIds \cup {NoSource},
             NEW y \in {"verified", "rejected", "needs_human"},
             NEW u, NEW v
      PROVE  Settle(Settle(b, x, y), u, v) = Settle(b, u, v)
  BY DEF Settle, AnyClaim, ClaimsIn
<1>3. ASSUME NEW b, NEW s
      PROVE  StateWith(b, s, reg) \in {"verified", "rejected", "needs_human"}
  <2>1. ASSUME NEW r
        PROVE  ByBound(r) \in {"verified", "rejected", "needs_human"}
    BY DEF ByBound
  <2> QED
    BY <2>1 DEF StateWith
<1>4. FindMatchingSource(c, Sources, reg) \subseteq Sources
  BY DEF FindMatchingSource, OrElse, BestAmong, Lowest, BestOf, Fitting
<1>5. PICK f : f = FindMatchingSource(c, Sources, reg) /\ f \subseteq Sources
  BY <1>4
<1>6. ASSUME NEW b \in AnyClaim, b.kind = c.kind, b.text = c.text, b.payload = c.payload
      PROVE  FindMatchingSource(b, Sources, reg) = f
  <2>1. ASSUME NEW s
        PROVE  UnitsAgree(b, s) = UnitsAgree(c, s) /\ Score(b, s) = Score(c, s)
    BY <1>6 DEF UnitsAgree, Score
  <2>2. ASSUME NEW S
        PROVE  BestAmong(b, S) = BestAmong(c, S)
    <3>1. Fitting(b, S) = Fitting(c, S)
      BY <2>1 DEF Fitting
    <3>2. BestOf(b, Fitting(c, S)) = BestOf(c, Fitting(c, S))
      BY <2>1 DEF BestOf
    <3> QED
      BY <3>1, <3>2 DEF BestAmong
  <2> QED
    BY <1>5, <2>2 DEF FindMatchingSource
<1>7. CASE f = {}
  <2>1. Resolve(c, Sources, reg) = Settle(c, NoSource, "needs_human")
    BY <1>5, <1>7 DEF Resolve, ResolveAmong
  <2>2. PICK b : b = Settle(c, NoSource, "needs_human")
    OBVIOUS
  <2>3. b \in Settled /\ b \in AnyClaim /\ b.kind = c.kind /\ b.text = c.text /\ b.payload = c.payload
    BY <1>1, <2>2
  <2>4. Resolve(b, Sources, reg) = Settle(b, NoSource, "needs_human")
    BY <1>6, <1>7, <2>3 DEF Resolve, ResolveAmong
  <2>5. Settle(b, NoSource, "needs_human") = b
    BY <1>2, <2>2
  <2> QED
    BY <2>1, <2>2, <2>3, <2>4, <2>5
<1>8. CASE f # {}
  <2>1. PICK s : s = CHOOSE t \in f : TRUE
    OBVIOUS
  <2>2. s \in Sources /\ s.id \in SourceIds
    BY <1>5, <1>8, <2>1 DEF SourceIds
  <2>3. Resolve(c, Sources, reg) = Settle(c, s.id, StateWith(c, s, reg))
    BY <1>5, <1>8, <2>1 DEF Resolve, ResolveAmong, ResolveTo
  <2>4. PICK y \in {"verified", "rejected", "needs_human"} : y = StateWith(c, s, reg)
    BY <1>3
  <2>5. PICK b : b = Settle(c, s.id, y)
    OBVIOUS
  <2>6. b \in Settled /\ b \in AnyClaim /\ b.kind = c.kind /\ b.text = c.text /\ b.payload = c.payload
    BY <1>1, <2>2, <2>5
  <2>7. Resolve(b, Sources, reg) = Settle(b, s.id, StateWith(b, s, reg))
    BY <1>6, <1>8, <2>1, <2>6 DEF Resolve, ResolveAmong, ResolveTo
  <2>8. StateWith(b, s, reg) = y
    BY <2>4, <2>6 DEF StateWith
  <2>9. Settle(b, s.id, y) = b
    BY <1>2, <2>2, <2>5
  <2> QED
    BY <2>3, <2>4, <2>5, <2>6, <2>7, <2>8, <2>9
<1> QED
  BY <1>7, <1>8

LEMMA ResolvedOnce ==
    ASSUME NEW X \in SUBSET AnyClaim, NEW reg
    PROVE  {Resolve(c, Sources, reg) : c \in {Resolve(b, Sources, reg) : b \in X}}
             = {Resolve(b, Sources, reg) : b \in X}
BY ResolveOnce

LEMMA SettledIsClaim == Settled \subseteq AnyClaim
BY DEF Settled, AnyClaim, ClaimsIn

LEMMA ExtractionsAreClaims ==
    ASSUME NEW i \in Ids, NEW claims \in Extractions(Prompted(Draft[i]))
    PROVE  claims \in SUBSET AnyClaim
<1>1. ASSUME NEW s \in Prompted(Draft[i]), NEW c \in Readings(s)
      PROVE  c \in AnyClaim
  <2>1. s \in SpansOf
    BY DEF SpansOf
  <2> QED
    BY <2>1 DEF Readings, Claim, AnyClaim, ClaimsIn
<1> QED
  BY <1>1 DEF Extractions

\* Every number and every superlative the gates read in a draft is one a signed source
\* covers.
Sourced(i) ==
    \A span \in Draft[i].spans :
        /\ span.kind = "numeric" =>
             \E s \in Sources : s.id \in signed /\ s.payload.value = HitValue(span)
        /\ \A term \in SuperlativesIn(span.text) :
             \E s \in Sources : s.id \in signed /\ ContainsText(term, s.text.words)

\* Without claims, only signed sources keep the cheap gates from blocking.
LEMMA UnblockedIsSourced ==
    ASSUME NEW i \in Ids, NEW siblings, NEW a, NEW reg \in SUBSET signed,
           "block" \notin CheapVerdicts(Draft[i], {}, siblings, a, Sources, reg)
    PROVE  Sourced(i)
<1>1. VerifiableNumbers(Draft[i], {}, Sources, reg) # "block"
  BY DEF CheapVerdicts
<1>2. Bound({}) = {}
  BY DEF Bound
<1>3. /\ \A s \in Draft[i].spans : \A term \in SuperlativesIn(s.text) :
           SuperlativeCovered(term, {}, Sources, reg)
      /\ \A s \in Draft[i].spans : s.kind = "numeric" => NumberCovered(s, {}, Sources, reg)
  BY <1>1 DEF VerifiableNumbers, Verdict
<1>4. ASSUME NEW s \in Draft[i].spans, s.kind = "numeric"
      PROVE  \E t \in Sources : t.id \in signed /\ t.payload.value = HitValue(s)
  BY <1>2, <1>3, <1>4 DEF NumberCovered, SourceCovers
<1>5. ASSUME NEW s \in Draft[i].spans, NEW term \in SuperlativesIn(s.text)
      PROVE  \E t \in Sources : t.id \in signed /\ ContainsText(term, t.text.words)
  BY <1>2, <1>3 DEF SuperlativeCovered
<1> QED
  BY <1>4, <1>5 DEF Sourced

\* The fold, by what the cheap gates say.
LEMMA GatesFold ==
    ASSUME NEW d, NEW C, NEW sib, NEW a, NEW reg, NEW F
    PROVE  LET cheap == CheapVerdicts(d, C, sib, a, Sources, reg)
               settled == {Resolve(c, Sources, reg) : c \in OrElse(C, F)}
               J == RunContentGates(d, C, sib, a, Sources, reg, F)
           IN /\ "block" \in cheap => J.status = "blocked" /\ J.claims = C
              /\ "block" \notin cheap =>
                   /\ J.claims = settled
                   /\ J.status = TerminalStatus(cheap \cup {Action(d.spans, settled)})
BY DEF RunContentGates, Fold, VerifyAndDecide, Decide

LEMMA GatesType ==
    ASSUME NEW d, NEW C \in SUBSET Settled, NEW sib, NEW a, NEW reg, NEW F \in SUBSET AnyClaim,
           NEW J, J = RunContentGates(d, C, sib, a, Sources, reg, F)
    PROVE  J.status \in {"passed", "blocked", "needs_human"} /\ J.claims \in SUBSET Settled
<1> DEFINE cheap == CheapVerdicts(d, C, sib, a, Sources, reg)
           settled == {Resolve(c, Sources, reg) : c \in OrElse(C, F)}
<1>1. OrElse(C, F) \in SUBSET AnyClaim
  BY SettledIsClaim DEF OrElse
<1>2. settled \in SUBSET Settled
  BY <1>1, ResolveOnce
<1>3. ASSUME NEW V
      PROVE  TerminalStatus(V) \in {"passed", "blocked", "needs_human"}
  BY DEF TerminalStatus
<1>4. /\ "block" \in cheap => J.status = "blocked" /\ J.claims = C
      /\ "block" \notin cheap =>
           /\ J.claims = settled
           /\ J.status = TerminalStatus(cheap \cup {Action(d.spans, settled)})
  BY DEF RunContentGates, Fold, VerifyAndDecide, Decide
<1> QED
  BY <1>2, <1>3, <1>4

\* What passes has no twin among the siblings it was judged with.
LEMMA GatesTwins ==
    ASSUME NEW d, NEW C, NEW sib, NEW a, NEW reg, NEW F,
           RunContentGates(d, C, sib, a, Sources, reg, F).status = "passed"
    PROVE  Twins(d, sib) = {}
<1>1. "block" \notin CheapVerdicts(d, C, sib, a, Sources, reg)
  BY GatesFold
<1>2. PhrasingVariation(d, sib) # "block"
  BY <1>1 DEF CheapVerdicts
<1> QED
  BY <1>2 DEF PhrasingVariation, Verdict

\* Why an asset waits for a human, whatever its siblings.
Waits(i, claims, reg) ==
    \/ SelfContainedness(Draft[i], TRUE) = "needs_human"
    \/ Action(Draft[i].spans, {Resolve(c, Sources, reg) : c \in claims}) = "needs_human"

LEMMA GatesWait ==
    ASSUME NEW i \in Ids, NEW C \in SUBSET Settled, NEW sib, NEW a \in BOOLEAN, NEW reg,
           NEW F \in SUBSET AnyClaim,
           NEW J, J = RunContentGates(Draft[i], C, sib, a, Sources, reg, F),
           J.status = "needs_human"
    PROVE  Waits(i, J.claims, reg) /\ (C # {} => Waits(i, C, reg))
<1> DEFINE cheap == CheapVerdicts(Draft[i], C, sib, a, Sources, reg)
           settled == {Resolve(c, Sources, reg) : c \in OrElse(C, F)}
<1>1. /\ J.claims = settled
      /\ TerminalStatus(cheap \cup {Action(Draft[i].spans, settled)}) = "needs_human"
  BY GatesFold
<1>2. "needs_human" \in cheap \/ Action(Draft[i].spans, settled) = "needs_human"
  BY <1>1 DEF TerminalStatus
<1>3. "needs_human" \in cheap => SelfContainedness(Draft[i], TRUE) = "needs_human"
  BY DEF CheapVerdicts, PhrasingVariation, VerifiableNumbers, NoFakeSignals, AdversarialBlocklist,
         NoFabricatedPersona, KeywordStuffing, Disclosure, JsonLdShape, Verdict, SelfContainedness
<1>4. OrElse(C, F) \in SUBSET AnyClaim /\ (C # {} => OrElse(C, F) = C)
  BY SettledIsClaim DEF OrElse
<1>5. {Resolve(c, Sources, reg) : c \in settled} = settled
  BY <1>4, ResolvedOnce
<1> QED
  BY <1>1, <1>2, <1>3, <1>4, <1>5 DEF Waits

LEMMA WaitsIsNotPassed ==
    ASSUME NEW i \in Ids, NEW C, C # {}, NEW sib, NEW reg, Waits(i, C, reg)
    PROVE  RunContentGates(Draft[i], C, sib, TRUE, Sources, reg, {}).status # "passed"
<1> DEFINE cheap == CheapVerdicts(Draft[i], C, sib, TRUE, Sources, reg)
           settled == {Resolve(c, Sources, reg) : c \in OrElse(C, {})}
<1>1. OrElse(C, {}) = C
  BY DEF OrElse
<1>2. SelfContainedness(Draft[i], TRUE) \in cheap
  BY DEF CheapVerdicts
<1>3. "needs_human" \in cheap \cup {Action(Draft[i].spans, settled)}
  BY <1>1, <1>2 DEF Waits
<1>4. TerminalStatus(cheap \cup {Action(Draft[i].spans, settled)}) # "passed"
  BY <1>3 DEF TerminalStatus
<1> QED
  BY <1>4, GatesFold

-----------------------------------------------------------------------------
(* Judging a row *)

\* The row of i after a judgement with these claims; gate-content keeps the claims it has.
Lands(i, C, a, reg, blind, F, keep) ==
    LET J == RunContentGates(Draft[i], C, Siblings(blind), a, Sources, reg, F)
    IN asset' = [asset EXCEPT ![i] =
                   [status |-> J.status, claims |-> IF keep THEN asset[i].claims ELSE J.claims,
                    blind |-> blind /\ J.status = "passed"]]

\* A judgement that is written, or not.
Judges(i, C, a, reg, keep) ==
    \/ /\ disturbed' = disturbed
       /\ \E blind \in BOOLEAN, F \in SUBSET AnyClaim : Lands(i, C, a, reg, blind, F, keep)
    \/ disturbed' = TRUE /\ asset' = asset

LEMMA JudgesShape ==
    ASSUME AssetShape, NEW i \in Ids, NEW C \in SUBSET Settled, NEW a, NEW reg, NEW keep \in BOOLEAN,
           Judges(i, C, a, reg, keep)
    PROVE  AssetShape'
<1>1. CASE asset' = asset
  BY <1>1 DEF AssetShape
<1>2. ASSUME NEW blind \in BOOLEAN, NEW F \in SUBSET AnyClaim, Lands(i, C, a, reg, blind, F, keep)
      PROVE  AssetShape'
  <2>1. PICK J : J = RunContentGates(Draft[i], C, Siblings(blind), a, Sources, reg, F)
    OBVIOUS
  <2>2. J.status \in {"passed", "blocked", "needs_human"} /\ J.claims \in SUBSET Settled
    BY <2>1, GatesType
  <2>3. PICK n : /\ n = [status |-> J.status, claims |-> IF keep THEN asset[i].claims ELSE J.claims,
                         blind |-> blind /\ J.status = "passed"]
                 /\ asset' = [asset EXCEPT ![i] = n]
    BY <1>2, <2>1 DEF Lands
  <2>4. n \in [status : Statuses, claims : SUBSET Settled, blind : BOOLEAN] /\ n.status # "absent"
    BY <2>2, <2>3 DEF AssetShape, Statuses
  <2> QED
    BY <2>3, <2>4 DEF AssetShape
<1> QED
  BY <1>1, <1>2 DEF Judges

\* The row of i is that of judgement J.
LandedAs(i, J, blind, keep) ==
    /\ asset'[i].status = J.status
    /\ asset'[i].claims = IF keep THEN asset[i].claims ELSE J.claims
    /\ asset'[i].blind = (blind /\ J.status = "passed")
    /\ disturbed' = disturbed

\* What a judgement leaves of the rows, by what it found.
LEMMA JudgesRow ==
    ASSUME AssetShape, NEW i \in Ids, NEW C, NEW a, NEW reg, NEW keep \in BOOLEAN,
           Judges(i, C, a, reg, keep)
    PROVE  /\ \A j \in Ids : j # i => asset'[j] = asset[j]
           /\ \/ asset'[i] = asset[i] /\ disturbed' = TRUE
              \/ \E blind \in BOOLEAN, F \in SUBSET AnyClaim :
                   LandedAs(i, RunContentGates(Draft[i], C, Siblings(blind), a, Sources, reg, F),
                            blind, keep)
<1>1. CASE asset' = asset /\ disturbed' = TRUE
  BY <1>1 DEF AssetShape
<1>2. ASSUME NEW blind \in BOOLEAN, NEW F \in SUBSET AnyClaim, Lands(i, C, a, reg, blind, F, keep),
             disturbed' = disturbed
      PROVE  /\ \A j \in Ids : j # i => asset'[j] = asset[j]
             /\ LandedAs(i, RunContentGates(Draft[i], C, Siblings(blind), a, Sources, reg, F),
                         blind, keep)
  <2>1. PICK J : J = RunContentGates(Draft[i], C, Siblings(blind), a, Sources, reg, F)
    OBVIOUS
  <2>2. PICK n : /\ n = [status |-> J.status, claims |-> IF keep THEN asset[i].claims ELSE J.claims,
                         blind |-> blind /\ J.status = "passed"]
                 /\ asset' = [asset EXCEPT ![i] = n]
    BY <1>2, <2>1 DEF Lands
  <2>3. asset'[i] = n /\ \A j \in Ids : j # i => asset'[j] = asset[j]
    BY <2>2 DEF AssetShape
  <2>4. LandedAs(i, J, blind, keep)
    BY <1>2, <2>2, <2>3 DEF LandedAs
  <2> QED
    BY <2>1, <2>3, <2>4
<1> QED
  BY <1>1, <1>2 DEF Judges

\* Near-duplicates that must not both pass.
AreTwins(i, j) ==
    /\ i # j /\ Draft[i].language = Draft[j].language /\ Draft[i].text = Draft[j].text
    /\ ~(Draft[i].channel = "pr_wire" /\ Draft[j].channel = "pr_wire"
          /\ Draft[i].phrasing = Draft[j].phrasing)

TwinsInv ==
    \A i, j \in Ids : AreTwins(i, j) /\ asset[i].status = "passed" /\ asset[j].status = "passed"
                        => asset[i].blind \/ asset[j].blind

LEMMA TwinsInvIsNoTwinsPass == TwinsInv <=> NoTwinsPass
BY DEF TwinsInv, AreTwins, NoTwinsPass

LEMMA JudgesTwins ==
    ASSUME AssetShape, TwinsInv, NEW i \in Ids, NEW C, NEW a, NEW reg, NEW keep \in BOOLEAN,
           Judges(i, C, a, reg, keep)
    PROVE  TwinsInv'
<1>0. \/ asset'[i] = asset[i] /\ disturbed' = TRUE
      \/ \E blind \in BOOLEAN, F \in SUBSET AnyClaim :
           LandedAs(i, RunContentGates(Draft[i], C, Siblings(blind), a, Sources, reg, F), blind, keep)
  BY JudgesRow
<1>1. \A j \in Ids : j # i => asset'[j] = asset[j]
  BY JudgesRow
<1>2. ASSUME NEW j \in Ids, AreTwins(i, j), asset'[i].status = "passed", asset'[j].status = "passed"
      PROVE  asset'[i].blind \/ asset'[j].blind
  <2>1. j # i /\ asset'[j] = asset[j]
    BY <1>1, <1>2 DEF AreTwins
  <2>2. CASE asset'[i] = asset[i]
    BY <1>2, <2>1, <2>2 DEF TwinsInv
  <2>3. ASSUME NEW blind \in BOOLEAN, NEW F, NEW J,
               J = RunContentGates(Draft[i], C, Siblings(blind), a, Sources, reg, F),
               LandedAs(i, J, blind, keep)
        PROVE  asset'[i].blind
    <3>1. Twins(Draft[i], Siblings(blind)) = {}
      BY <1>2, <2>3, GatesTwins DEF LandedAs
    <3>2. j \in Inserted
      BY <1>2, <2>1 DEF Inserted
    <3>3. CASE ~blind
      <4>1. Draft[j] \in Siblings(blind)
        BY <3>2, <3>3 DEF Siblings
      <4>2. Draft[j].id = j /\ Draft[i].id = i
        BY PipelineAssumption
      <4>3. Draft[j] \in Twins(Draft[i], Siblings(blind))
        BY <1>2, <2>1, <4>1, <4>2 DEF Twins, SyndicationCopy, AreTwins
      <4> QED
        BY <3>1, <4>3
    <3> QED
      BY <1>2, <2>3, <3>3 DEF LandedAs
  <2>4. CASE asset'[i] # asset[i]
    <3>1. PICK blind \in BOOLEAN, F \in SUBSET AnyClaim :
            LandedAs(i, RunContentGates(Draft[i], C, Siblings(blind), a, Sources, reg, F), blind, keep)
      BY <1>0, <2>4
    <3> QED
      BY <2>3, <3>1
  <2> QED
    BY <2>2, <2>4
<1>3. ASSUME NEW j \in Ids, NEW k \in Ids, AreTwins(j, k), asset'[j].status = "passed",
             asset'[k].status = "passed"
      PROVE  asset'[j].blind \/ asset'[k].blind
  <2>1. AreTwins(k, j) /\ j # k
    BY <1>3 DEF AreTwins
  <2>2. CASE j = i
    BY <1>2, <1>3, <2>2
  <2>3. CASE k = i
    BY <1>2, <1>3, <2>1, <2>3
  <2>4. CASE j # i /\ k # i
    BY <1>1, <1>3, <2>4 DEF TwinsInv
  <2> QED
    BY <2>2, <2>3, <2>4
<1> QED
  BY <1>3 DEF TwinsInv, AreTwins

LEMMA JudgesSource ==
    ASSUME AssetShape, NEW i \in Ids, NEW C, C # {} => Sourced(i), NEW a, NEW reg \in SUBSET signed,
           NEW keep \in BOOLEAN, Judges(i, C, a, reg, keep),
           \A j \in Ids : asset[j].status = "passed" \/ asset[j].claims # {} => Sourced(j)
    PROVE  \A j \in Ids : asset'[j].status = "passed" \/ asset'[j].claims # {} => Sourced(j)
<1>1. \A j \in Ids : j # i => asset'[j] = asset[j]
  BY JudgesRow
<1>2. ASSUME asset'[i].status = "passed" \/ asset'[i].claims # {}
      PROVE  Sourced(i)
  <2>1. CASE asset'[i] = asset[i]
    BY <1>2, <2>1
  <2>2. CASE asset'[i] # asset[i]
    <3>1. PICK blind \in BOOLEAN, F \in SUBSET AnyClaim :
            LandedAs(i, RunContentGates(Draft[i], C, Siblings(blind), a, Sources, reg, F), blind, keep)
      BY <2>2, JudgesRow
    <3>2. PICK J : J = RunContentGates(Draft[i], C, Siblings(blind), a, Sources, reg, F)
      OBVIOUS
    <3>3. LandedAs(i, J, blind, keep)
      BY <3>1, <3>2
    <3>4. CASE J.status = "passed" \/ J.claims # {}
      <4>1. CASE C = {}
        <5>1. J = RunContentGates(Draft[i], {}, Siblings(blind), a, Sources, reg, F)
          BY <3>2, <4>1
        <5>2. "block" \notin CheapVerdicts(Draft[i], {}, Siblings(blind), a, Sources, reg)
          BY <3>4, <5>1, GatesFold
        <5> QED
          BY <5>2, UnblockedIsSourced
      <4> QED
        BY <4>1
    <3>5. CASE ~(J.status = "passed" \/ J.claims # {})
      BY <1>2, <3>3, <3>5 DEF LandedAs
    <3> QED
      BY <3>4, <3>5
  <2> QED
    BY <2>1, <2>2
<1> QED
  BY <1>1, <1>2

\* A row that waits for a human, with claims, waits for a reason that signatures can remove.
Held(i) ==
    asset[i].status = "needs_human" /\ asset[i].claims # {} => Waits(i, asset[i].claims, signed)

LEMMA JudgesHeld ==
    ASSUME AssetShape, NEW i \in Ids, NEW C \in SUBSET Settled, NEW a \in BOOLEAN, NEW keep \in BOOLEAN,
           keep => C = asset[i].claims, Judges(i, C, a, signed, keep), UNCHANGED signed, ~disturbed'
    PROVE  Held(i)' /\ \A j \in Ids : j # i /\ Held(j) => Held(j)'
<1>1. \A j \in Ids : j # i => asset'[j] = asset[j]
  BY JudgesRow
<1>2. \A j \in Ids : j # i /\ Held(j) => Held(j)'
  BY <1>1 DEF Held, Waits
<1>3. PICK blind \in BOOLEAN, F \in SUBSET AnyClaim :
        LandedAs(i, RunContentGates(Draft[i], C, Siblings(blind), a, Sources, signed, F), blind, keep)
  BY JudgesRow
<1>4. PICK J : J = RunContentGates(Draft[i], C, Siblings(blind), a, Sources, signed, F)
  OBVIOUS
<1>5. LandedAs(i, J, blind, keep)
  BY <1>3, <1>4
<1>6. J.status = "needs_human" =>
        Waits(i, J.claims, signed) /\ (C # {} => Waits(i, C, signed))
  BY <1>4, GatesWait
<1>7. ASSUME asset'[i].status = "needs_human", asset'[i].claims # {}
      PROVE  Waits(i, asset'[i].claims, signed)
  BY <1>5, <1>6, <1>7 DEF LandedAs
<1>8. Held(i)'
  BY <1>7 DEF Held, Waits
<1> QED
  BY <1>2, <1>8

-----------------------------------------------------------------------------
(* The steps, field by field *)

LEMMA FoundOf ==
    ASSUME NEW i \in Ids, NEW may, NEW f \in Found(i, may)
    PROVE  f.claims \in SUBSET AnyClaim /\ (f.paid => may)
<1>1. CASE f = [claims |-> {}, paid |-> FALSE]
  BY <1>1
<1>2. ASSUME may, NEW c \in Extractions(Prompted(Draft[i])), f = [claims |-> c, paid |-> TRUE]
      PROVE  f.claims \in SUBSET AnyClaim /\ (f.paid => may)
  BY <1>2, ExtractionsAreClaims
<1> QED
  BY <1>1, <1>2 DEF Found

LEMMA GateNewStep ==
    ASSUME ShapeInv, NEW i \in Ids, GateNew(i)
    PROVE  /\ gen.pc = "gating" /\ i \in gen.todo
           /\ Judges(i, {}, TRUE, gen.sources, FALSE)
           /\ GenShape' /\ gen'.pc = gen.pc /\ gen'.sources = gen.sources
           /\ gen'.spent # gen.spent =>
                gen.spent <= RunCeiling /\ gen'.spent = gen.spent + ExtractPrice
           /\ UNCHANGED <<signed, editor, queued>>
<1>1. gen.pc = "gating" /\ i \in gen.todo /\ UNCHANGED <<signed, editor, queued>>
  BY DEF GateNew
<1>2. PICK blind \in MayBeBlind : \E f \in Found(i, Asks(i, {}, blind, TRUE, gen.sources) /\ MayExtract) :
        /\ gen' = [gen EXCEPT !.todo = @ \ {i}, !.spent = @ + IF f.paid THEN ExtractPrice ELSE 0]
        /\ Persist(i, Judged(Judgement(i, {}, blind, TRUE, gen.sources, f), blind))
  BY DEF GateNew
<1>3. PICK f \in Found(i, Asks(i, {}, blind, TRUE, gen.sources) /\ MayExtract) :
        /\ gen' = [gen EXCEPT !.todo = @ \ {i}, !.spent = @ + IF f.paid THEN ExtractPrice ELSE 0]
        /\ Persist(i, Judged(Judgement(i, {}, blind, TRUE, gen.sources, f), blind))
  BY <1>2
<1>4. f.claims \in SUBSET AnyClaim /\ (f.paid => MayExtract)
  BY FoundOf
<1>5. blind \in BOOLEAN
  BY DEF MayBeBlind
<1>6. PICK x \in Nat : x = IF f.paid THEN ExtractPrice ELSE 0
  BY PipelineAssumption
<1>7. gen' = [gen EXCEPT !.todo = @ \ {i}, !.spent = @ + x]
  BY <1>3, <1>6
<1>8. GenShape' /\ gen'.pc = gen.pc /\ gen'.sources = gen.sources /\ gen'.spent = gen.spent + x
  <2>1. gen' = [pc |-> gen.pc, left |-> gen.left, made |-> gen.made, todo |-> gen.todo \ {i},
                sources |-> gen.sources, spent |-> gen.spent + x]
    BY <1>7 DEF ShapeInv, GenShape
  <2>2. /\ gen'.pc = gen.pc /\ gen'.left = gen.left /\ gen'.made = gen.made
        /\ gen'.todo = gen.todo \ {i} /\ gen'.sources = gen.sources /\ gen'.spent = gen.spent + x
    BY <2>1
  <2> QED
    BY <1>1, <2>1, <2>2 DEF ShapeInv, GenShape
<1>9. gen'.spent # gen.spent => gen.spent <= RunCeiling /\ gen'.spent = gen.spent + ExtractPrice
  BY <1>4, <1>6, <1>8 DEF MayExtract, WithinCeiling, ShapeInv, GenShape
<1>10. Judges(i, {}, TRUE, gen.sources, FALSE)
  <2>1. CASE asset' = asset /\ disturbed' = TRUE
    BY <2>1 DEF Judges
  <2>2. CASE /\ asset' = [asset EXCEPT ![i] = Judged(Judgement(i, {}, blind, TRUE, gen.sources, f), blind)]
             /\ disturbed' = disturbed
    <3>1. Lands(i, {}, TRUE, gen.sources, blind, f.claims, FALSE)
      BY <2>2 DEF Lands, Judged, Judgement
    <3> QED
      BY <1>4, <1>5, <2>2, <3>1 DEF Judges
  <2> QED
    BY <1>3, <2>1, <2>2 DEF Persist
<1> QED
  BY <1>1, <1>8, <1>9, <1>10

\* The new local state n of editor e, and what it has to be.
EditorMoves(e, n) ==
    /\ editor' = [editor EXCEPT ![e] = n]
    /\ n \in EditorType /\ n.sources \subseteq signed'
    /\ n.kind \in Kinds[e] => n.at \in 1..(IF n.kind = "gateContent" THEN 3 ELSE 4)

LEMMA EditorMoved ==
    ASSUME EditorShape, NEW e \in Editors, NEW n, EditorMoves(e, n), signed \subseteq signed'
    PROVE  /\ EditorShape'
           /\ editor'[e] = n
           /\ AtWork(e)' <=> n.kind \in Kinds[e]
           /\ \A o \in Editors : o # e => editor'[o] = editor[o] /\ (AtWork(o)' <=> AtWork(o))
<1>1. editor'[e] = n /\ \A o \in Editors : o # e => editor'[o] = editor[o]
  BY DEF EditorMoves, EditorShape
<1>2. /\ AtWork(e)' <=> n.kind \in Kinds[e]
      /\ \A o \in Editors : o # e => (AtWork(o)' <=> AtWork(o))
  BY <1>1 DEF AtWork
<1>3. editor' \in [Editors -> EditorType]
  BY DEF EditorMoves, EditorShape
<1>4. \A o \in Editors : editor'[o].sources \subseteq signed'
  BY <1>1 DEF EditorMoves, EditorShape
<1>5. \A o \in Editors : AtWork(o)' =>
         editor'[o].at \in 1..(IF editor'[o].kind = "gateContent" THEN 3 ELSE 4)
  BY <1>1, <1>2 DEF EditorMoves, EditorShape
<1> QED
  BY <1>1, <1>2, <1>3, <1>4, <1>5 DEF EditorShape, AtWork

LEMMA FinishedType ==
    /\ Finished \in EditorType /\ Finished.sources = {} /\ Finished.kind = "finished"
    /\ NotYet \in EditorType /\ NotYet.sources = {} /\ NotYet.kind = "none"
    /\ DOMAIN Finished.rows = {} /\ DOMAIN NotYet.rows = {}
BY NoRows DEF Finished, NotYet, EditorType

LEMMA NoneAtWork ==
    ASSUME NEW e \in Editors
    PROVE  "none" \notin Kinds[e] /\ "finished" \notin Kinds[e]
BY PipelineAssumption

LEMMA AdvanceIs ==
    ASSUME EditorShape, NEW e \in Editors
    PROVE  Advance(e) = [kind |-> editor[e].kind, at |-> editor[e].at + 1,
                         rows |-> editor[e].rows, sources |-> editor[e].sources]
<1>1. PICK m : m = editor[e]
  OBVIOUS
<1>2. m \in EditorType
  BY <1>1 DEF EditorShape
<1>3. [m EXCEPT !.at = @ + 1] = [kind |-> m.kind, at |-> m.at + 1, rows |-> m.rows, sources |-> m.sources]
  BY <1>2 DEF EditorType
<1> QED
  BY <1>1, <1>3 DEF Advance

LEMMA BeginStep ==
    ASSUME ShapeInv, NEW e \in Editors, NEW k \in Kinds[e], Begin(e, k)
    PROVE  \E n : /\ EditorMoves(e, n) /\ n.kind = k /\ n.at = 1 /\ DOMAIN n.rows = {}
                  /\ UNCHANGED <<asset, signed, gen, queued>>
<1>1. PICK n : n = [NotYet EXCEPT !.kind = k, !.at = 1]
  OBVIOUS
<1>2. n = [kind |-> k, at |-> 1, rows |-> <<>>, sources |-> {}]
  BY <1>1 DEF NotYet
<1>3. k \in {"gateContent", "review", "web"}
  BY PipelineAssumption
<1>4. n \in EditorType /\ n.sources = {} /\ n.kind = k /\ n.at = 1 /\ DOMAIN n.rows = {}
  BY <1>2, <1>3, NoRows DEF EditorType
<1>5. editor' = [editor EXCEPT ![e] = n] /\ UNCHANGED <<asset, signed, gen, queued>>
  BY <1>1 DEF Begin
<1>6. signed' = signed
  BY <1>5
<1>7. EditorMoves(e, n)
  BY <1>4, <1>5, <1>6 DEF EditorMoves
<1> QED
  BY <1>4, <1>5, <1>7

\* The rows an editor wants.
Wanted(e) == {i \in Inserted : editor[e].kind = "gateContent" \/ asset[i].status = "needs_human"}

LEMMA ReadRowsStep ==
    ASSUME ShapeInv, NEW e \in Editors, ReadRows(e)
    PROVE  \E n : /\ EditorMoves(e, n)
                  /\ \/ n.kind = "finished" /\ DOMAIN n.rows = {} /\ Wanted(e) = {}
                     \/ /\ n.kind = editor[e].kind /\ n.at = editor[e].at + 1
                        /\ n.sources = editor[e].sources /\ DOMAIN n.rows = Wanted(e)
                        /\ \A i \in Wanted(e) : n.rows[i] = asset[i].claims
                  /\ UNCHANGED <<asset, signed, gen, queued, disturbed>>
<1>1. /\ Doing(e, "rows") /\ UNCHANGED <<asset, signed, gen, queued, disturbed>>
      /\ editor' = [editor EXCEPT ![e] =
            IF Wanted(e) = {} THEN Finished
            ELSE [Advance(e) EXCEPT !.rows = [i \in Wanted(e) |-> asset[i].claims]]]
  BY DEF ReadRows, Wanted
<1>2. CASE Wanted(e) = {}
  BY <1>1, <1>2, FinishedType, NoneAtWork DEF EditorMoves
<1>3. CASE Wanted(e) # {}
  <2>1. PICK r : r = [i \in Wanted(e) |-> asset[i].claims]
    OBVIOUS
  <2>2. Wanted(e) \in SUBSET Ids
    BY DEF Wanted, Inserted
  <2>3. r \in RowSets
    BY <2>1, <2>2 DEF RowSets, ShapeInv, AssetShape
  <2>4. PICK n : n = [kind |-> editor[e].kind, at |-> editor[e].at + 1, rows |-> r,
                      sources |-> editor[e].sources]
    OBVIOUS
  <2>5. [Advance(e) EXCEPT !.rows = r] = n
    <3>1. PICK m : m = Advance(e)
      OBVIOUS
    <3>2. m = [kind |-> editor[e].kind, at |-> editor[e].at + 1, rows |-> editor[e].rows,
               sources |-> editor[e].sources]
      BY <3>1, AdvanceIs DEF ShapeInv
    <3>3. [m EXCEPT !.rows = r] = n
      BY <2>4, <3>2
    <3> QED
      BY <3>1, <3>3
  <2>6. editor[e] \in EditorType /\ editor[e].sources \subseteq signed
    BY DEF ShapeInv, EditorShape
  <2>7. editor[e].at + 1 \in 1..(IF editor[e].kind = "gateContent" THEN 3 ELSE 4)
    BY <1>1, DoingAt
  <2>8. n \in EditorType /\ n.sources \subseteq signed
    BY <2>3, <2>4, <2>6, <2>7 DEF EditorType
  <2>9. EditorMoves(e, n)
    <3>1. signed' = signed /\ editor' = [editor EXCEPT ![e] = n]
      BY <1>1, <1>3, <2>1, <2>5
    <3>2. n.kind \in Kinds[e] => n.at \in 1..(IF n.kind = "gateContent" THEN 3 ELSE 4)
      BY <2>4, <2>7
    <3> QED
      BY <2>8, <3>1, <3>2 DEF EditorMoves
  <2> QED
    BY <1>1, <2>1, <2>4, <2>9
<1> QED
  BY <1>2, <1>3

LEMMA ReadSourcesStep ==
    ASSUME ShapeInv, NEW e \in Editors, ReadSources(e)
    PROVE  \E n : /\ EditorMoves(e, n)
                  /\ n.kind = editor[e].kind /\ n.at = editor[e].at + 1
                  /\ n.rows = editor[e].rows /\ n.sources = signed
                  /\ UNCHANGED <<asset, signed, gen, queued, disturbed>>
<1>1. /\ Doing(e, "sources") /\ UNCHANGED <<asset, signed, gen, queued, disturbed>>
      /\ editor' = [editor EXCEPT ![e] = [Advance(e) EXCEPT !.sources = signed]]
  BY DEF ReadSources
<1>2. PICK n : n = [kind |-> editor[e].kind, at |-> editor[e].at + 1, rows |-> editor[e].rows,
                    sources |-> signed]
  OBVIOUS
<1>3. [Advance(e) EXCEPT !.sources = signed] = n
  <2>1. PICK m : m = Advance(e)
    OBVIOUS
  <2>2. m = [kind |-> editor[e].kind, at |-> editor[e].at + 1, rows |-> editor[e].rows,
             sources |-> editor[e].sources]
    BY <2>1, AdvanceIs DEF ShapeInv
  <2>3. [m EXCEPT !.sources = signed] = n
    BY <1>2, <2>2
  <2> QED
    BY <2>1, <2>3
<1>4. editor[e] \in EditorType /\ signed \in SUBSET SourceIds
  BY DEF ShapeInv, EditorShape
<1>5. editor[e].at + 1 \in 1..(IF editor[e].kind = "gateContent" THEN 3 ELSE 4)
  BY <1>1, DoingAt
<1>6. n \in EditorType /\ n.sources \subseteq signed
  BY <1>2, <1>4, <1>5 DEF EditorType
<1> QED
  BY <1>1, <1>2, <1>3, <1>5, <1>6 DEF EditorMoves

LEMMA SignStep ==
    ASSUME ShapeInv, NEW e \in Editors, NEW s \in SourceIds, Sign(e, s)
    PROVE  \E n : /\ EditorMoves(e, n)
                  /\ n.kind = editor[e].kind /\ n.at = editor[e].at + 1
                  /\ n.rows = editor[e].rows /\ n.sources = editor[e].sources
                  /\ signed' = signed \cup {s}
                  /\ UNCHANGED <<asset, gen, queued, disturbed>>
<1>1. /\ Doing(e, "sign") /\ UNCHANGED <<asset, gen, queued, disturbed>>
      /\ signed' = signed \cup {s} /\ editor' = [editor EXCEPT ![e] = Advance(e)]
  BY DEF Sign
<1>2. PICK n : n = [kind |-> editor[e].kind, at |-> editor[e].at + 1, rows |-> editor[e].rows,
                    sources |-> editor[e].sources]
  OBVIOUS
<1>3. Advance(e) = n
  BY <1>2, AdvanceIs DEF ShapeInv
<1>4. editor[e] \in EditorType /\ editor[e].sources \subseteq signed
  BY DEF ShapeInv, EditorShape
<1>5. editor[e].at + 1 \in 1..(IF editor[e].kind = "gateContent" THEN 3 ELSE 4)
  BY <1>1, DoingAt
<1>6. n \in EditorType /\ n.sources \subseteq signed'
  BY <1>1, <1>2, <1>4, <1>5 DEF EditorType
<1> QED
  BY <1>1, <1>2, <1>3, <1>5, <1>6 DEF EditorMoves

LEMMA RegateStep ==
    ASSUME ShapeInv, NEW e \in Editors, NEW i \in Ids, Regate(e, i)
    PROVE  \E n : /\ EditorMoves(e, n)
                  /\ i \in DOMAIN editor[e].rows
                  /\ \/ n.kind = "finished" /\ DOMAIN n.rows = {} /\ DOMAIN editor[e].rows = {i}
                     \/ /\ n.kind = editor[e].kind /\ n.at = editor[e].at
                        /\ n.sources = editor[e].sources
                        /\ DOMAIN n.rows = DOMAIN editor[e].rows \ {i}
                        /\ \A j \in DOMAIN n.rows : n.rows[j] = editor[e].rows[j]
                  /\ Judges(i, editor[e].rows[i], editor[e].kind = "web", editor[e].sources,
                            editor[e].kind = "gateContent")
                  /\ UNCHANGED <<signed, gen, queued>>
<1> DEFINE me == editor[e]
           console == me.kind = "web"
           rest == Without(me.rows, i)
<1>1. /\ Doing(e, "regate") /\ i \in DOMAIN me.rows /\ UNCHANGED <<signed, gen, queued>>
      /\ editor' = [editor EXCEPT ![e] = Left(me, rest)]
  BY DEF Regate
<1>2. PICK blind \in MayBeBlind : \E f \in Found(i, me.kind = "gateContent"
                                     /\ Asks(i, me.rows[i], blind, console, me.sources)) :
        Persist(i, Stored(me, i, Judged(Judgement(i, me.rows[i], blind, console, me.sources, f), blind)))
  BY DEF Regate
<1>3. PICK f \in Found(i, me.kind = "gateContent"
                            /\ Asks(i, me.rows[i], blind, console, me.sources)) :
        Persist(i, Stored(me, i, Judged(Judgement(i, me.rows[i], blind, console, me.sources, f), blind)))
  BY <1>2
<1>4. f.claims \in SUBSET AnyClaim
  BY FoundOf
<1>5. blind \in BOOLEAN
  BY DEF MayBeBlind
<1>6. Judges(i, me.rows[i], console, me.sources, me.kind = "gateContent")
  <2>1. PICK J : J = RunContentGates(Draft[i], me.rows[i], Siblings(blind), console, Sources,
                                     me.sources, f.claims)
    OBVIOUS
  <2>2. PICK new : new = [status |-> J.status, claims |-> J.claims,
                          blind |-> blind /\ J.status = "passed"]
    OBVIOUS
  <2>3. Persist(i, Stored(me, i, new))
    BY <1>3, <2>1, <2>2 DEF Judged, Judgement
  <2>4. Stored(me, i, new) = [status |-> J.status,
                              claims |-> IF me.kind = "gateContent" THEN asset[i].claims ELSE J.claims,
                              blind |-> blind /\ J.status = "passed"]
    BY <2>2 DEF Stored
  <2>5. CASE asset' = asset /\ disturbed' = TRUE
    BY <2>5 DEF Judges
  <2>6. CASE asset' = [asset EXCEPT ![i] = Stored(me, i, new)] /\ disturbed' = disturbed
    <3>1. Lands(i, me.rows[i], console, me.sources, blind, f.claims, me.kind = "gateContent")
      BY <2>1, <2>4, <2>6 DEF Lands
    <3> QED
      BY <1>4, <1>5, <2>6, <3>1 DEF Judges
  <2> QED
    BY <2>3, <2>5, <2>6 DEF Persist
<1>7. me \in EditorType /\ me.sources \subseteq signed
  BY DEF ShapeInv, EditorShape
<1>8. /\ rest \in RowSets /\ DOMAIN rest = DOMAIN me.rows \ {i}
      /\ \A j \in DOMAIN rest : rest[j] = me.rows[j]
  <2>1. DOMAIN me.rows \in SUBSET Ids /\ \A j \in DOMAIN me.rows : me.rows[j] \in SUBSET Settled
    BY <1>7, RowSetOf DEF EditorType
  <2>2. rest = [j \in DOMAIN me.rows \ {i} |-> me.rows[j]]
    BY DEF Without
  <2>3. rest \in [DOMAIN me.rows \ {i} -> SUBSET Settled]
    BY <2>1, <2>2
  <2> QED
    BY <2>1, <2>2, <2>3 DEF RowSets
<1>9. CASE DOMAIN rest = {}
  <2>1. EditorMoves(e, Finished)
    BY <1>1, <1>9, FinishedType, NoneAtWork DEF Left, EditorMoves
  <2> QED
    BY <1>1, <1>6, <1>8, <1>9, <2>1, FinishedType
<1>10. CASE DOMAIN rest # {}
  <2>1. PICK n : n = [kind |-> me.kind, at |-> me.at, rows |-> rest, sources |-> me.sources]
    OBVIOUS
  <2>2. Left(me, rest) = n
    BY <1>7, <1>10, <2>1 DEF Left, EditorType
  <2>3. n \in EditorType /\ n.sources \subseteq signed
    BY <1>7, <1>8, <2>1 DEF EditorType
  <2>4. me.at \in 1..(IF me.kind = "gateContent" THEN 3 ELSE 4)
    BY <1>1 DEF Doing, ShapeInv, EditorShape
  <2>5. EditorMoves(e, n)
    BY <1>1, <2>1, <2>2, <2>3, <2>4 DEF EditorMoves
  <2> QED
    BY <1>1, <1>6, <1>8, <2>1, <2>5
<1> QED
  BY <1>9, <1>10

LEMMA GiveUpStep ==
    ASSUME ShapeInv, NEW e \in Editors, GiveUp(e)
    PROVE  EditorMoves(e, Finished) /\ disturbed' = TRUE /\ UNCHANGED <<asset, signed, gen, queued>>
BY FinishedType, NoneAtWork DEF GiveUp, EditorMoves

-----------------------------------------------------------------------------
(* The steps of gen-content *)

LEMMA GenIs ==
    ASSUME NEW p \in Phases, NEW left, NEW made \in SUBSET Ids, NEW todo \in SUBSET made,
           NEW sources \in SUBSET signed', NEW spent \in Nat,
           gen' = [pc |-> p, left |-> left, made |-> made, todo |-> todo, sources |-> sources,
                   spent |-> spent]
    PROVE  GenShape' /\ gen'.pc = p /\ gen'.sources = sources /\ gen'.spent = spent
<1>1. /\ gen'.pc = p /\ gen'.left = left /\ gen'.made = made /\ gen'.todo = todo
      /\ gen'.sources = sources /\ gen'.spent = spent
  OBVIOUS
<1> QED
  BY <1>1 DEF GenShape

LEMMA StartStep ==
    ASSUME ShapeInv, NEW caps, Start(caps)
    PROVE  /\ gen.pc = "idle" /\ gen'.pc \in {"generating", "done"} /\ GenShape'
           /\ gen'.spent = gen.spent
           /\ UNCHANGED <<asset, signed, editor, queued, disturbed>>
<1>1. gen.pc = "idle" /\ UNCHANGED <<asset, signed, editor, queued, disturbed>>
  BY DEF Start
<1>0. PICK left : left = LanguagesWithCells(Detected_, Template, caps)
  OBVIOUS
<1>2. PICK p \in {"generating", "done"} : gen' = [gen EXCEPT !.pc = p, !.left = left]
  BY <1>0 DEF Start
<1>3. gen' = [pc |-> p, left |-> left, made |-> gen.made, todo |-> gen.todo,
              sources |-> gen.sources, spent |-> gen.spent]
  BY <1>2 DEF ShapeInv, GenShape
<1>4. p \in Phases /\ signed' = signed
  BY <1>1 DEF Phases
<1>5. /\ gen.made \in SUBSET Ids /\ gen.todo \in SUBSET gen.made /\ gen.sources \in SUBSET signed
      /\ gen.spent \in Nat
  BY DEF ShapeInv, GenShape
<1>6. GenShape' /\ gen'.pc = p /\ gen'.spent = gen.spent
  BY <1>3, <1>4, <1>5, GenIs
<1> QED
  BY <1>1, <1>6

LEMMA GenerateStep ==
    ASSUME ShapeInv, GenerateLanguage
    PROVE  /\ gen.pc = "generating" /\ gen'.pc = "generating" /\ GenShape'
           /\ gen'.spent # gen.spent =>
                gen.spent <= RunCeiling /\ gen'.spent = gen.spent + CallPrice
           /\ UNCHANGED <<asset, signed, editor, queued, disturbed>>
<1>1. /\ gen.pc = "generating" /\ gen.spent <= RunCeiling
      /\ UNCHANGED <<asset, signed, editor, queued, disturbed>>
  BY DEF GenerateLanguage, WithinCeiling
<1>2. /\ gen.made \in SUBSET Ids /\ gen.todo \in SUBSET gen.made /\ gen.sources \in SUBSET signed
      /\ gen.spent \in Nat /\ signed' = signed /\ gen.pc \in Phases
  BY <1>1 DEF ShapeInv, GenShape
<1>3. ASSUME NEW items \in SUBSET Ids, NEW left,
             gen' = [gen EXCEPT !.made = @ \cup items, !.spent = gen.spent + CallPrice, !.left = left]
      PROVE  GenShape' /\ gen'.pc = gen.pc /\ gen'.spent = gen.spent + CallPrice
  <2>1. gen' = [pc |-> gen.pc, left |-> left, made |-> gen.made \cup items, todo |-> gen.todo,
                sources |-> gen.sources, spent |-> gen.spent + CallPrice]
    BY <1>3 DEF ShapeInv, GenShape
  <2>2. /\ gen.made \cup items \in SUBSET Ids /\ gen.todo \in SUBSET (gen.made \cup items)
        /\ gen.spent + CallPrice \in Nat
    BY <1>2, PipelineAssumption
  <2> QED
    BY <1>2, <2>1, <2>2, GenIs
<1>4. ASSUME NEW left, gen' = [gen EXCEPT !.left = left]
      PROVE  GenShape' /\ gen'.pc = gen.pc /\ gen'.spent = gen.spent
  <2>1. gen' = [pc |-> gen.pc, left |-> left, made |-> gen.made, todo |-> gen.todo,
                sources |-> gen.sources, spent |-> gen.spent]
    BY <1>4 DEF ShapeInv, GenShape
  <2> QED
    BY <1>2, <2>1, GenIs
<1>5. \/ \E items \in SUBSET Ids, left \in {<<>>, Tail(gen.left)} :
           gen' = [gen EXCEPT !.made = @ \cup items, !.spent = gen.spent + CallPrice, !.left = left]
      \/ \E left \in {Tail(gen.left)} : gen' = [gen EXCEPT !.left = left]
  <2>1. CASE gen' = [gen EXCEPT !.left = Tail(@)]
    BY <2>1
  <2>2. ASSUME NEW items \in SUBSET {i \in Ids : Draft[i].language = Head(gen.left)},
               gen' = [gen EXCEPT !.made = @ \cup items, !.spent = gen.spent + CallPrice,
                                  !.left = IF gen.spent + CallPrice > RunCeiling THEN <<>> ELSE Tail(@)]
        PROVE  \E its \in SUBSET Ids, left \in {<<>>, Tail(gen.left)} :
           gen' = [gen EXCEPT !.made = @ \cup its, !.spent = gen.spent + CallPrice, !.left = left]
    <3>1. PICK left \in {<<>>, Tail(gen.left)} :
            left = IF gen.spent + CallPrice > RunCeiling THEN <<>> ELSE Tail(gen.left)
      OBVIOUS
    <3>2. gen' = [gen EXCEPT !.made = @ \cup items, !.spent = gen.spent + CallPrice, !.left = left]
      BY <2>2, <3>1
    <3>3. items \in SUBSET Ids
      BY <2>2
    <3> QED
      BY <3>2, <3>3
  <2> QED
    BY <2>1, <2>2 DEF GenerateLanguage
<1> QED
  BY <1>1, <1>3, <1>4, <1>5

LEMMA LoadSourcesStep ==
    ASSUME ShapeInv, LoadSources
    PROVE  /\ gen.pc = "generating" /\ gen'.pc = "inserting" /\ GenShape'
           /\ gen'.spent = gen.spent /\ gen'.sources = signed
           /\ UNCHANGED <<asset, signed, editor, queued, disturbed>>
<1>1. gen.pc = "generating" /\ UNCHANGED <<asset, signed, editor, queued, disturbed>>
  BY DEF LoadSources
<1>2. gen' = [pc |-> "inserting", left |-> gen.left, made |-> gen.made, todo |-> gen.made,
              sources |-> signed, spent |-> gen.spent]
  BY DEF LoadSources, ShapeInv, GenShape
<1>3. gen.made \in SUBSET Ids /\ signed \in SUBSET signed' /\ gen.spent \in Nat /\ "inserting" \in Phases
  BY <1>1 DEF ShapeInv, GenShape, Phases
<1> QED
  BY <1>1, <1>2, <1>3, GenIs

LEMMA InsertStep ==
    ASSUME ShapeInv, NEW i \in Ids, Insert(i)
    PROVE  /\ gen.pc = "inserting" /\ gen'.pc = "inserting" /\ GenShape'
           /\ gen'.spent = gen.spent /\ gen'.sources = gen.sources
           /\ AssetShape' /\ \A j \in Ids : asset'[j] = asset[j] \/ asset'[j].status = "pending"
           /\ \A j \in Ids : asset'[j].claims = asset[j].claims
           /\ UNCHANGED <<signed, editor, queued, disturbed>>
<1>1. gen.pc = "inserting" /\ UNCHANGED <<signed, editor, queued, disturbed>>
  BY DEF Insert
<1>2. PICK made \in SUBSET gen.made, todo \in SUBSET gen.made :
        todo \subseteq made /\ gen' = [gen EXCEPT !.todo = todo, !.made = made]
  <2>1. CASE gen' = [gen EXCEPT !.todo = @ \ {i}]
    <3>1. gen.todo \ {i} \in SUBSET gen.made
      BY DEF ShapeInv, GenShape
    <3>2. gen' = [gen EXCEPT !.todo = gen.todo \ {i}, !.made = gen.made]
      BY <2>1 DEF ShapeInv, GenShape
    <3> QED
      BY <3>1, <3>2
  <2>2. CASE gen' = [gen EXCEPT !.todo = @ \ {i}, !.made = @ \ {i}]
    <3>1. gen.todo \ {i} \in SUBSET (gen.made \ {i}) /\ gen.made \ {i} \in SUBSET gen.made
      BY DEF ShapeInv, GenShape
    <3> QED
      BY <2>2, <3>1
  <2> QED
    BY <2>1, <2>2 DEF Insert
<1>3. gen' = [pc |-> gen.pc, left |-> gen.left, made |-> made, todo |-> todo,
              sources |-> gen.sources, spent |-> gen.spent]
  BY <1>2 DEF ShapeInv, GenShape
<1>4. /\ made \in SUBSET Ids /\ gen.sources \in SUBSET signed' /\ gen.spent \in Nat
      /\ gen.pc \in Phases
  BY <1>1, <1>2 DEF ShapeInv, GenShape
<1>5. GenShape' /\ gen'.pc = gen.pc /\ gen'.spent = gen.spent /\ gen'.sources = gen.sources
  BY <1>2, <1>3, <1>4, GenIs
<1>6. /\ AssetShape' /\ \A j \in Ids : asset'[j] = asset[j] \/ asset'[j].status = "pending"
      /\ \A j \in Ids : asset'[j].claims = asset[j].claims
  <2>1. CASE asset' = asset
    BY <2>1 DEF ShapeInv, AssetShape
  <2>2. CASE asset' = [asset EXCEPT ![i].status = "pending"]
    <3>1. PICK a : a = [asset[i] EXCEPT !.status = "pending"]
      OBVIOUS
    <3>2. a = [status |-> "pending", claims |-> asset[i].claims, blind |-> asset[i].blind]
      BY <3>1 DEF ShapeInv, AssetShape
    <3>3. asset' = [asset EXCEPT ![i] = a]
      BY <2>2, <3>1
    <3> QED
      BY <3>2, <3>3 DEF ShapeInv, AssetShape, Statuses
  <2> QED
    BY <2>1, <2>2 DEF Insert
<1> QED
  BY <1>1, <1>5, <1>6

LEMMA AllInsertedStep ==
    ASSUME ShapeInv, AllInserted
    PROVE  /\ gen.pc = "inserting" /\ gen'.pc = "gating" /\ GenShape'
           /\ gen'.spent = gen.spent /\ gen'.sources = gen.sources
           /\ UNCHANGED <<asset, signed, editor, queued, disturbed>>
<1>1. gen.pc = "inserting" /\ UNCHANGED <<asset, signed, editor, queued, disturbed>>
  BY DEF AllInserted
<1>2. gen' = [pc |-> "gating", left |-> gen.left, made |-> gen.made, todo |-> gen.made,
              sources |-> gen.sources, spent |-> gen.spent]
  BY DEF AllInserted, ShapeInv, GenShape
<1>3. gen.made \in SUBSET Ids /\ gen.sources \in SUBSET signed' /\ gen.spent \in Nat /\ "gating" \in Phases
  BY <1>1 DEF ShapeInv, GenShape, Phases
<1> QED
  BY <1>1, <1>2, <1>3, GenIs

LEMMA EndedStep ==
    ASSUME ShapeInv, NEW how \in {"done", "crashed"}, gen' = Ended(how), UNCHANGED signed
    PROVE  GenShape' /\ gen'.pc = how /\ gen'.spent = gen.spent
<1>1. gen' = [pc |-> how, left |-> <<>>, made |-> {}, todo |-> {}, sources |-> {}, spent |-> gen.spent]
  BY DEF Ended, ShapeInv, GenShape
<1>2. how \in Phases /\ gen.spent \in Nat
  BY DEF ShapeInv, GenShape, Phases
<1> QED
  BY <1>1, <1>2, GenIs

-----------------------------------------------------------------------------
(* What has passed is sourced, no twins pass, and the ceiling bounds what is spent *)

SourcedInv ==
    /\ \A i \in Ids : asset[i].status = "passed" \/ i \in queued \/ asset[i].claims # {} => Sourced(i)
    /\ \A e \in Editors : \A i \in DOMAIN editor[e].rows : editor[e].rows[i] # {} => Sourced(i)

SpendInv == gen.spent <= RunCeiling + (IF CallPrice < ExtractPrice THEN ExtractPrice ELSE CallPrice)

PipelineInv == ShapeInv /\ SourcedInv /\ TwinsInv /\ SpendInv

LEMMA SourcedStays ==
    ASSUME NEW i \in Ids, Sourced(i), signed \subseteq signed'
    PROVE  Sourced(i)'
BY DEF Sourced

LEMMA PipelineStarts ==
    ASSUME Init
    PROVE  PipelineInv
<1>1. AssetShape
  BY DEF Init, AssetShape, Statuses
<1>2. GenShape
  BY DEF Init, GenShape, Phases
<1>3. EditorShape
  BY FinishedType, NoneAtWork DEF Init, EditorShape, AtWork
<1>4. ShapeInv
  BY <1>1, <1>2, <1>3, PipelineAssumption DEF Init, ShapeInv
<1>5. \A e \in Editors : DOMAIN editor[e].rows = {}
  BY NoRows DEF Init, NotYet
<1>6. SourcedInv
  BY <1>5 DEF Init, SourcedInv
<1>7. TwinsInv /\ SpendInv
  BY PipelineAssumption DEF Init, TwinsInv, SpendInv
<1> QED
  BY <1>4, <1>6, <1>7 DEF PipelineInv

\* A step of gen-content that judges nothing.
LEMMA QuietGenStep ==
    ASSUME PipelineInv, GenShape', UNCHANGED <<signed, editor, queued>>,
           disturbed' \in BOOLEAN, AssetShape',
           \A j \in Ids : asset'[j] = asset[j] \/ asset'[j].status = "pending",
           \A j \in Ids : asset'[j].claims = asset[j].claims,
           \/ gen'.spent = gen.spent
           \/ gen.spent <= RunCeiling /\ gen'.spent = gen.spent + CallPrice
    PROVE  PipelineInv'
<1>1. ShapeInv'
  BY DEF PipelineInv, ShapeInv, EditorShape, AtWork
<1>2. SourcedInv'
  <2>1. \A i \in Ids : Sourced(i) => Sourced(i)'
    BY SourcedStays
  <2>2. \A i \in Ids : asset'[i].status = "passed" \/ i \in queued \/ asset'[i].claims # {} => Sourced(i)
    BY DEF PipelineInv, SourcedInv
  <2>3. \A e \in Editors : DOMAIN editor[e].rows \subseteq Ids
    BY RowSetOf DEF PipelineInv, ShapeInv, EditorShape, EditorType
  <2> QED
    BY <2>1, <2>2, <2>3 DEF PipelineInv, SourcedInv
<1>3. TwinsInv'
  BY DEF PipelineInv, TwinsInv, AreTwins
<1>4. SpendInv'
  BY PipelineAssumption DEF PipelineInv, SpendInv, ShapeInv, GenShape
<1> QED
  BY <1>1, <1>2, <1>3, <1>4 DEF PipelineInv

\* A step of an editor that judges nothing: what it has read is sourced.
LEMMA QuietEditorStep ==
    ASSUME PipelineInv, NEW e \in Editors, NEW n, EditorMoves(e, n), UNCHANGED <<asset, gen, queued>>,
           disturbed' \in BOOLEAN, signed \subseteq signed', signed' \in SUBSET SourceIds,
           \A i \in DOMAIN n.rows : n.rows[i] # {} => Sourced(i)
    PROVE  PipelineInv'
<1>1. ShapeInv'
  <2>1. AssetShape' /\ GenShape'
    BY DEF PipelineInv, ShapeInv, AssetShape, GenShape
  <2>2. EditorShape'
    BY EditorMoved DEF PipelineInv, ShapeInv
  <2> QED
    BY <2>1, <2>2 DEF PipelineInv, ShapeInv
<1>2. SourcedInv'
  <2>1. \A i \in Ids : Sourced(i) => Sourced(i)'
    BY SourcedStays
  <2>2. \A o \in Editors : DOMAIN editor[o].rows \subseteq Ids
    BY RowSetOf DEF PipelineInv, ShapeInv, EditorShape, EditorType
  <2>3. DOMAIN n.rows \subseteq Ids
    BY RowSetOf DEF EditorMoves, EditorType
  <2>4. editor'[e] = n /\ \A o \in Editors : o # e => editor'[o] = editor[o]
    BY EditorMoved DEF PipelineInv, ShapeInv
  <2>5. \A i \in Ids : asset'[i].status = "passed" \/ i \in queued' \/ asset'[i].claims # {} => Sourced(i)'
    BY <2>1 DEF PipelineInv, SourcedInv
  <2>6. ASSUME NEW o \in Editors, NEW i \in DOMAIN editor'[o].rows, editor'[o].rows[i] # {}
        PROVE  Sourced(i)'
    <3>1. CASE o = e
      BY <2>1, <2>3, <2>4, <2>6, <3>1
    <3>2. CASE o # e
      <4>1. i \in DOMAIN editor[o].rows /\ editor[o].rows[i] # {}
        BY <2>4, <2>6, <3>2
      <4> QED
        BY <2>1, <2>2, <4>1 DEF PipelineInv, SourcedInv
    <3> QED
      BY <3>1, <3>2
  <2> QED
    BY <2>5, <2>6 DEF SourcedInv
<1>3. TwinsInv' /\ SpendInv'
  BY DEF PipelineInv, TwinsInv, AreTwins, SpendInv
<1> QED
  BY <1>1, <1>2, <1>3 DEF PipelineInv

LEMMA GateNewKeeps ==
    ASSUME PipelineInv, NEW i \in Ids, GateNew(i)
    PROVE  PipelineInv'
<1>1. /\ Judges(i, {}, TRUE, gen.sources, FALSE) /\ GenShape'
      /\ gen'.spent # gen.spent => gen.spent <= RunCeiling /\ gen'.spent = gen.spent + ExtractPrice
      /\ UNCHANGED <<signed, editor, queued>>
  BY GateNewStep DEF PipelineInv
<1>2. AssetShape /\ {} \in SUBSET Settled /\ gen.sources \in SUBSET signed /\ disturbed' \in BOOLEAN
  BY <1>1 DEF PipelineInv, ShapeInv, GenShape, Judges
<1>3. AssetShape' /\ TwinsInv'
  BY <1>1, <1>2, JudgesShape, JudgesTwins DEF PipelineInv
<1>4. ShapeInv'
  BY <1>1, <1>2, <1>3 DEF PipelineInv, ShapeInv, EditorShape, AtWork
<1>5. \A j \in Ids : asset'[j].status = "passed" \/ asset'[j].claims # {} => Sourced(j)
  BY <1>1, <1>2, JudgesSource DEF PipelineInv, SourcedInv
<1>6. SourcedInv'
  <2>1. \A j \in Ids : Sourced(j) => Sourced(j)'
    BY <1>1, SourcedStays
  <2>2. \A e \in Editors : DOMAIN editor[e].rows \subseteq Ids
    BY RowSetOf DEF PipelineInv, ShapeInv, EditorShape, EditorType
  <2> QED
    BY <1>1, <1>5, <2>1, <2>2 DEF PipelineInv, SourcedInv
<1>7. SpendInv'
  BY <1>1, PipelineAssumption DEF PipelineInv, SpendInv, ShapeInv, GenShape
<1> QED
  BY <1>3, <1>4, <1>6, <1>7 DEF PipelineInv

LEMMA RegateKeeps ==
    ASSUME PipelineInv, NEW e \in Editors, NEW i \in Ids, Regate(e, i)
    PROVE  PipelineInv'
<1>1. PICK n :
        /\ EditorMoves(e, n) /\ i \in DOMAIN editor[e].rows
        /\ \/ n.kind = "finished" /\ DOMAIN n.rows = {} /\ DOMAIN editor[e].rows = {i}
           \/ /\ n.kind = editor[e].kind /\ n.at = editor[e].at
              /\ n.sources = editor[e].sources
              /\ DOMAIN n.rows = DOMAIN editor[e].rows \ {i}
              /\ \A j \in DOMAIN n.rows : n.rows[j] = editor[e].rows[j]
        /\ Judges(i, editor[e].rows[i], editor[e].kind = "web", editor[e].sources,
                  editor[e].kind = "gateContent")
        /\ UNCHANGED <<signed, gen, queued>>
  BY RegateStep DEF PipelineInv
<1>2. /\ editor[e] \in EditorType /\ editor[e].sources \in SUBSET signed
      /\ DOMAIN editor[e].rows \subseteq Ids /\ editor[e].rows[i] \in SUBSET Settled
  BY <1>1, RowSetOf DEF PipelineInv, ShapeInv, EditorShape, EditorType
<1>3. AssetShape /\ disturbed' \in BOOLEAN /\ (editor[e].rows[i] # {} => Sourced(i))
  BY <1>1 DEF PipelineInv, ShapeInv, Judges, SourcedInv
<1>11. PICK C, reg : C = editor[e].rows[i] /\ reg = editor[e].sources
  OBVIOUS
<1>12. PICK a \in BOOLEAN : a = (editor[e].kind = "web")
  OBVIOUS
<1>13. PICK keep \in BOOLEAN : keep = (editor[e].kind = "gateContent")
  OBVIOUS
<1>14. Judges(i, C, a, reg, keep)
  <2>1. Judges(i, editor[e].rows[i], editor[e].kind = "web", editor[e].sources,
               editor[e].kind = "gateContent")
    BY <1>1
  <2> QED
    BY <2>1, <1>11, <1>12, <1>13
<1>15. C \in SUBSET Settled /\ reg \in SUBSET signed
  BY <1>2, <1>11
<1>16. C # {} => Sourced(i)
  BY <1>3, <1>11
<1>4. AssetShape'
  BY <1>3, <1>14, <1>15, JudgesShape
<1>5. TwinsInv'
  BY <1>3, <1>14, JudgesTwins DEF PipelineInv
<1>6. \A j \in Ids : asset'[j].status = "passed" \/ asset'[j].claims # {} => Sourced(j)
  <2>1. \A j \in Ids : asset[j].status = "passed" \/ asset[j].claims # {} => Sourced(j)
    BY DEF PipelineInv, SourcedInv
  <2> QED
    BY <2>1, <1>3, <1>14, <1>15, <1>16, JudgesSource
<1>7. ShapeInv'
  <2>1. EditorShape'
    BY <1>1, EditorMoved DEF PipelineInv, ShapeInv
  <2>2. GenShape'
    BY <1>1 DEF PipelineInv, ShapeInv, GenShape
  <2> QED
    <3>1. signed' = signed /\ queued' = queued
      BY <1>1
    <3> QED
      BY <1>3, <1>4, <2>1, <2>2, <3>1 DEF PipelineInv, ShapeInv
<1>8. SourcedInv'
  <2>1. \A j \in Ids : Sourced(j) => Sourced(j)'
    BY <1>1, SourcedStays
  <2>2. \A o \in Editors : DOMAIN editor[o].rows \subseteq Ids
    BY RowSetOf DEF PipelineInv, ShapeInv, EditorShape, EditorType
  <2>3. editor'[e] = n /\ \A o \in Editors : o # e => editor'[o] = editor[o]
    BY <1>1, EditorMoved DEF PipelineInv, ShapeInv
  <2>4. \A j \in Ids : asset'[j].status = "passed" \/ j \in queued' \/ asset'[j].claims # {} => Sourced(j)'
    BY <1>1, <1>6, <2>1 DEF PipelineInv, SourcedInv
  <2>5. ASSUME NEW o \in Editors, NEW j \in DOMAIN editor'[o].rows, editor'[o].rows[j] # {}
        PROVE  Sourced(j)'
    <3>1. j \in DOMAIN editor[o].rows /\ editor[o].rows[j] # {}
      <4>1. CASE o = e
        BY <1>1, <2>3, <2>5, <4>1
      <4>2. CASE o # e
        BY <2>3, <2>5, <4>2
      <4> QED
        BY <4>1, <4>2
    <3> QED
      BY <2>1, <2>2, <3>1 DEF PipelineInv, SourcedInv
  <2> QED
    BY <2>4, <2>5 DEF SourcedInv
<1>9. SpendInv'
  BY <1>1 DEF PipelineInv, SpendInv
<1> QED
  BY <1>5, <1>7, <1>8, <1>9 DEF PipelineInv

LEMMA EditorKeeps ==
    ASSUME PipelineInv, NEW e \in Editors,
           \/ EditorStep(e) \/ GiveUp(e) \/ \E k \in Kinds[e] : Begin(e, k)
    PROVE  PipelineInv'
<1>1. /\ ShapeInv /\ signed \in SUBSET SourceIds /\ disturbed \in BOOLEAN
      /\ \A i \in Ids : asset[i].claims # {} => Sourced(i)
      /\ \A i \in DOMAIN editor[e].rows : editor[e].rows[i] # {} => Sourced(i)
  BY DEF PipelineInv, ShapeInv, SourcedInv
<1>2. CASE ReadRows(e)
  <2>1. PICK n :
          /\ EditorMoves(e, n)
          /\ \/ DOMAIN n.rows = {}
             \/ DOMAIN n.rows = Wanted(e) /\ \A i \in Wanted(e) : n.rows[i] = asset[i].claims
          /\ UNCHANGED <<asset, signed, gen, queued, disturbed>>
    BY <1>1, <1>2, ReadRowsStep
  <2>2. \A i \in DOMAIN n.rows : n.rows[i] # {} => Sourced(i)
    BY <1>1, <2>1 DEF Wanted, Inserted
  <2> QED
    BY <1>1, <2>1, <2>2, QuietEditorStep
<1>3. CASE ReadSources(e)
  <2>1. PICK n : /\ EditorMoves(e, n) /\ n.rows = editor[e].rows
                 /\ UNCHANGED <<asset, signed, gen, queued, disturbed>>
    BY <1>1, <1>3, ReadSourcesStep
  <2> QED
    BY <1>1, <2>1, QuietEditorStep
<1>4. ASSUME NEW s \in SourceIds, Sign(e, s)
      PROVE  PipelineInv'
  <2>1. PICK n : /\ EditorMoves(e, n) /\ n.rows = editor[e].rows /\ signed' = signed \cup {s}
                 /\ UNCHANGED <<asset, gen, queued, disturbed>>
    BY <1>1, <1>4, SignStep
  <2>2. signed \subseteq signed' /\ signed' \in SUBSET SourceIds
    BY <1>1, <2>1
  <2> QED
    BY <1>1, <2>1, <2>2, QuietEditorStep
<1>5. CASE GiveUp(e)
  <2>1. /\ EditorMoves(e, Finished) /\ disturbed' \in BOOLEAN
        /\ UNCHANGED <<asset, signed, gen, queued>>
    BY <1>1, <1>5, GiveUpStep
  <2> QED
    BY <1>1, <2>1, FinishedType, QuietEditorStep
<1>6. ASSUME NEW k \in Kinds[e], Begin(e, k)
      PROVE  PipelineInv'
  <2>1. PICK n : /\ EditorMoves(e, n) /\ DOMAIN n.rows = {} /\ UNCHANGED <<asset, signed, gen, queued>>
    BY <1>1, <1>6, BeginStep
  <2>2. disturbed' \in BOOLEAN
    BY <1>6 DEF Begin
  <2> QED
    BY <1>1, <2>1, <2>2, QuietEditorStep
<1> QED
  BY <1>2, <1>3, <1>4, <1>5, <1>6, RegateKeeps DEF EditorStep

LEMMA GenKeeps ==
    ASSUME PipelineInv, GenStep \/ Crash \/ \E caps \in Capses : Start(caps)
    PROVE  PipelineInv'
<1>1. /\ ShapeInv /\ disturbed \in BOOLEAN /\ (asset' = asset => AssetShape')
  BY DEF PipelineInv, ShapeInv, AssetShape
<1>2. ASSUME NEW caps \in Capses, Start(caps)
      PROVE  PipelineInv'
  <2>1. GenShape' /\ gen'.spent = gen.spent /\ UNCHANGED <<asset, signed, editor, queued, disturbed>>
    BY <1>1, <1>2, StartStep
  <2> QED
    BY <1>1, <2>1, QuietGenStep
<1>3. CASE GenerateLanguage
  <2>1. /\ GenShape' /\ UNCHANGED <<asset, signed, editor, queued, disturbed>>
        /\ \/ gen'.spent = gen.spent
           \/ gen.spent <= RunCeiling /\ gen'.spent = gen.spent + CallPrice
    BY <1>1, <1>3, GenerateStep
  <2> QED
    BY <1>1, <2>1, QuietGenStep
<1>4. CASE LoadSources \/ AllInserted
  <2>1. GenShape' /\ gen'.spent = gen.spent /\ UNCHANGED <<asset, signed, editor, queued, disturbed>>
    BY <1>1, <1>4, LoadSourcesStep, AllInsertedStep
  <2> QED
    BY <1>1, <2>1, QuietGenStep
<1>5. CASE AllGated \/ Crash
  <2>1. /\ UNCHANGED <<asset, signed, editor, queued>> /\ disturbed' \in BOOLEAN
        /\ \E how \in {"done", "crashed"} : gen' = Ended(how)
    BY <1>1, <1>5 DEF AllGated, Crash
  <2>2. GenShape' /\ gen'.spent = gen.spent
    BY <1>1, <2>1, EndedStep
  <2> QED
    BY <1>1, <2>1, <2>2, QuietGenStep
<1>6. ASSUME NEW i \in Ids, Insert(i)
      PROVE  PipelineInv'
  <2>1. /\ GenShape' /\ gen'.spent = gen.spent /\ AssetShape'
        /\ \A j \in Ids : asset'[j] = asset[j] \/ asset'[j].status = "pending"
        /\ \A j \in Ids : asset'[j].claims = asset[j].claims
        /\ UNCHANGED <<signed, editor, queued, disturbed>>
    BY <1>1, <1>6, InsertStep
  <2> QED
    BY <1>1, <2>1, QuietGenStep
<1> QED
  BY <1>2, <1>3, <1>4, <1>5, <1>6, GateNewKeeps DEF GenStep

LEMMA QueueKeeps ==
    ASSUME PipelineInv, QueueForDeploy
    PROVE  PipelineInv'
<1>1. /\ queued' = queued \cup {i \in Ids : asset[i].status = "passed"}
      /\ UNCHANGED <<asset, signed, gen, editor, disturbed>>
  BY DEF QueueForDeploy, Eligible
<1>2. ShapeInv'
  BY <1>1 DEF PipelineInv, ShapeInv, AssetShape, GenShape, EditorShape, AtWork
<1>3. SourcedInv'
  BY <1>1 DEF PipelineInv, SourcedInv, Sourced
<1>4. TwinsInv' /\ SpendInv'
  BY <1>1 DEF PipelineInv, TwinsInv, AreTwins, SpendInv
<1> QED
  BY <1>2, <1>3, <1>4 DEF PipelineInv

LEMMA PipelineStays ==
    ASSUME PipelineInv, [Next]_vars
    PROVE  PipelineInv'
<1>1. CASE UNCHANGED vars
  BY <1>1 DEF vars, PipelineInv, ShapeInv, AssetShape, GenShape, EditorShape, AtWork, SourcedInv,
              Sourced, TwinsInv, AreTwins, SpendInv
<1> QED
  BY <1>1, GenKeeps, EditorKeeps, QueueKeeps DEF Next

-----------------------------------------------------------------------------
(* While nothing failed or overlapped, an asset that waits is held or in somebody's hands *)

\* The editor will judge the asset with all signatures there are.
Carries(m, i) ==
    \/ m.kind = "review" /\ m.at \in {3, 4} /\ i \in DOMAIN m.rows
    \/ m.kind = "web" /\ m.at \in {2, 3}
    \/ m.kind = "web" /\ m.at = 4 /\ i \in DOMAIN m.rows

KnowsSigned(m) ==
    \/ m.kind = "gateContent" /\ m.at = 3
    \/ m.kind = "review" /\ m.at = 4
    \/ m.kind = "web" /\ m.at \in {3, 4}

\* What an editor has read is still so.
Fresh(m) ==
    /\ \A i \in DOMAIN m.rows : m.rows[i] = asset[i].claims
    /\ KnowsSigned(m) => m.sources = signed
    /\ m.kind = "review" /\ m.at = 2 =>
         \A i \in Ids : asset[i].status = "needs_human" => i \in DOMAIN m.rows

GenCalm ==
    /\ gen.pc # "crashed"
    /\ gen.pc = "idle" => \A i \in Ids : asset[i].status = "absent"
    /\ gen.pc \in {"inserting", "gating"} => gen.sources = signed

EditorCalm ==
    \A e \in Editors : AtWork(e) =>
        gen.pc = "done" /\ Fresh(editor[e]) /\ \A o \in Editors : AtWork(o) => o = e

AllHeld == \A i \in Ids : Held(i) \/ \E e \in Editors : AtWork(e) /\ Carries(editor[e], i)

Calm == GenCalm /\ EditorCalm /\ AllHeld
CalmInv == ~disturbed => Calm

LEMMA CalmStarts ==
    ASSUME Init
    PROVE  CalmInv
<1>1. GenCalm
  BY DEF Init, GenCalm
<1>2. EditorCalm
  BY NoneAtWork DEF Init, EditorCalm, AtWork, NotYet
<1>3. AllHeld
  BY DEF Init, AllHeld, Held
<1> QED
  BY <1>1, <1>2, <1>3 DEF CalmInv, Calm

\* While gen-content is at work no editor is.
LEMMA AloneIsHeld ==
    ASSUME Calm, gen.pc # "done"
    PROVE  (\A e \in Editors : ~AtWork(e)) /\ \A i \in Ids : Held(i)
BY DEF Calm, EditorCalm, AllHeld

LEMMA CalmGenStep ==
    ASSUME Calm, gen.pc # "done", UNCHANGED <<signed, editor>>, GenCalm',
           \A i \in Ids : Held(i) => Held(i)'
    PROVE  Calm'
<1>1. (\A e \in Editors : ~AtWork(e)) /\ \A i \in Ids : Held(i)
  BY AloneIsHeld
<1>2. editor' = editor
  OBVIOUS
<1>3. \A e \in Editors : ~AtWork(e)'
  BY <1>1, <1>2 DEF AtWork
<1>4. EditorCalm'
  BY <1>3 DEF EditorCalm
<1>5. AllHeld'
  BY <1>1 DEF AllHeld
<1> QED
  BY <1>4, <1>5 DEF Calm

LEMMA CalmEditorStep ==
    ASSUME EditorShape, NEW e \in Editors, NEW n, EditorMoves(e, n), signed \subseteq signed',
           gen.pc = "done", UNCHANGED gen,
           \A o \in Editors : AtWork(o) => o = e,
           n.kind \in Kinds[e] => Fresh(n)',
           \A i \in Ids : Held(i)' \/ (n.kind \in Kinds[e] /\ Carries(n, i))
    PROVE  Calm'
<1>1. /\ editor'[e] = n /\ (AtWork(e)' <=> n.kind \in Kinds[e])
      /\ \A o \in Editors : o # e => (AtWork(o)' <=> AtWork(o))
  BY EditorMoved
<1>2. \A o \in Editors : AtWork(o)' => o = e
  BY <1>1
<1>3. GenCalm'
  BY DEF GenCalm
<1>4. Fresh(editor[e])' <=> Fresh(n)'
  BY <1>1 DEF Fresh, KnowsSigned
<1>5. EditorCalm'
  BY <1>1, <1>2, <1>4 DEF EditorCalm
<1>6. AllHeld'
  BY <1>1 DEF AllHeld
<1> QED
  BY <1>3, <1>5, <1>6 DEF Calm

LEMMA GenCalmKeeps ==
    ASSUME ShapeInv, Calm, ~disturbed, ~disturbed', GenStep \/ Crash \/ \E caps \in Capses : Start(caps)
    PROVE  Calm'
<1>1. ASSUME NEW caps \in Capses, Start(caps)
      PROVE  Calm'
  <2>1. /\ gen.pc = "idle" /\ gen'.pc \in {"generating", "done"}
        /\ UNCHANGED <<asset, signed, editor>>
    BY <1>1, StartStep
  <2>2. GenCalm' /\ \A i \in Ids : Held(i) => Held(i)'
    BY <2>1 DEF GenCalm, Held, Waits
  <2> QED
    BY <2>1, <2>2, CalmGenStep
<1>2. CASE GenerateLanguage
  <2>1. /\ gen.pc = "generating" /\ gen'.pc = "generating" /\ UNCHANGED <<asset, signed, editor>>
    BY <1>2, GenerateStep
  <2>2. GenCalm' /\ \A i \in Ids : Held(i) => Held(i)'
    BY <2>1 DEF GenCalm, Held, Waits
  <2> QED
    BY <2>1, <2>2, CalmGenStep
<1>3. CASE LoadSources
  <2>1. /\ gen.pc = "generating" /\ gen'.pc = "inserting" /\ gen'.sources = signed
        /\ UNCHANGED <<asset, signed, editor>>
    BY <1>3, LoadSourcesStep
  <2>2. GenCalm' /\ \A i \in Ids : Held(i) => Held(i)'
    BY <2>1 DEF GenCalm, Held, Waits
  <2> QED
    BY <2>1, <2>2, CalmGenStep
<1>4. CASE AllInserted
  <2>1. /\ gen.pc = "inserting" /\ gen'.pc = "gating" /\ gen'.sources = gen.sources
        /\ UNCHANGED <<asset, signed, editor>>
    BY <1>4, AllInsertedStep
  <2>2. GenCalm' /\ \A i \in Ids : Held(i) => Held(i)'
    BY <2>1 DEF Calm, GenCalm, Held, Waits
  <2> QED
    BY <2>1, <2>2, CalmGenStep
<1>5. ASSUME NEW i \in Ids, Insert(i)
      PROVE  Calm'
  <2>1. /\ gen.pc = "inserting" /\ gen'.pc = "inserting" /\ gen'.sources = gen.sources
        /\ \A j \in Ids : asset'[j] = asset[j] \/ asset'[j].status = "pending"
        /\ UNCHANGED <<signed, editor>>
    BY <1>5, InsertStep
  <2>2. GenCalm' /\ \A j \in Ids : Held(j) => Held(j)'
    BY <2>1 DEF Calm, GenCalm, Held, Waits
  <2> QED
    BY <2>1, <2>2, CalmGenStep
<1>6. ASSUME NEW i \in Ids, GateNew(i)
      PROVE  Calm'
  <2>1. /\ gen.pc = "gating" /\ gen'.pc = gen.pc /\ gen'.sources = gen.sources
        /\ Judges(i, {}, TRUE, gen.sources, FALSE) /\ UNCHANGED <<signed, editor>>
    BY <1>6, GateNewStep
  <2>2. GenCalm' /\ gen.sources = signed
    BY <2>1 DEF Calm, GenCalm
  <2>3. Judges(i, {}, TRUE, signed, FALSE)
    BY <2>1, <2>2
  <2>4. {} \in SUBSET Settled /\ AssetShape
    BY DEF ShapeInv
  <2>5. Held(i)' /\ \A j \in Ids : j # i /\ Held(j) => Held(j)'
    BY <2>1, <2>3, <2>4, JudgesHeld
  <2> QED
    BY <2>1, <2>2, <2>5, CalmGenStep
<1>7. CASE AllGated
  <2>1. /\ gen.pc = "gating" /\ gen' = Ended("done") /\ UNCHANGED <<asset, signed, editor>>
    BY <1>7 DEF AllGated
  <2>2. gen'.pc = "done"
    BY <2>1, EndedStep
  <2>3. GenCalm' /\ \A j \in Ids : Held(j) => Held(j)'
    BY <2>1, <2>2 DEF GenCalm, Held, Waits
  <2> QED
    BY <2>1, <2>3, CalmGenStep
<1>8. CASE Crash
  BY <1>8 DEF Crash
<1> QED
  BY <1>1, <1>2, <1>3, <1>4, <1>5, <1>6, <1>7, <1>8 DEF GenStep

LEMMA BeginCalm ==
    ASSUME ShapeInv, Calm, ~disturbed', NEW e \in Editors, NEW k \in Kinds[e], Begin(e, k)
    PROVE  Calm'
<1>1. /\ ~Generating /\ (\A o \in Editors : ~AtWork(o)) /\ Inserted # {}
  BY DEF Begin
<1>2. PICK n : /\ EditorMoves(e, n) /\ n.kind = k /\ n.at = 1 /\ DOMAIN n.rows = {}
               /\ UNCHANGED <<asset, signed, gen, queued>>
  BY BeginStep
<1>3. gen.pc = "done"
  BY <1>1 DEF Calm, GenCalm, Generating, ShapeInv, GenShape, Phases, Inserted
<1>4. \A i \in Ids : Held(i)
  BY <1>1 DEF Calm, AllHeld
<1>5. \A i \in Ids : Held(i)'
  BY <1>2, <1>4 DEF Held, Waits
<1>6. Fresh(n)'
  BY <1>2 DEF Fresh, KnowsSigned
<1> QED
  BY <1>1, <1>2, <1>3, <1>5, <1>6, CalmEditorStep DEF ShapeInv

LEMMA ReadRowsCalm ==
    ASSUME ShapeInv, Calm, NEW e \in Editors, ReadRows(e)
    PROVE  Calm'
<1>1. /\ AtWork(e)
      /\ \/ editor[e].kind \in {"gateContent", "review"} /\ editor[e].at = 1
         \/ editor[e].kind = "web" /\ editor[e].at = 3
  BY DoingAt DEF ReadRows
<1>2. gen.pc = "done" /\ Fresh(editor[e]) /\ \A o \in Editors : AtWork(o) => o = e
  BY <1>1 DEF Calm, EditorCalm
<1>3. PICK n : /\ EditorMoves(e, n)
               /\ \/ n.kind = "finished" /\ DOMAIN n.rows = {} /\ Wanted(e) = {}
                  \/ /\ n.kind = editor[e].kind /\ n.at = editor[e].at + 1
                     /\ n.sources = editor[e].sources /\ DOMAIN n.rows = Wanted(e)
                     /\ \A i \in Wanted(e) : n.rows[i] = asset[i].claims
               /\ UNCHANGED <<asset, signed, gen, queued, disturbed>>
  BY ReadRowsStep
<1>4. asset' = asset /\ signed' = signed /\ gen' = gen
  BY <1>3
<1>5. \A i \in Ids : asset[i].status = "needs_human" => i \in Wanted(e)
  BY DEF Wanted, Inserted
<1>6. ASSUME n.kind \in Kinds[e]
      PROVE  Fresh(n)'
  <2>1. /\ n.kind = editor[e].kind /\ n.at = editor[e].at + 1 /\ n.sources = editor[e].sources
        /\ DOMAIN n.rows = Wanted(e) /\ \A i \in Wanted(e) : n.rows[i] = asset[i].claims
    BY <1>3, <1>6, NoneAtWork
  <2>2. KnowsSigned(n) => n.sources = signed
    BY <1>1, <1>2, <2>1 DEF KnowsSigned, Fresh
  <2>3. n.kind = "review" /\ n.at = 2 => \A i \in Ids : asset[i].status = "needs_human" => i \in DOMAIN n.rows
    BY <1>5, <2>1
  <2> QED
    BY <1>4, <2>1, <2>2, <2>3 DEF Fresh
<1>7. ASSUME NEW i \in Ids
      PROVE  Held(i)' \/ (n.kind \in Kinds[e] /\ Carries(n, i))
  <2>1. CASE asset[i].status # "needs_human"
    BY <1>4, <2>1 DEF Held
  <2>2. CASE asset[i].status = "needs_human" /\ ~Held(i)
    <3>1. Carries(editor[e], i) /\ i \in Wanted(e)
      BY <1>2, <1>5, <2>2 DEF Calm, AllHeld
    <3>2. editor[e].kind = "web" /\ editor[e].at = 3
      BY <1>1, <3>1 DEF Carries
    <3>3. n.kind = "web" /\ n.at = 4 /\ i \in DOMAIN n.rows
      BY <1>3, <3>1, <3>2
    <3> QED
      BY <1>1, <3>2, <3>3 DEF AtWork, Carries
  <2>3. CASE Held(i)
    BY <1>4, <2>3 DEF Held, Waits
  <2> QED
    BY <2>1, <2>2, <2>3
<1> QED
  BY <1>2, <1>3, <1>4, <1>6, <1>7, CalmEditorStep DEF ShapeInv

LEMMA ReadSourcesCalm ==
    ASSUME ShapeInv, Calm, NEW e \in Editors, ReadSources(e)
    PROVE  Calm'
<1>1. /\ AtWork(e)
      /\ \/ editor[e].kind \in {"gateContent", "web"} /\ editor[e].at = 2
         \/ editor[e].kind = "review" /\ editor[e].at = 3
  BY DoingAt DEF ReadSources
<1>2. gen.pc = "done" /\ Fresh(editor[e]) /\ \A o \in Editors : AtWork(o) => o = e
  BY <1>1 DEF Calm, EditorCalm
<1>3. PICK n : /\ EditorMoves(e, n)
               /\ n.kind = editor[e].kind /\ n.at = editor[e].at + 1
               /\ n.rows = editor[e].rows /\ n.sources = signed
               /\ UNCHANGED <<asset, signed, gen, queued, disturbed>>
  BY ReadSourcesStep
<1>4. asset' = asset /\ signed' = signed /\ gen' = gen
  BY <1>3
<1>5. Fresh(n)'
  <2>1. \A i \in DOMAIN n.rows : n.rows[i] = asset[i].claims
    BY <1>2, <1>3 DEF Fresh
  <2>2. ~(n.kind = "review" /\ n.at = 2)
    BY <1>1, <1>3
  <2> QED
    BY <1>3, <1>4, <2>1, <2>2 DEF Fresh
<1>6. ASSUME NEW i \in Ids
      PROVE  Held(i)' \/ (n.kind \in Kinds[e] /\ Carries(n, i))
  <2>1. CASE Held(i)
    BY <1>4, <2>1 DEF Held, Waits
  <2>2. CASE ~Held(i)
    <3>1. Carries(editor[e], i)
      BY <1>2, <2>2 DEF Calm, AllHeld
    <3>2. Carries(n, i)
      BY <1>1, <1>3, <3>1 DEF Carries
    <3> QED
      BY <1>1, <1>3, <3>2 DEF AtWork
  <2> QED
    BY <2>1, <2>2
<1> QED
  BY <1>2, <1>3, <1>4, <1>5, <1>6, CalmEditorStep DEF ShapeInv

LEMMA SignCalm ==
    ASSUME ShapeInv, Calm, NEW e \in Editors, NEW s \in SourceIds, Sign(e, s)
    PROVE  Calm'
<1>1. /\ AtWork(e)
      /\ \/ editor[e].kind = "review" /\ editor[e].at = 2
         \/ editor[e].kind = "web" /\ editor[e].at = 1
  BY DoingAt DEF Sign
<1>2. gen.pc = "done" /\ Fresh(editor[e]) /\ \A o \in Editors : AtWork(o) => o = e
  BY <1>1 DEF Calm, EditorCalm
<1>3. PICK n : /\ EditorMoves(e, n)
               /\ n.kind = editor[e].kind /\ n.at = editor[e].at + 1
               /\ n.rows = editor[e].rows /\ n.sources = editor[e].sources
               /\ signed' = signed \cup {s} /\ UNCHANGED <<asset, gen, queued, disturbed>>
  BY SignStep
<1>4. asset' = asset /\ signed \subseteq signed' /\ gen' = gen
  BY <1>3
<1>5. Fresh(n)'
  <2>1. \A i \in DOMAIN n.rows : n.rows[i] = asset[i].claims
    BY <1>2, <1>3 DEF Fresh
  <2>2. ~KnowsSigned(n) /\ ~(n.kind = "review" /\ n.at = 2)
    BY <1>1, <1>3 DEF KnowsSigned
  <2> QED
    BY <1>4, <2>1, <2>2 DEF Fresh, KnowsSigned
<1>6. ASSUME NEW i \in Ids
      PROVE  Held(i)' \/ (n.kind \in Kinds[e] /\ Carries(n, i))
  <2>1. CASE asset[i].status # "needs_human"
    BY <1>4, <2>1 DEF Held
  <2>2. CASE asset[i].status = "needs_human"
    <3>1. Carries(n, i)
      BY <1>1, <1>2, <1>3, <2>2 DEF Carries, Fresh
    <3> QED
      BY <1>1, <1>3, <3>1 DEF AtWork
  <2> QED
    BY <2>1, <2>2
<1> QED
  BY <1>2, <1>3, <1>4, <1>5, <1>6, CalmEditorStep DEF ShapeInv

LEMMA RegateCalm ==
    ASSUME ShapeInv, Calm, ~disturbed', NEW e \in Editors, NEW i \in Ids, Regate(e, i)
    PROVE  Calm'
<1>1. /\ AtWork(e)
      /\ \/ editor[e].kind = "gateContent" /\ editor[e].at = 3
         \/ editor[e].kind \in {"review", "web"} /\ editor[e].at = 4
  BY DoingAt DEF Regate
<1>2. gen.pc = "done" /\ Fresh(editor[e]) /\ \A o \in Editors : AtWork(o) => o = e
  BY <1>1 DEF Calm, EditorCalm
<1>3. PICK n :
        /\ EditorMoves(e, n) /\ i \in DOMAIN editor[e].rows
        /\ \/ n.kind = "finished" /\ DOMAIN n.rows = {} /\ DOMAIN editor[e].rows = {i}
           \/ /\ n.kind = editor[e].kind /\ n.at = editor[e].at
              /\ n.sources = editor[e].sources
              /\ DOMAIN n.rows = DOMAIN editor[e].rows \ {i}
              /\ \A j \in DOMAIN n.rows : n.rows[j] = editor[e].rows[j]
        /\ Judges(i, editor[e].rows[i], editor[e].kind = "web", editor[e].sources,
                  editor[e].kind = "gateContent")
        /\ UNCHANGED <<signed, gen, queued>>
  BY RegateStep
<1>4. signed' = signed /\ gen' = gen
  BY <1>3
<1>5. editor[e].sources = signed /\ editor[e].rows[i] = asset[i].claims
  BY <1>1, <1>2, <1>3 DEF Fresh, KnowsSigned
<1>6. PICK C : C = asset[i].claims
  OBVIOUS
<1>7. PICK a \in BOOLEAN : a = (editor[e].kind = "web")
  OBVIOUS
<1>8. PICK keep \in BOOLEAN : keep = (editor[e].kind = "gateContent")
  OBVIOUS
<1>9. AssetShape /\ C \in SUBSET Settled /\ Judges(i, C, a, signed, keep)
  BY <1>3, <1>5, <1>6, <1>7, <1>8 DEF ShapeInv, AssetShape
<1>10. Held(i)' /\ \A j \in Ids : j # i /\ Held(j) => Held(j)'
  BY <1>4, <1>6, <1>9, JudgesHeld
<1>11. \A j \in Ids : j # i => asset'[j] = asset[j]
  BY <1>9, JudgesRow
<1>12. DOMAIN editor[e].rows \subseteq Ids
  BY RowSetOf DEF ShapeInv, EditorShape, EditorType
<1>13. ASSUME n.kind \in Kinds[e]
       PROVE  Fresh(n)'
  <2>1. /\ n.kind = editor[e].kind /\ n.at = editor[e].at /\ n.sources = editor[e].sources
        /\ DOMAIN n.rows = DOMAIN editor[e].rows \ {i}
        /\ \A j \in DOMAIN n.rows : n.rows[j] = editor[e].rows[j]
    BY <1>3, <1>13, NoneAtWork
  <2>2. \A j \in DOMAIN n.rows : n.rows[j] = asset'[j].claims
    BY <1>2, <1>11, <1>12, <2>1 DEF Fresh
  <2>3. ~(n.kind = "review" /\ n.at = 2)
    BY <1>1, <2>1
  <2> QED
    BY <1>4, <1>5, <2>1, <2>2, <2>3 DEF Fresh
<1>14. ASSUME NEW j \in Ids
       PROVE  Held(j)' \/ (n.kind \in Kinds[e] /\ Carries(n, j))
  <2>1. CASE j = i \/ Held(j)
    BY <1>10, <2>1
  <2>2. CASE j # i /\ ~Held(j)
    <3>1. Carries(editor[e], j)
      BY <1>2, <2>2 DEF Calm, AllHeld
    <3>2. editor[e].at = 4 /\ editor[e].kind \in {"review", "web"} /\ j \in DOMAIN editor[e].rows
      BY <1>1, <3>1 DEF Carries
    <3>3. n.kind = editor[e].kind /\ n.at = 4 /\ j \in DOMAIN n.rows
      BY <1>3, <2>2, <3>2
    <3> QED
      BY <1>1, <3>2, <3>3 DEF AtWork, Carries
  <2> QED
    BY <2>1, <2>2
<1> QED
  BY <1>2, <1>3, <1>4, <1>13, <1>14, CalmEditorStep DEF ShapeInv

LEMMA CalmRests ==
    ASSUME Calm, asset' = asset, signed' = signed, gen' = gen, editor' = editor
    PROVE  Calm'
<1>1. GenCalm'
  BY DEF Calm, GenCalm
<1>2. \A e \in Editors : AtWork(e)' <=> AtWork(e)
  BY DEF AtWork
<1>3. \A e \in Editors : Fresh(editor[e]) => Fresh(editor[e])'
  BY DEF Fresh
<1>4. EditorCalm'
  BY <1>2, <1>3 DEF Calm, EditorCalm
<1>5. \A i \in Ids : Held(i) => Held(i)'
  BY DEF Held, Waits
<1>6. \A i \in Ids, e \in Editors : Carries(editor[e], i) => Carries(editor[e], i)'
  BY DEF Carries
<1>7. AllHeld'
  BY <1>2, <1>5, <1>6 DEF Calm, AllHeld
<1> QED
  BY <1>1, <1>4, <1>7 DEF Calm

LEMMA CalmStays ==
    ASSUME PipelineInv, CalmInv, [Next]_vars
    PROVE  CalmInv'
<1> SUFFICES ASSUME ~disturbed'
             PROVE  Calm'
  BY DEF CalmInv
<1>0. ShapeInv
  BY DEF PipelineInv
<1>1. CASE UNCHANGED vars
  <2>1. /\ asset' = asset /\ signed' = signed /\ gen' = gen /\ editor' = editor
        /\ disturbed' = disturbed
    BY <1>1 DEF vars
  <2> QED
    BY <2>1, CalmRests DEF CalmInv
<1>2. CASE QueueForDeploy
  <2>1. /\ asset' = asset /\ signed' = signed /\ gen' = gen /\ editor' = editor
        /\ disturbed' = disturbed
    BY <1>2 DEF QueueForDeploy
  <2> QED
    BY <2>1, CalmRests DEF CalmInv
<1>3. CASE GenStep \/ Crash \/ \E caps \in Capses : Start(caps)
  <2>1. ~disturbed
    <3>1. ASSUME NEW i \in Ids, GateNew(i)
          PROVE  ~disturbed
      BY <1>0, <3>1, GateNewStep DEF Judges
    <3> QED
      BY <1>3, <3>1 DEF GenStep, Crash, Start, GenerateLanguage, LoadSources, AllInserted, AllGated, Insert
  <2> QED
    BY <1>0, <1>3, <2>1, GenCalmKeeps DEF CalmInv
<1>4. ASSUME NEW e \in Editors, EditorStep(e) \/ GiveUp(e) \/ \E k \in Kinds[e] : Begin(e, k)
      PROVE  Calm'
  <2>1. ASSUME NEW k \in Kinds[e], Begin(e, k)
        PROVE  Calm'
    <3>1. ~disturbed
      BY <2>1 DEF Begin
    <3> QED
      BY <1>0, <2>1, <3>1, BeginCalm DEF CalmInv
  <2>2. ASSUME NEW i \in Ids, Regate(e, i)
        PROVE  Calm'
    <3>1. ~disturbed
      BY <1>0, <2>2, RegateStep DEF Judges
    <3> QED
      BY <1>0, <2>2, <3>1, RegateCalm DEF CalmInv
  <2>3. CASE ReadRows(e)
    <3>1. ~disturbed
      BY <2>3 DEF ReadRows
    <3> QED
      BY <1>0, <2>3, <3>1, ReadRowsCalm DEF CalmInv
  <2>4. CASE ReadSources(e)
    <3>1. ~disturbed
      BY <2>4 DEF ReadSources
    <3> QED
      BY <1>0, <2>4, <3>1, ReadSourcesCalm DEF CalmInv
  <2>5. ASSUME NEW s \in SourceIds, Sign(e, s)
        PROVE  Calm'
    <3>1. ~disturbed
      BY <2>5 DEF Sign
    <3> QED
      BY <1>0, <2>5, <3>1, SignCalm DEF CalmInv
  <2>6. CASE GiveUp(e)
    BY <2>6 DEF GiveUp
  <2> QED
    BY <1>4, <2>1, <2>2, <2>3, <2>4, <2>5, <2>6 DEF EditorStep
<1> QED
  BY <1>1, <1>2, <1>3, <1>4 DEF Next

-----------------------------------------------------------------------------
(* Theorems *)

LEMMA ShapeIsTyped ==
    ASSUME ShapeInv
    PROVE  TypeOK
<1>1. asset \in [Ids -> [status : Statuses, claims : SUBSET UNION {asset[i].claims : i \in Ids},
                         blind : BOOLEAN]]
  <2>1. PICK U : U = UNION {asset[i].claims : i \in Ids}
    OBVIOUS
  <2>2. \A i \in Ids : asset[i].claims \in SUBSET U
    BY <2>1
  <2>3. asset \in [Ids -> [status : Statuses, claims : SUBSET U, blind : BOOLEAN]]
    BY <2>2 DEF ShapeInv, AssetShape
  <2> QED
    BY <2>1, <2>3
<1>2. \A i \in Ids : \A c \in asset[i].claims : c.state # "unverified"
  BY DEF ShapeInv, AssetShape, Settled, ClaimsIn
<1>3. \A e \in Editors : DOMAIN editor[e].rows \subseteq Ids
  BY RowSetOf DEF ShapeInv, EditorShape, EditorType
<1> QED
  BY <1>1, <1>2, <1>3 DEF ShapeInv, AssetShape, GenShape, Phases, TypeOK

LEMMA PipelineHolds == Spec => [](PipelineInv /\ CalmInv)
<1>1. Init => PipelineInv /\ CalmInv
  BY PipelineStarts, CalmStarts
<1>2. PipelineInv /\ CalmInv /\ [Next]_vars => PipelineInv' /\ CalmInv'
  BY PipelineStays, CalmStays
<1> QED
  BY <1>1, <1>2, PTL DEF Spec

\* Every row, every process and every signature has its type in every state.
THEOREM PipelineTypes == Spec => []TypeOK
<1>1. PipelineInv => TypeOK
  BY ShapeIsTyped DEF PipelineInv
<1> QED
  BY <1>1, PipelineHolds, PTL

\* What has passed, and what was ever queued, is backed by signed sources in all the text
\* that its gates read.
THEOREM PassedStaysSourced == Spec => []PassedIsSourced
<1>1. PipelineInv => PassedIsSourced
  BY DEF PipelineInv, SourcedInv, Sourced, PassedIsSourced
<1> QED
  BY <1>1, PipelineHolds, PTL

\* Near-duplicates do not both pass, however the judging interleaves with the inserts.
THEOREM TwinsNeverBothPass == Spec => []NoTwinsPass
<1>1. PipelineInv => NoTwinsPass
  BY TwinsInvIsNoTwinsPass DEF PipelineInv
<1> QED
  BY <1>1, PipelineHolds, PTL

\* A run's spend exceeds its ceiling by one call at most.
THEOREM SpendStaysBounded == Spec => []SpendIsBounded
<1>1. PipelineInv => SpendIsBounded
  BY PipelineAssumption DEF PipelineInv, ShapeInv, GenShape, SpendInv, SpendIsBounded
<1> QED
  BY <1>1, PipelineHolds, PTL

\* When all is quiet no asset waits that the signatures there are would pass.
THEOREM SignaturesHeal == Spec => []SignedAssetsHeal
<1>1. ASSUME CalmInv
      PROVE  SignedAssetsHeal
  <2> SUFFICES ASSUME ~disturbed, \A e \in Editors : ~AtWork(e), NEW i \in Ids,
                      asset[i].status = "needs_human", asset[i].claims # {}
               PROVE  RunContentGates(Draft[i], asset[i].claims, Siblings(FALSE), TRUE, Sources,
                                      signed, {}).status # "passed"
    BY DEF SignedAssetsHeal
  <2>1. Held(i)
    BY <1>1 DEF CalmInv, Calm, AllHeld
  <2>2. Waits(i, asset[i].claims, signed)
    BY <2>1 DEF Held
  <2> QED
    BY <2>2, WaitsIsNotPassed
<1>2. CalmInv => SignedAssetsHeal
  BY <1>1
<1> QED
  BY <1>2, PipelineHolds, PTL
==============================================================================
