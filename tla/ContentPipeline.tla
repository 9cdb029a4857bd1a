--------------------------- MODULE ContentPipeline ---------------------------
(***************************************************************************)
(* One content set, from generation to the deploy queue: gen-content       *)
(* (src/cli/genContent.ts, src/content/multilingualContent.ts,             *)
(* src/content/assembleContentSet.ts), and whoever judges its assets again *)
(* or signs claims meanwhile: gate-content, review-claims and the web      *)
(* console. Rows are read when an editor comes to them and written later.  *)
(***************************************************************************)
EXTENDS ContentGates, SequencesExt

CONSTANTS
    Draft,            \* what the model may write, by asset id
    Sources,          \* the customer's claim_source rows
    Detected_, Template, \* weights of languages: of the brief, of the template
    Capses,           \* caps a run may be started with
    CallPrice, ExtractPrice, EstimatedCell, \* in cents
    RunCeiling,       \* per-run ceiling
    GlobalCap, WeeklyCap, SpentThisWeek,
    SignedBefore,     \* which sources may be signed when the run starts
    Editors, Kinds,   \* editors and, by editor, what it may be
    Faults            \* subset of {"crash", "siblings", "update"}

Ids == DOMAIN Draft
SourceIds == {s.id : s \in Sources}

ASSUME PipelineAssumption ==
    /\ \A i \in Ids : Draft[i].id = i
    /\ CallPrice \in Nat /\ ExtractPrice \in Nat /\ RunCeiling \in Nat
    /\ SignedBefore \subseteq SUBSET SourceIds
    /\ Kinds \in [Editors -> SUBSET {"gateContent", "review", "web"}]
    /\ Faults \subseteq {"crash", "siblings", "update"}

-----------------------------------------------------------------------------
(* What a generation run will ask for, fixed before a token is spent       *)
(* (src/content/contentMatrix.ts, src/content/channelContentMatrix.ts).    *)
(* Languages are numbered in the order of their codes.                     *)

ProseFormats == <<"definition_sentence", "answer_block", "comparison_table", "case_study",
                  "faq_table">>
JsonLdFormats == <<"jsonld_org", "jsonld_faqpage", "jsonld_article">>
FormatPriority == ProseFormats \o JsonLdFormats
LowWeightFormats == {"definition_sentence", "answer_block"}

\* _trimToAssetCap has an order of its own: the table of questions comes before
\* comparison and case study.
TrimOrder == <<"definition_sentence", "answer_block", "faq_table", "comparison_table",
               "case_study", "jsonld_org", "jsonld_faqpage", "jsonld_article">>

ChannelClasses == <<"owned_net", "pr_wire", "directory", "web2", "social", "entity">>

\* CHANNEL_CONTENT_MATRIX
LegalOn(format, channel) ==
    CASE format \in {"definition_sentence", "answer_block"} -> TRUE
      [] format \in {"faq_table", "comparison_table"} -> channel \notin {"social", "entity"}
      [] format = "case_study" -> channel # "entity"
      [] OTHER -> channel = "owned_net"

\* BASE_VARIANTS_PER_CELL * OVER_GEN_FACTOR, rounded up.
Variants == 1..2

\* The template's weight wins; what was only detected is added.
ReconcileLanguages(detected, template) ==
    [l \in DOMAIN detected \cup DOMAIN template |->
        IF l \in DOMAIN template THEN template[l] ELSE detected[l]]

\* sortByWeight, and the first so many of the result.
Heavier(weight, k, l) == weight[k] > weight[l] \/ (weight[k] = weight[l] /\ k < l)

ByWeight(weight) == SetToSortSeq(DOMAIN weight, LAMBDA k, l : Heavier(weight, k, l))

Selected(weight, maxLanguages) ==
    SubSeq(ByWeight(weight), 1, IF maxLanguages < Cardinality(DOMAIN weight)
                                THEN maxLanguages ELSE Cardinality(DOMAIN weight))

\* At least half the weight of the heaviest language.
HighWeight(weight, l, heaviest) == 2 * weight[l] >= weight[heaviest]

\* formatsForTierAndChannel
FormatsFor(high, channel, maxFormats) ==
    {f \in ToSet(SubSeq(FormatPriority, 1, maxFormats)) :
        (high \/ f \in LowWeightFormats) /\ LegalOn(f, channel)}

CellsOf(weight, languages, channels, maxFormats) ==
    UNION {{[language |-> l, channel |-> c, format |-> f, variant |-> v] :
                f \in FormatsFor(HighWeight(weight, l, languages[1]), c, maxFormats),
                v \in Variants} :
           l \in ToSet(languages), c \in channels}

PlaceOf(x, seq) == CHOOSE i \in DOMAIN seq : seq[i] = x

\* The place of a cell in the order in which the trim keeps cells.
Rank(languages, cell) ==
    ((PlaceOf(cell.language, languages) * 10 + PlaceOf(cell.format, TrimOrder)) * 10
        + PlaceOf(cell.channel, ChannelClasses)) * 10 + cell.variant

TrimToAssetCap(languages, cells, cap) ==
    {c \in cells : Cardinality({d \in cells : Rank(languages, d) < Rank(languages, c)}) < cap}

\* buildContentMatrix; caps = [assets, formats, languages, channels].
BuildContentMatrix(detected, template, caps) ==
    LET weight == ReconcileLanguages(detected, template)
        languages == Selected(weight, caps.languages)
    IN IF languages = <<>> THEN {}
       ELSE TrimToAssetCap(languages, CellsOf(weight, languages, caps.channels, caps.formats),
                           caps.assets)

\* The languages that still have cells, in the order they are generated.
LanguagesWithCells(detected, template, caps) ==
    SelectSeq(Selected(ReconcileLanguages(detected, template), caps.languages),
              LAMBDA l : \E c \in BuildContentMatrix(detected, template, caps) : c.language = l)

-----------------------------------------------------------------------------
(* The content set                                                         *)

VARIABLES
    asset,    \* content_asset rows by id, and whether the asset passed unseen by its siblings
    signed,   \* sources with verified_by
    gen,      \* the gen-content process
    editor,   \* the processes that gate again
    queued,   \* assets with a row in content_deploy_queue
    disturbed \* history: two of them were at work at once, or one of them failed

vars == <<asset, signed, gen, editor, queued, disturbed>>

Statuses == {"absent", "pending", "passed", "blocked", "needs_human"}

TypeOK ==
    /\ asset \in [Ids -> [status : Statuses, claims : SUBSET UNION {asset[i].claims : i \in Ids},
                          blind : BOOLEAN]]
    /\ \A i \in Ids : asset[i].status = "absent" => asset[i].claims = {}
    /\ \A i \in Ids : \A c \in asset[i].claims : c.state # "unverified"
    /\ signed \subseteq SourceIds
    /\ gen.pc \in {"idle", "generating", "inserting", "gating", "done", "crashed"}
    /\ gen.made \subseteq Ids /\ gen.todo \subseteq gen.made /\ gen.sources \subseteq SourceIds
    /\ gen.spent \in Nat
    /\ \A e \in Editors : DOMAIN editor[e].rows \subseteq Ids
    /\ queued \subseteq Ids
    /\ disturbed \in BOOLEAN

Inserted == {i \in Ids : asset[i].status # "absent"}

-----------------------------------------------------------------------------
(* Activity                                                                *)

Program(kind) ==
    CASE kind = "gateContent" -> <<"rows", "sources", "regate">>
      [] kind = "review" -> <<"rows", "sign", "sources", "regate">>
      [] kind = "web" -> <<"sign", "sources", "rows", "regate">>

\* Mutation: the console loads the registry before it signs.
SourcesFirst(kind) ==
    CASE kind = "gateContent" -> <<"rows", "sources", "regate">>
      [] kind = "review" -> <<"rows", "sign", "sources", "regate">>
      [] kind = "web" -> <<"sources", "sign", "rows", "regate">>

Steps(kind) == Program(kind)

NotYet == [kind |-> "none", at |-> 0, rows |-> <<>>, sources |-> {}]
Finished == [kind |-> "finished", at |-> 0, rows |-> <<>>, sources |-> {}]

AtWork(e) == editor[e].kind \in Kinds[e]
Doing(e, step) == AtWork(e) /\ Steps(editor[e].kind)[editor[e].at] = step
Generating == gen.pc \in {"generating", "inserting", "gating"}

Init ==
    /\ asset = [i \in Ids |-> [status |-> "absent", claims |-> {}, blind |-> FALSE]]
    /\ signed \in SignedBefore
    /\ gen = [pc |-> "idle", left |-> <<>>, made |-> {}, todo |-> {}, sources |-> {},
              spent |-> 0]
    /\ editor = [e \in Editors |-> NotYet]
    /\ queued = {}
    /\ disturbed = FALSE

-----------------------------------------------------------------------------
(* gen-content                                                             *)

\* The matrix is built and priced; the run is refused when it is empty or dear.
Start(caps) ==
    LET cells == BuildContentMatrix(Detected_, Template, caps)
        estimate == Cardinality(cells) * EstimatedCell
    IN /\ gen.pc = "idle"
       /\ gen' = [gen EXCEPT
            !.pc = IF cells = {} \/ estimate > GlobalCap
                      \/ SpentThisWeek + estimate > WeeklyCap THEN "done" ELSE "generating",
            !.left = LanguagesWithCells(Detected_, Template, caps)]
       /\ UNCHANGED <<asset, signed, editor, queued, disturbed>>

\* What the process knew is gone, what it spent is recorded.
Ended(how) == [gen EXCEPT !.pc = how, !.left = <<>>, !.made = {}, !.todo = {}, !.sources = {}]

WithinCeiling == gen.spent <= RunCeiling

\* generateMultilingualContent: one call per language. What a call has brought is
\* kept even if it crosses the ceiling; a failed call is not recorded.
GenerateLanguage ==
    /\ gen.pc = "generating" /\ gen.left # <<>> /\ WithinCeiling
    /\ \/ \E items \in SUBSET {i \in Ids : Draft[i].language = Head(gen.left)} :
            LET spent == gen.spent + CallPrice IN
            gen' = [gen EXCEPT !.made = @ \cup items, !.spent = spent,
                               !.left = IF spent > RunCeiling THEN <<>> ELSE Tail(@)]
       \/ gen' = [gen EXCEPT !.left = Tail(@)]
    /\ UNCHANGED <<asset, signed, editor, queued, disturbed>>

\* The registry is loaded once, for all gates of the run.
LoadSources ==
    /\ gen.pc = "generating" /\ gen.left = <<>>
    /\ gen' = [gen EXCEPT !.pc = "inserting", !.todo = gen.made, !.sources = signed]
    /\ UNCHANGED <<asset, signed, editor, queued, disturbed>>

\* insertGeneratedItem: a body that fails validation is dropped.
Insert(i) ==
    /\ gen.pc = "inserting" /\ i \in gen.todo
    /\ \/ /\ asset' = [asset EXCEPT ![i].status = "pending"]
          /\ gen' = [gen EXCEPT !.todo = @ \ {i}]
       \/ /\ gen' = [gen EXCEPT !.todo = @ \ {i}, !.made = @ \ {i}]
          /\ UNCHANGED asset
    /\ UNCHANGED <<signed, editor, queued, disturbed>>

AllInserted ==
    /\ gen.pc = "inserting" /\ gen.todo = {}
    /\ gen' = [gen EXCEPT !.pc = "gating", !.todo = gen.made]
    /\ UNCHANGED <<asset, signed, editor, queued, disturbed>>

\* Siblings are all assets of the set; if they cannot be read there are none.
Siblings(blind) == IF blind THEN {} ELSE {Draft[i] : i \in Inserted}

MayBeBlind == IF "siblings" \in Faults THEN BOOLEAN ELSE {FALSE}

\* Mutation: extraction does not look at the ceiling.
NoCeiling == TRUE

MayExtract == WithinCeiling

\* What the paid gate may find, and whether it was paid for: nothing if it need not or
\* may not ask, or if the call failed.
Found(i, mayAsk) ==
    {[claims |-> {}, paid |-> FALSE]} \cup
    IF mayAsk THEN {[claims |-> c, paid |-> TRUE] : c \in Extractions(Prompted(Draft[i]))} ELSE {}

Judgement(i, claims, blind, aliases, registry, found) ==
    RunContentGates(Draft[i], claims, Siblings(blind), aliases, Sources, registry, found.claims)

Asks(i, claims, blind, aliases, registry) ==
    MustExtract(Draft[i], claims, Siblings(blind), aliases, Sources, registry)

Judged(verdict, blind) ==
    [status |-> verdict.status, claims |-> verdict.claims,
     blind |-> blind /\ verdict.status = "passed"]

\* The update of a row may fail; it is logged and the next asset is taken.
Persist(i, new) ==
    \/ asset' = [asset EXCEPT ![i] = new] /\ UNCHANGED disturbed
    \/ "update" \in Faults /\ disturbed' = TRUE /\ UNCHANGED asset

GateNew(i) ==
    /\ gen.pc = "gating" /\ i \in gen.todo
    /\ \E blind \in MayBeBlind :
         \E found \in Found(i, Asks(i, {}, blind, TRUE, gen.sources) /\ MayExtract) :
              /\ gen' = [gen EXCEPT !.todo = @ \ {i},
                            !.spent = @ + IF found.paid THEN ExtractPrice ELSE 0]
              /\ Persist(i, Judged(Judgement(i, {}, blind, TRUE, gen.sources, found), blind))
    /\ UNCHANGED <<signed, editor, queued>>

AllGated ==
    /\ gen.pc = "gating" /\ gen.todo = {}
    /\ gen' = Ended("done")
    /\ UNCHANGED <<asset, signed, editor, queued, disturbed>>

Crash ==
    /\ "crash" \in Faults /\ Generating
    /\ gen' = Ended("crashed") /\ disturbed' = TRUE
    /\ UNCHANGED <<asset, signed, editor, queued>>

-----------------------------------------------------------------------------
(* gate-content, review-claims and the console                             *)

Begin(e, kind) ==
    /\ editor[e] = NotYet /\ Inserted # {}
    /\ editor' = [editor EXCEPT ![e] = [NotYet EXCEPT !.kind = kind, !.at = 1]]
    /\ disturbed' = (disturbed \/ Generating \/ \E o \in Editors : AtWork(o))
    /\ UNCHANGED <<asset, signed, gen, queued>>

Advance(e) == [editor[e] EXCEPT !.at = @ + 1]

\* gate-content takes all rows, the others those that wait for a human. review-claims
\* ends at once when there are none.
ReadRows(e) ==
    /\ Doing(e, "rows")
    /\ LET wanted == {i \in Inserted : editor[e].kind = "gateContent"
                                       \/ asset[i].status = "needs_human"}
       IN editor' = [editor EXCEPT ![e] =
            IF wanted = {} THEN Finished
            ELSE [Advance(e) EXCEPT !.rows = [i \in wanted |-> asset[i].claims]]]
    /\ UNCHANGED <<asset, signed, gen, queued, disturbed>>

ReadSources(e) ==
    /\ Doing(e, "sources")
    /\ editor' = [editor EXCEPT ![e] = [Advance(e) EXCEPT !.sources = signed]]
    /\ UNCHANGED <<asset, signed, gen, queued, disturbed>>

Sign(e, s) ==
    /\ Doing(e, "sign")
    /\ signed' = signed \cup {s}
    /\ editor' = [editor EXCEPT ![e] = Advance(e)]
    /\ UNCHANGED <<asset, gen, queued, disturbed>>

\* Only gate-content asks the model again; only the console knows the brand's names.
\* The claims a row had when it was read are judged; gate-content does not store them.
Without(rows, i) == [j \in DOMAIN rows \ {i} |-> rows[j]]

Left(me, rows) == IF DOMAIN rows = {} THEN Finished ELSE [me EXCEPT !.rows = rows]

Stored(me, i, new) == IF me.kind = "gateContent" THEN [new EXCEPT !.claims = asset[i].claims] ELSE new

Regate(e, i) ==
    LET me == editor[e]
        console == me.kind = "web"
    IN /\ Doing(e, "regate") /\ i \in DOMAIN me.rows
       /\ \E blind \in MayBeBlind :
            \E found \in Found(i, me.kind = "gateContent"
                                   /\ Asks(i, me.rows[i], blind, console, me.sources)) :
              Persist(i, Stored(me, i, Judged(Judgement(i, me.rows[i], blind, console,
                                                        me.sources, found), blind)))
       /\ editor' = [editor EXCEPT ![e] = Left(me, Without(me.rows, i))]
       /\ UNCHANGED <<signed, gen, queued>>

\* An editor dies.
GiveUp(e) ==
    /\ "crash" \in Faults /\ AtWork(e)
    /\ editor' = [editor EXCEPT ![e] = Finished] /\ disturbed' = TRUE
    /\ UNCHANGED <<asset, signed, gen, queued>>

-----------------------------------------------------------------------------
(* The deploy queue                                                        *)

Eligible(i) == asset[i].status = "passed"

QueueForDeploy ==
    /\ \E i \in Ids \ queued : Eligible(i)
    /\ queued' = queued \cup {i \in Ids : Eligible(i)}
    /\ UNCHANGED <<asset, signed, gen, editor, disturbed>>

GenStep ==
    \/ GenerateLanguage \/ LoadSources \/ AllInserted \/ AllGated
    \/ \E i \in Ids : Insert(i) \/ GateNew(i)

EditorStep(e) ==
    \/ ReadRows(e) \/ ReadSources(e)
    \/ \E s \in SourceIds : Sign(e, s)
    \/ \E i \in Ids : Regate(e, i)

Next ==
    \/ \E caps \in Capses : Start(caps)
    \/ GenStep \/ Crash
    \/ \E e \in Editors : EditorStep(e) \/ GiveUp(e) \/ \E k \in Kinds[e] : Begin(e, k)
    \/ QueueForDeploy

Spec == Init /\ [][Next]_vars

-----------------------------------------------------------------------------
(* Properties                                                              *)

\* What has passed, and what was ever queued, has no number in the text that its gates
\* read but one a signed source has, and no superlative but one that a signed source
\* contains or is a part of, whoever judged it and with whatever claims: what a claim once
\* extracted covers later, a signed source covered before (verifiableNumbers.ts,
\* contentGate.ts, assembleContentSet.ts). The metrics of a case study are read by no gate.
PassedIsSourced ==
    \A i \in Ids : asset[i].status = "passed" \/ i \in queued =>
        \A span \in Draft[i].spans :
            /\ span.kind = "numeric" =>
                 \E s \in Sources : s.id \in signed /\ s.payload.value = HitValue(span)
            /\ \A term \in SuperlativesIn(span.text) :
                 \E s \in Sources : s.id \in signed /\ ContainsText(term, s.text.words)

\* Of two near-duplicates that are not copies of one wire release at most one passes,
\* however the judging interleaves with the inserts, unless the siblings of one of them
\* could not be read (phrasingVariation.ts, assembleContentSet.ts).
NoTwinsPass ==
    \A i, j \in Ids :
        LET d == Draft[i]
            o == Draft[j]
        IN /\ i # j /\ d.language = o.language /\ d.text = o.text
           /\ ~(d.channel = "pr_wire" /\ o.channel = "pr_wire" /\ d.phrasing = o.phrasing)
           /\ asset[i].status = "passed" /\ asset[j].status = "passed"
           => asset[i].blind \/ asset[j].blind

\* What a run records as spent exceeds its ceiling by one call at most, generation
\* and extraction together (qgenBudget.ts, multilingualContent.ts, claimExtract.ts).
SpendIsBounded ==
    gen.spent < RunCeiling + (IF CallPrice < ExtractPrice THEN ExtractPrice ELSE CallPrice) + 1

\* When all is quiet, and nothing failed or overlapped before, no asset whose claims are
\* stored waits for a human although it would pass with the signatures there are
\* (approvals.ts, reviewClaims.ts). What gate-content extracts it does not store.
SignedAssetsHeal ==
    (~disturbed /\ ~Generating /\ \A e \in Editors : ~AtWork(e)) =>
        \A i \in Ids : asset[i].status = "needs_human" /\ asset[i].claims # {} =>
            RunContentGates(Draft[i], asset[i].claims, Siblings(FALSE), TRUE, Sources, signed,
                            {}).status # "passed"

\* A text nobody could extract claims from is not passed unread, whatever it says
\* (claimVerification.ts: the gate fails closed to needs_human).
UnextractedIsHeld ==
    \A i \in Ids : asset[i].status = "passed" => asset[i].claims # {} \/ Draft[i].spans = {}
=============================================================================
