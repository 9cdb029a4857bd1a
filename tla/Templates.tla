------------------------------ MODULE Templates ------------------------------
(* The question templates of one industry: drafts are generated, reviewed,   *)
(* activated or edited into new versions, and the active one is written to a *)
(* customer's YAML file and from there into the questions that are asked.    *)
(* gen-template is one process; the staff work in the CLI and the console.   *)
EXTENDS QuestionPlan

CONSTANTS
    Staff,            \* concurrent review commands
    Industry, Customer,  \* the industry's own slug, and the customer's
    NoSlug,
    SlugArgs,         \* slugs that an activation may be given
    Requests,         \* totals a generation may ask for
    Answers,          \* language -> the question sequences one call may return
    Prices,           \* what a call may cost
    RunCeiling,
    Edits,            \* contents of edited files, [questions, core]
    MaxVersion,       \* bound on the versions
    MaxGenerations,   \* bound on the runs of gen-template
    MaxCrashes        \* bound on the processes that die

VARIABLES
    rows,       \* version -> its industry_template row, if there is one
    yaml,       \* slug -> the questions of its file
    asked,      \* slug -> its active question rows
    gen,        \* the generation under way
    op,         \* staff -> the command under way
    count,      \* generations and crashes so far
    approved,   \* history: versions somebody has marked reviewed
    given,      \* history: the slug the last activation was given, if any
    disturbed   \* history: an activation died, overlapped, or met a late write
vars == <<rows, yaml, asked, gen, op, count, approved, given, disturbed>>

Versions == 1..MaxVersion
Slugs == {Industry, Customer}
Rows == [status: {"draft", "reviewed", "active"}, questions: SUBSET QuestionIds,
         core: SUBSET QuestionIds, slug: Slugs \cup {NoSlug}, edited: BOOLEAN]
Activating == {"reread", "write", "load", "upsert"}

NoDraft == [questions |-> {}, core |-> {}]
NoGen == [pc |-> "idle", left |-> <<>>, pool |-> <<>>, spent |-> 0, draft |-> NoDraft,
          version |-> 0]
Begun(pc, v) == [pc |-> pc, version |-> v, slug |-> NoSlug, todo |-> {}, core |-> {}]
NoOp == Begun("idle", 0)

TypeOK ==
    /\ DOMAIN rows \in SUBSET Versions /\ \A v \in DOMAIN rows : rows[v] \in Rows
    /\ yaml \in [Slugs -> SUBSET QuestionIds] /\ asked \in [Slugs -> SUBSET QuestionIds]
    /\ gen.pc \in {"idle", "asking", "insert", "advise"}
    /\ gen.left \in Seq(Languages) /\ gen.pool \in Seq(QuestionIds)
    /\ gen.spent \in Nat /\ gen.version \in 0..MaxVersion
    /\ gen.draft \in [questions: SUBSET QuestionIds, core: SUBSET QuestionIds]
    /\ op \in [Staff -> [pc: {"idle", "review", "activate", "insert"} \cup Activating,
                         version: 0..MaxVersion, slug: Slugs \cup {NoSlug},
                         todo: SUBSET QuestionIds, core: SUBSET QuestionIds]]
    /\ count \in [generations: 0..MaxGenerations, crashes: 0..MaxCrashes]
    /\ approved \in SUBSET Versions /\ given \in Slugs \cup {NoSlug}
    /\ disturbed \in BOOLEAN

Init ==
    /\ rows = <<>> /\ yaml = [s \in Slugs |-> {}] /\ asked = [s \in Slugs |-> {}]
    /\ gen = NoGen /\ op = [o \in Staff |-> NoOp]
    /\ count = [generations |-> 0, crashes |-> 0]
    /\ approved = {} /\ given = NoSlug /\ disturbed = FALSE

-----------------------------------------------------------------------------
(* gen-template: diagnose, ask each language, prune, insert, annotate.       *)

NextVersion == Cardinality(DOMAIN rows) + 1

\* A page that cannot be used leaves the industry hint; the brief decides the calls.
Diagnose ==
    /\ gen.pc = "idle" /\ count.generations < MaxGenerations
    /\ count' = [count EXCEPT !.generations = @ + 1]
    /\ \E requested \in Requests :
         gen' = [NoGen EXCEPT !.pc = "asking", !.left = LanguagesAsked(requested)]
    /\ UNCHANGED <<rows, yaml, asked, op, approved, given, disturbed>>

WithinCeiling(spent) == spent <= RunCeiling

\* A call that fails or cannot be parsed returns nothing, and nothing is charged.
CallResults(l) ==
    [questions: Answers[l], usd: Prices] \cup {[questions |-> <<>>, usd |-> 0]}

\* A language whose call fails is passed over; what was paid for is kept.
AskLanguage ==
    /\ gen.pc = "asking" /\ gen.left # <<>>
    /\ \E r \in CallResults(Head(gen.left)) :
         gen' = [gen EXCEPT !.pool = @ \o r.questions, !.spent = @ + r.usd,
                            !.left = IF WithinCeiling(gen.spent + r.usd) THEN Tail(@) ELSE <<>>]
    /\ UNCHANGED <<rows, yaml, asked, op, count, approved, given, disturbed>>

\* The answers are pruned and ranked; then the next version number is read.
ReadVersion ==
    /\ gen.pc = "asking" /\ gen.left = <<>> /\ NextVersion \in Versions
    /\ gen' = [NoGen EXCEPT !.pc = "insert", !.draft = Draft(gen.pool), !.version = NextVersion]
    /\ UNCHANGED <<rows, yaml, asked, op, count, approved, given, disturbed>>

NewRow(d, edited) ==
    [status |-> "draft", questions |-> d.questions, core |-> d.core,
     slug |-> NoSlug, edited |-> edited]

WithRow(v, row) == [w \in DOMAIN rows \cup {v} |-> IF w = v THEN row ELSE rows[w]]

\* The unique index on (industry, version) turns the slower of two writers away.
InsertDraft ==
    /\ gen.pc = "insert"
    /\ IF gen.version \in DOMAIN rows
       THEN rows' = rows /\ gen' = NoGen
       ELSE /\ rows' = WithRow(gen.version, NewRow(gen.draft, FALSE))
            /\ gen' = [NoGen EXCEPT !.pc = "advise", !.version = gen.version]
    /\ UNCHANGED <<yaml, asked, op, count, approved, given, disturbed>>

\* A second statement names the customer the draft was generated for.
UpdateAdvisoryCols ==
    /\ gen.pc = "advise"
    /\ \E s \in {NoSlug, Customer} : rows' = [rows EXCEPT ![gen.version].slug = s]
    /\ disturbed' = (disturbed \/ rows[gen.version].status = "active")
    /\ gen' = NoGen
    /\ UNCHANGED <<yaml, asked, op, count, approved, given>>

-----------------------------------------------------------------------------
(* The staff's commands.                                                     *)

At(o, pc) == op[o].pc = pc
Goes(o, pc) == op' = [op EXCEPT ![o].pc = pc]
Stops(o) == op' = [op EXCEPT ![o] = NoOp]
Carries(o, pc, slug, todo) ==
    op' = [op EXCEPT ![o] = [pc |-> pc, version |-> @.version, slug |-> slug, todo |-> todo,
                             core |-> @.core]]

\* Mutation: the gate accepts a draft nobody has reviewed.
ActivatableDraftToo(status) == status # "active"

Activatable(status) == status = "reviewed"

\* Mutation: the file is named for the industry whatever the row says.
SlugOfIndustry(row) == Industry

\* buildDefaultMaterializeCtx: the customer the row names, else the industry.
DefaultSlug(row) == IF row.slug = NoSlug THEN Industry ELSE row.slug

\* The command reads the row and refuses one in another status. An activation may be
\* given a slug; one given a brand alone takes the slug of the row it has just read.
Command(o) ==
    /\ At(o, "idle")
    /\ \E v \in DOMAIN rows :
         \/ /\ rows[v].status = "draft"
            /\ op' = [op EXCEPT ![o] = Begun("review", v)]
         \/ /\ Activatable(rows[v].status)
            /\ \E s \in SlugArgs \cup {NoSlug, DefaultSlug(rows[v])} :
                 op' = [op EXCEPT ![o] = [Begun("activate", v) EXCEPT !.slug = s]]
    /\ UNCHANGED <<rows, yaml, asked, gen, count, approved, given, disturbed>>

\* The update names the id alone: by now the row may have moved on.
ActionReviewed(o) ==
    LET v == op[o].version
    IN /\ At(o, "review")
       /\ rows' = [rows EXCEPT ![v].status = "reviewed"]
       /\ approved' = approved \cup {v}
       /\ disturbed' = (disturbed \/ rows[v].status = "active")
       /\ Stops(o)
       /\ UNCHANGED <<yaml, asked, gen, count, given>>

Demoted ==
    [w \in DOMAIN rows |-> IF rows[w].status = "active"
                           THEN [rows[w] EXCEPT !.status = "reviewed"] ELSE rows[w]]

\* One transaction: the active version steps back and this one takes its place.
ActionActive(o) ==
    LET v == op[o].version
    IN /\ At(o, "activate")
       /\ rows' = [Demoted EXCEPT ![v].status = "active"]
       /\ given' = op[o].slug
       /\ disturbed' = (disturbed \/ \E p \in Staff \ {o} : op[p].pc \in Activating)
       /\ Goes(o, "reread")
       /\ UNCHANGED <<yaml, asked, gen, count, approved>>

\* Mutation: the two statements run outside the transaction.
RowsAfterDemotion == Demoted

RowsAfterRollback == rows

\* Of two transactions at once the unique index on the active row undoes one.
TransactionFails(o) ==
    /\ At(o, "activate") /\ \E p \in Staff \ {o} : At(p, "reread")
    /\ rows' = RowsAfterRollback
    /\ Stops(o)
    /\ UNCHANGED <<yaml, asked, gen, count, approved, given, disturbed>>

\* materializeCtx ?? buildDefaultMaterializeCtx(activeRow)
ContextSlug(o, row) == IF op[o].slug # NoSlug THEN op[o].slug ELSE DefaultSlug(row)

\* The row is read again: materialize refuses one that is no longer active.
Reread(o) ==
    LET row == rows[op[o].version]
    IN /\ At(o, "reread")
       /\ IF row.status = "active"
          THEN Carries(o, "write", ContextSlug(o, row), row.questions)
          ELSE Stops(o)
       /\ UNCHANGED <<rows, yaml, asked, gen, count, approved, given, disturbed>>

WriteYaml(o) ==
    /\ At(o, "write")
    /\ yaml' = [yaml EXCEPT ![op[o].slug] = op[o].todo]
    /\ Goes(o, "load")
    /\ UNCHANGED <<rows, asked, gen, count, approved, given, disturbed>>

\* loadTemplate reads the file back: another command may have written it since.
LoadYaml(o) ==
    /\ At(o, "load")
    /\ Carries(o, "upsert", op[o].slug, yaml[op[o].slug])
    /\ UNCHANGED <<rows, yaml, asked, gen, count, approved, given, disturbed>>

\* Every question of the file becomes active; none is ever made inactive.
Upserted(before, loaded) == before \cup loaded

UpsertQuestions(o) ==
    /\ At(o, "upsert")
    /\ asked' = [asked EXCEPT ![op[o].slug] = Upserted(@, op[o].todo)]
    /\ Stops(o)
    /\ UNCHANGED <<rows, yaml, gen, count, approved, given, disturbed>>

\* An edit is a new version: it reads the next number, then inserts.
ReadForEdit(o) ==
    /\ At(o, "idle") /\ DOMAIN rows # {} /\ NextVersion \in Versions
    /\ \E e \in Edits :
         op' = [op EXCEPT ![o] = [pc |-> "insert", version |-> NextVersion, slug |-> NoSlug,
                                  todo |-> e.questions, core |-> e.core]]
    /\ UNCHANGED <<rows, yaml, asked, gen, count, approved, given, disturbed>>

\* The new row carries neither the customer's slug nor the brief.
ActionEdit(o) ==
    LET v == op[o].version
        content == [questions |-> op[o].todo, core |-> op[o].core]
    IN /\ At(o, "insert")
       /\ rows' = IF v \in DOMAIN rows THEN rows ELSE WithRow(v, NewRow(content, TRUE))
       /\ Stops(o)
       /\ UNCHANGED <<yaml, asked, gen, count, approved, given, disturbed>>

-----------------------------------------------------------------------------
(* Any process may die between two of its steps.                             *)

Dies == /\ count.crashes < MaxCrashes
        /\ count' = [count EXCEPT !.crashes = @ + 1]

GenDies ==
    /\ Dies /\ gen.pc # "idle" /\ gen' = NoGen
    /\ UNCHANGED <<rows, yaml, asked, op, approved, given, disturbed>>

\* The upserts are statements of their own: some of them may have been made.
StaffDies(o) ==
    /\ Dies /\ ~At(o, "idle") /\ Stops(o)
    /\ \E made \in IF At(o, "upsert") THEN SUBSET op[o].todo ELSE {{}} :
         asked' = IF made = {} THEN asked ELSE [asked EXCEPT ![op[o].slug] = @ \cup made]
    /\ disturbed' = (disturbed \/ op[o].pc \in Activating)
    /\ UNCHANGED <<rows, yaml, gen, approved, given>>

Starts(o) ==
    \/ Command(o) \/ ReadForEdit(o)

Continue(o) ==
    \/ ActionReviewed(o) \/ ActionActive(o) \/ TransactionFails(o) \/ Reread(o)
    \/ WriteYaml(o) \/ LoadYaml(o) \/ UpsertQuestions(o) \/ ActionEdit(o)

GenTemplate ==
    \/ Diagnose \/ AskLanguage \/ ReadVersion \/ InsertDraft \/ UpdateAdvisoryCols

Next ==
    \/ GenTemplate \/ GenDies
    \/ \E o \in Staff : Starts(o) \/ Continue(o) \/ StaffDies(o)

Spec == Init /\ [][Next]_vars

-----------------------------------------------------------------------------
(* Properties                                                                *)

IsActive(v) == v \in DOMAIN rows /\ rows[v].status = "active"

\* Whose file the activation of a version was for: the slug it was given, else the
\* customer the row names, else the industry.
SlugOf(v) ==
    IF given # NoSlug THEN given
    ELSE IF rows[v].slug # NoSlug THEN rows[v].slug ELSE Industry

\* That file holds the version, and it is asked there.
Served(v) ==
    yaml[SlugOf(v)] = rows[v].questions /\ rows[v].questions \subseteq asked[SlugOf(v)]

\* Only questions of a version that somebody has marked reviewed are ever asked
\* (the structural gate of actionActive and materialize).
OnlyReviewedIsAsked ==
    \A s \in Slugs : asked[s] \cup yaml[s]
                       \subseteq UNION {rows[v].questions : v \in approved \cap DOMAIN rows}

\* When no activation is under way, none has died or overlapped another and no late
\* review or advisory update has met one, the active version is in the file its last
\* activation was for and is asked there, whatever slugs others were given before it
\* (reviewTemplate.ts:327, materialize.ts).
ActiveIsServed ==
    ~disturbed /\ (\A o \in Staff : op[o].pc \notin Activating)
      => \A v \in Versions : IsActive(v) => Served(v)

\* A version stops being active only when another takes its place in the same
\* step, or when a review that had read it as a draft is written late.
ActiveIsReplaced ==
    [][\A v \in DOMAIN rows :
         rows[v].status = "active" /\ rows'[v].status # "active"
           => \/ \E w \in DOMAIN rows : rows[w].status # "active" /\ rows'[w].status = "active"
              \/ \E o \in Staff : At(o, "review") /\ op[o].version = v]_vars

\* What is asked of a customer is what the file holds (violated: no question
\* that a new version dropped is made inactive).
FileIsWhatIsAsked ==
    \A s \in Slugs : ~disturbed /\ (\A o \in Staff : op[o].pc \notin Activating)
                       => asked[s] = yaml[s]

-----------------------------------------------------------------------------
(* Why only reviewed questions are asked, and the active version is served.  *)

\* A row keeps its questions, whoever writes to it.
IsRow(r) ==
    /\ r = [status |-> r.status, questions |-> r.questions, core |-> r.core,
             slug |-> r.slug, edited |-> r.edited]
    /\ r.status \in {"draft", "reviewed", "active"} /\ r.slug \in Slugs \cup {NoSlug}

IsOp(p) ==
    p = [pc |-> p.pc, version |-> p.version, slug |-> p.slug, todo |-> p.todo, core |-> p.core]

ShapeInv ==
    /\ rows = [v \in DOMAIN rows |-> rows[v]] /\ \A v \in DOMAIN rows : IsRow(rows[v])
    /\ yaml = [s \in Slugs |-> yaml[s]] /\ asked = [s \in Slugs |-> asked[s]]
    /\ op = [o \in Staff |-> op[o]] /\ \A o \in Staff : IsOp(op[o])
    /\ gen = [pc |-> gen.pc, left |-> gen.left, pool |-> gen.pool, spent |-> gen.spent,
              draft |-> gen.draft, version |-> gen.version]
    /\ gen.pc = "advise" => gen.version \in DOMAIN rows
    /\ disturbed \in BOOLEAN
    /\ \A o \in Staff :
         /\ op[o].pc \in {"review", "activate"} \cup Activating => op[o].version \in DOMAIN rows
         /\ op[o].pc \in {"write", "load", "upsert"} => op[o].slug \in Slugs
         /\ op[o].pc \in {"activate", "reread"} => op[o].slug \in Slugs \cup {NoSlug}
    /\ given \in Slugs \cup {NoSlug}

Reviewed == UNION {rows[v].questions : v \in approved \cap DOMAIN rows}

\* What is on its way into a file or the questions is of a reviewed version.
ReviewInv ==
    /\ \A v \in DOMAIN rows : rows[v].status = "draft" \/ v \in approved
    /\ \A o \in Staff :
         /\ op[o].pc \in {"activate", "reread"} => op[o].version \in approved
         /\ op[o].pc \in {"write", "load", "upsert"} => op[o].todo \subseteq Reviewed
    /\ \A s \in Slugs : asked[s] \cup yaml[s] \subseteq Reviewed

OneActive == \A v, w \in DOMAIN rows : IsActive(v) /\ IsActive(w) => v = w

\* How far the activation of a version has come.
Carried(o) ==
    LET v == op[o].version
    IN /\ IsActive(v)
       /\ op[o].pc = "reread" => op[o].slug = given
       /\ op[o].pc # "reread" => op[o].slug = SlugOf(v) /\ op[o].todo = rows[v].questions
       /\ op[o].pc \in {"load", "upsert"} => yaml[SlugOf(v)] = rows[v].questions

ServedInv ==
    ~disturbed =>
        /\ \A o, p \in Staff : op[o].pc \in Activating /\ op[p].pc \in Activating => o = p
        /\ \A o \in Staff : op[o].pc \in Activating => Carried(o)
        /\ \A v \in DOMAIN rows : IsActive(v) =>
              Served(v) \/ \E o \in Staff : op[o].pc \in Activating

=============================================================================
