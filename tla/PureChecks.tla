------------------------------ MODULE PureChecks ------------------------------
(***************************************************************************)
(* The pure algorithms of the code against what they promise, over all     *)
(* inputs of a small size. Each assumption is evaluated by TLC at the      *)
(* start of the run whose module extends this one.                         *)
(***************************************************************************)
EXTENDS Integers, Sequences, FiniteSets, SequencesExt

Sampling == INSTANCE SamplingPlan WITH ESCALATION_JUDGE_MODEL <- 4
Judging == INSTANCE Judge WITH Brand <- 2, Competitors <- {1, 3}, HalfWindow <- 1
Surface == INSTANCE Surfaces
Provider == INSTANCE Providers
Instrument == INSTANCE Instruments
Intaking == INSTANCE Intake
Building == INSTANCE ContentBuild
Publishing == INSTANCE Pages
Entry == INSTANCE Access
Record == INSTANCE Records WITH Customers <- {"c", "d"}, Words <- {"x", "y"}, Dates <- 1..2

-----------------------------------------------------------------------------
(* SamplingPlan *)

\* Two chat models, a surface, one that is off and the escalation judge.
SomeModels ==
    {[id |-> i, cheap |-> i = 2, enabled |-> i # 5, chat |-> i # 3] : i \in 1..5}
SomeQuestions == {[id |-> 1, tier |-> "core"], [id |-> 2, tier |-> "longtail"]}
SomeLanguages ==
    {{[code |-> i, weight |-> w[i]] : i \in 1..3} : w \in [1..3 -> {50, 100, 200}]}
SomeBudgets == [maxModels: 0..3, maxLanguages: 0..3, maxSamples: {1}]

PlanOf(languages, budget, baseline) ==
    Sampling!WorkUnits(SomeQuestions, SomeModels, languages, budget, baseline)

\* What is planned is cheap where it must be, a smaller cap trims and nothing else,
\* and of the languages the lightest are trimmed.
ASSUME PlansAreTrimmed ==
    \A languages \in SomeLanguages, b \in SomeBudgets, baseline \in BOOLEAN :
        LET plan == PlanOf(languages, b, baseline)
            wider == {c \in SomeBudgets : c.maxModels >= b.maxModels
                                          /\ c.maxLanguages >= b.maxLanguages}
        IN /\ Sampling!CheapWhereItMustBe(plan, SomeQuestions, SomeModels, baseline)
           /\ \A c \in wider : (c.maxModels + c.maxLanguages = b.maxModels + b.maxLanguages + 1)
                  => Sampling!TrimsOnly(plan, PlanOf(languages, c, baseline))
           /\ Sampling!HeaviestKept(languages,
                  Sampling!SelectedLanguages(languages, b.maxLanguages, baseline))

\* An operating plan keeps the caps on models and languages; the cap on samples, and
\* a baseline's cap on languages, are not kept: the third conjunct is the disagreement.
ASSUME ShapeCapsOfPlans ==
    \A languages \in SomeLanguages, b \in SomeBudgets :
        LET generous == [b EXCEPT !.maxSamples = 5] IN
        /\ Sampling!KeepsShapeCaps(PlanOf(languages, b, FALSE), generous)
        /\ Sampling!KeepsShapeCaps(PlanOf(languages, b, TRUE),
                                   [generous EXCEPT !.maxLanguages = 3])
        /\ (b.maxModels > 0 /\ b.maxLanguages > 0)
               => ~Sampling!KeepsShapeCaps(PlanOf(languages, b, FALSE), b)
-----------------------------------------------------------------------------
(* Judge *)

Word(is, of, whole, quoted) == [is |-> is, of |-> of, whole |-> whole, quoted |-> quoted]

\* The brand is 2. A name inside a longer word, a name two entities share, a quoted one,
\* links with and without credit, and the words the scans look for.
SomeWords ==
    {Word("name", {2}, TRUE, FALSE), Word("name", {2}, FALSE, FALSE),
     Word("name", {2}, TRUE, TRUE), Word("name", {1, 2}, TRUE, FALSE),
     Word("name", {3}, TRUE, FALSE), Word("markdown", {2}, TRUE, FALSE),
     Word("url", {2}, FALSE, FALSE)}
    \cup {Word(w, {}, TRUE, FALSE) : w \in {"verb", "not", "but", "itself", "header"}}

TextsOf(n) == UNION {[1..k -> SomeWords] : k \in 0..n}
AnswersOf(n) == {<<[item |-> item, words |-> w]>> : item \in BOOLEAN, w \in TextsOf(n)}
ShortAnswers == AnswersOf(2)
                \cup {<<[item |-> FALSE, words |-> <<v>>], [item |-> TRUE, words |-> w]>> :
                         v \in SomeWords, w \in TextsOf(1)}

Ready == [status |-> "ready", capabilities |-> {"generate", "judge", "structured"}]
Stub == [status |-> "stub", capabilities |-> {"generate"}]

\* Evidence that points at the first words or past the end, quoted or not.
SomeSpans == {[from |-> f, to |-> t, quote |-> "slice"] : f \in {1, 2}, t \in {1, 4}}
             \cup {Judging!NoSpan}
SomeVerdicts ==
    {[Judging!NoVerdict EXCEPT !.mentioned = m, !.rank = 3, !.evidence = s, !.cites = c] :
        m \in BOOLEAN, s \in SomeSpans, c \in BOOLEAN}
SomeOutcomes ==
    {Judging!Outcome("verdict", v) : v \in SomeVerdicts}
    \cup {Judging!Outcome(k, Judging!NoVerdict) : k \in {"PARSE_FAILED", "RATE_LIMITED"}}

\* No judge can make a mention up, an answer that names the brand counts unless the judge
\* denies it, and ranks are one for each entity that is named.
ASSUME JudgmentsAreGrounded ==
    \A answer \in ShortAnswers, o \in SomeOutcomes :
        LET row == Judging!StoredJudgment("ok", answer, Ready, o)
        IN /\ Judging!MentionsAreGrounded(answer, row)
           /\ Judging!RanksAgree(answer, row)
           /\ Judging!NamedIsCounted(answer, row, o.ok /\ ~o.verdict.mentioned)

\* Without a judge the scans alone decide; what they credit is a mention.
ASSUME ScansAreMentions ==
    \A answer \in ShortAnswers \cup AnswersOf(3) :
        LET row == Judging!StoredJudgment("ok", answer, Stub, Judging!Outcome("verdict", Judging!NoVerdict))
        IN /\ Judging!ChannelsAreMentions(answer)
           /\ Judging!MentionsAreGrounded(answer, row)
           /\ Judging!NamedIsCounted(answer, row, FALSE)
           /\ row.usage = 0

BrandAlone == <<[item |-> FALSE, words |-> <<Word("name", {2}, TRUE, FALSE)>>]>>

\* The two disagreements. An empty quote around a slice that does name the brand costs
\* the mention: it is neither looked up again nor left to the fallback. And a judgment
\* that escalates never reports its first call, nor any call when the second one throws.
ASSUME JudgeDisagreements ==
    /\ LET quoteless == [Judging!NoVerdict EXCEPT !.mentioned = TRUE,
                            !.evidence = [from |-> 1, to |-> 1, quote |-> "empty"]]
           row == Judging!StoredJudgment("ok", BrandAlone, Ready,
                                         Judging!Outcome("verdict", quoteless))
       IN ~Judging!NamedIsCounted(BrandAlone, row, FALSE)
    /\ \A first, second \in SomeOutcomes, escalates \in BOOLEAN :
           LET calls == Judging!JudgeCalls(first, second, escalates)
               row == Judging!StoredJudgment("ok", BrandAlone, Ready, calls.result)
           IN Judging!SpendIsLedgered(row, calls.billed)
              <=> ~(escalates /\ first.code = "PARSE_FAILED")
-----------------------------------------------------------------------------
(* Surfaces *)

Armed == [configured |-> TRUE]
Unarmed == [configured |-> FALSE]

SomeBlocks == {[type |-> t, items |-> i, text |-> x] :
                  t \in {"text", "list", "image", "nil"}, i \in {<<>>, <<"prose", "">>},
                  x \in {<<>>, <<"prose">>}}
SearchResponses ==
    [object: BOOLEAN, found: {"absent", "junk", "block"},
     blocks: {<<>>} \cup {<<b>> : b \in SomeBlocks} \cup {<<b, c>> : b, c \in SomeBlocks},
     flat: {<<>>, <<"prose">>}, references: {<<>>, <<"", "url">>, <<"nil">>}]

SomeHtml == {<<>>, <<[text |-> "", url |-> ""]>>, <<[text |-> "prose", url |-> ""]>>,
             <<[text |-> "prose", url |-> ""], [text |-> "title", url |-> "url"]>>}
NoPage == [noAnswerFound |-> TRUE, answerBlock |-> <<>>, answerHtml |-> <<>>, citations |-> <<>>]
Pages ==
    {[kind |-> "snapshot", snap |-> p, container |-> <<>>] :
        p \in [noAnswerFound: BOOLEAN, answerBlock: {<<>>, <<"prose">>}, answerHtml: SomeHtml,
               citations: {<<>>, <<"url", "">>}]}
    \cup {[kind |-> "html", snap |-> NoPage, container |-> c] : c \in {<<>>} \cup {<<h>> : h \in SomeHtml}}
    \cup {[kind |-> "other", snap |-> NoPage, container |-> <<>>]}

RawOf(s) == IF s \in Surface!SERP_ONLY_SURFACES THEN SearchResponses ELSE Pages
Answered(raw) == [ok |-> TRUE, raw |-> raw]

\* The tables agree, the registry is built as they allow, and today, when no client is
\* written yet, no run asks a surface.
ASSUME SurfacesComply ==
    /\ Surface!TablesAgree
    /\ \A serp, rpa \in {Armed, Unarmed} :
           Surface!RegistryComplies(Surface!BuildSurfaceRegistry(serp, rpa))
    /\ \A env \in {"key", "none"}, kind \in {"baseline", "operating"} :
           Surface!WireSurfaces(Surface!BuildSurfaceRegistry(Surface!MakeSerpClient(env),
                                                             Surface!MakeRpaRunner(env)), kind) = {}

\* Whatever comes back, an answer has prose and its market's flag.
ASSUME SurfaceAnswersAreSound ==
    \A s \in Surface!SurfaceIds : \A raw \in RawOf(s) :
        Surface!AnswersAreSound(s, Surface!Generate(s, Armed, Answered(raw)))

\* Three sentences of the comments fail: a search parser throws on a null entry, the
\* title of a link is judged as prose when a page comes as HTML, and a search call whose
\* response has no answer is paid and not recorded. The first happens to no page, the
\* second to no search response.
ASSUME SurfaceDisagreements ==
    /\ \A s \in Surface!SurfaceIds :
          LET serp == s \in Surface!SERP_ONLY_SURFACES IN
          /\ serp <=> \E raw \in RawOf(s) : ~Surface!NeverThrows(Surface!Parse(s, raw))
          /\ ~serp <=> \E raw \in RawOf(s) :
                 ~Surface!OnlyProseIsJudged(Surface!Generate(s, Armed, Answered(raw)))
    /\ \E raw \in SearchResponses : ~Surface!SpendIsMetered("googleAio", Armed, Answered(raw))
-----------------------------------------------------------------------------
(* Providers *)

Phrases == {"rate limit", "glued rate limited", "glued exhausted", "timeout", "auth"}
Outcomes(kinds) == [kind: kinds, text: {"valid", "invalid", "garbled", ""}, message: SUBSET Phrases]
HttpKinds == {"answer", "http429", "http5xx", "http4xx", "aborted", "network"}
SomeEnvs == [GEMINI_API_KEYS: {<<>>, <<"">>, <<"k", "", "k">>},
             keys: SUBSET {"gemini", "perplexity", "anthropic"}]

\* Whatever a provider does, its adapter returns a result callers understand, except that
\* an OpenAI-compatible call that times out is not called a TIMEOUT: its code is 20.
ASSUME ResultsAreSound ==
    /\ \A k \in 0..1, o \in Outcomes({"answer", "error"}) :
          /\ Provider!ResultIsSound(k, o, Provider!GeminiGenerate(k, o))
          /\ Provider!ResultIsSound(k, o, Provider!GeminiStructured(k, o))
          /\ k = 0 => Provider!Embed(k, 2, <<"v", "">>) = <<>>
    /\ \A k \in 0..1, o \in Outcomes(HttpKinds) :
          Provider!ResultIsSound(k, o, Provider!CompatGenerate(k, o))
              <=> ~(k = 1 /\ o.kind = "aborted")

\* The engines agree but for an answer without text, which one of them takes for an answer
\* that names nobody. What is retried is what is a rate limit, up to the glued phrases.
ASSUME EnginesAgree ==
    /\ \A o \in Outcomes({"answer"}) : Provider!Mirrors(o) <=> o.text # ""
    /\ \A m \in SUBSET Phrases :
          (Provider!IsRetried(m) <=> Provider!ClassifyGeminiError(m) = "RATE_LIMITED")
              <=> ~\/ "glued rate limited" \in m /\ ~Provider!IsRetried(m)
                   \/ "glued exhausted" \in m
                      /\ m \cap {"rate limit", "glued rate limited"} = {}

SomeSurfaces == [googleAio: {"ready", "NOT_CONFIGURED"}, copilot: {"ready"}]

\* The judge is never a stub; it is a surface when JUDGE_PROVIDER names one that is ready.
\* Calls of perplexity are paid, and planned as free.
ASSUME JudgesAndPrices ==
    /\ \A e \in SomeEnvs, s \in SomeSurfaces,
          p \in {"gemini", "perplexity", "anthropic", "unknown", "googleAio"} :
          Provider!JudgeIsReal(e, s, p) <=> ~(p = "googleAio" /\ s.googleAio = "ready")
    /\ Provider!CompatUsd("perplexity", 1, 1) > 0 /\ Provider!PriceUsd("sonar", 1, 1) = 0

SomeChunks == [wrapped: BOOLEAN, host: {"a", ""}, titleDomain: {"b", ""}]
SomeTraces == [chunks: UNION {[1..n -> SomeChunks] : n \in 0..2}, supports: SUBSET {{1}, {2, 3}}]

\* The share that is grounded grows with its percentage, and the stages are exact.
ASSUME GroundingIsExact ==
    /\ \A h \in {0, 1, 49, 50, 99}, all \in BOOLEAN, p \in {-1, 0, 1, 50, 100, 999} :
          Provider!GroundingGrows(h, all, p)
    /\ \A t \in SomeTraces, target \in {"a", "b"}, m \in BOOLEAN, w \in {-1, 5, 6} :
          Provider!StagesAreExact(Provider!ExtractGroundingTrace(t), target, m, w)
-----------------------------------------------------------------------------
(* Instruments *)

RobotsLine(is, value) == [is |-> is, value |-> value]
Agents == {RobotsLine("agent", v) : v \in {<<"*">>, <<"G">>, <<"G", "P">>}}
Rules == {RobotsLine("allow", <<"/">>), RobotsLine("disallow", <<"/">>),
          RobotsLine("disallow", <<"/", "*", "a", "$">>)}
Robots(lines, n) == UNION {[1..k -> lines] : k \in 1..n}
Obeys(lines) == \A path \in {<<"/">>, <<"/", "b", "a">>} :
    Instrument!IsAllowed(Instrument!ParseRobots(lines), <<"G", "P", "T">>, path)
        = Instrument!MeansWhatItSays(lines, <<"G", "P", "T">>, path)

\* A robots.txt of agents and rules is obeyed.
ASSUME RobotsAreObeyed == \A lines \in Robots(Agents \cup Rules, 4) : Obeys(lines)

\* One with a blank line between an agent and its rules, or with an empty disallow before
\* the next agent, is not: the one loses its rules, the other takes the next agent's.
ASSUME RobotsDisagreements ==
    /\ ~Obeys(<<RobotsLine("agent", <<"G">>), RobotsLine("blank", <<>>),
                RobotsLine("disallow", <<"/">>)>>)
    /\ ~Obeys(<<RobotsLine("agent", <<"G">>), RobotsLine("disallow", <<>>),
                RobotsLine("agent", <<"*">>), RobotsLine("disallow", <<"/">>)>>)

SomeRobots == {Instrument!NULL, <<<<>>>>,
               <<<<RobotsLine("agent", <<"*">>), RobotsLine("disallow", <<"/">>)>>>>}
SomeSignals == [cited: SUBSET {1, 2}, fetched: SUBSET {1, 2}, mentioned: BOOLEAN, model: {1, 2}]
ListsOf(S, n) == UNION {[1..k -> S] : k \in 0..n}
Watches == [since: {2}, cited: {-1, 1, 2, 4}, asOf: {1, 3, 4}]

\* Accessibility, sources, stability, times to the first citation and agreement.
ASSUME InstrumentsAreSound ==
    /\ \A domains \in [1..3 -> SomeRobots] :
          Instrument!AccessAddsUp(domains, {<<"G", "P">>, <<"C">>})
    /\ \A signals \in ListsOf(SomeSignals, 2) : Instrument!SourceRatesAreShares(signals)
    /\ \A a \in ListsOf({"x", "y", "z"}, 3), b \in ListsOf({"x", "y", "z"}, 3) :
          Instrument!StabilityIsSymmetric(a, b)
    /\ \A watches \in ListsOf(Watches, 3) : Instrument!TtfcIsOrdered(watches)
    /\ \A a \in ListsOf(BOOLEAN, 4), b \in ListsOf(BOOLEAN, 4) :
          Instrument!AgreementIsBounded(a, b)

SomeCells == {c \in [hits: 0..2, n: 0..2] : Instrument!CellIsValid(c)}
SomePositions == {Instrument!FirstCitationRank(cited, "x") : cited \in ListsOf({"x", "y"}, 2)}

\* Drift, pooling, correction, ranks and overlap.
ASSUME CorrectionsAreSound ==
    /\ \A cells \in [{"tb", "ta", "hb", "ha"} -> SomeCells] :
          Instrument!DriftIsTakenOut(cells, 2)
    /\ \A n \in 1..4, g \in {<<0, 1>>, <<1, 3>>, <<1, 1>>} : \A hits \in 0..n :
          Instrument!PoolingShrinks(hits, n, g)
    /\ \A p \in {0, 20, 50, 100}, q \in {0, 30, 100}, se \in {0, 50, 90, 100},
          sp \in {0, 50, 60, 100} : Instrument!CorrectionIsMonotone(p, q, se, sp)
    /\ \A cited \in ListsOf({"x", "y", ""}, 4), target \in {"x", ""} :
          Instrument!RanksIgnoreRepeats(cited, target)
    /\ \A counts \in ListsOf(0..2, 4) : Instrument!GiniIsOfTheBag(counts)
    /\ \A signals \in ListsOf(SomeSignals, 2) : Instrument!OverlapIsSymmetric(signals)
    /\ \A positions \in ListsOf(SomePositions, 3) :
          LET a == Instrument!AggregateCitationRanks(positions)
          IN Instrument!AtMost(a.citedShare, <<1, 1>>) /\ a.medianRank <= a.p75Rank
-----------------------------------------------------------------------------
(* Intake *)

\* Five pages: two of the brand, one of another domain, one with a private address and
\* one that may be anything.
WebPage(host, addresses, answers, to) ==
    [scheme |-> "https", host |-> host, addresses |-> addresses, answers |-> answers, to |-> to]
Public == {<<1, 1>>}
Target == {<<>>} \cup {<<u>> : u \in 1..5}
Webs ==
    {<<WebPage(<<"b", "com">>, Public, "redirect", t1),
       WebPage(<<"www", "b", "com">>, Public, "redirect", t2),
       WebPage(<<"b", "com">>, a3, k3, <<>>),
       WebPage(<<"x", "com">>, Public, "page", <<>>),
       [WebPage(<<"b", "com">>, Public, k5, <<1>>) EXCEPT !.scheme = s5]>> :
          t1 \in Target, t2 \in Target, a3 \in {Public, {}, Public \cup {<<10, 0>>}},
          k3 \in {"page", "hangs"}, k5 \in {"page", "redirect"}, s5 \in {"http", "ftp"}}

\* A fetch follows the redirects as long as each hop is a public page of the same domain, and
\* returns the last one; no inner address is ever asked.
ASSUME FetchesStayHome ==
    /\ \A web \in Webs, url \in {1, 5} : Intaking!FetchIsTheChain(web, url)
    /\ \A a \in {0, 1, 10, 100, 127, 128, 169, 172, 192}, b \in 0..255 :
          Intaking!IsBlockedIPv4(<<a, b>>) <=> Intaking!IsReserved(a, b)

\* robots.txt is read twice in this code, and differently: to the fetch an empty disallow
\* forbids all, and an allow allows nothing.
ASSUME RobotsAreReadTwice ==
    LET noted(lines) == Intaking!CheckRobotsTxt(lines, <<"/", "a">>) # <<>>
        allowed(lines) ==
            Instrument!IsAllowed(Instrument!ParseRobots(lines), <<"G", "P">>, <<"/", "a">>)
        agent == RobotsLine("agent", <<"*">>)
    IN /\ \A lines \in Robots({agent, RobotsLine("disallow", <<"/", "b">>),
                               RobotsLine("disallow", <<"/", "a">>)}, 4) :
             noted(lines) = ~allowed(lines) \/ Cardinality({i \in DOMAIN lines : lines[i] = agent}) > 1
       /\ \A rule \in {RobotsLine("disallow", <<>>), RobotsLine("allow", <<"/", "a">>)} :
             LET lines == <<agent, rule, RobotsLine("disallow", <<>>)>>
             IN noted(lines) /\ allowed(lines)

Tag(is, of) == [is |-> is, of |-> of]
Wrapped(tag, inside) == <<Tag("open", tag)>> \o inside \o <<Tag("close", tag)>>
Texts == {<<>>, <<Tag("text", "t")>>, <<Tag("text", "u")>>}
PageBlocks ==
    Texts \cup {Wrapped(tag, t) : tag \in {"nav", "aside", "h1", "title"}, t \in Texts}
          \cup {Wrapped("header", Wrapped("nav", t) \o u) : t \in Texts, u \in Texts}
IntakePages == {a \o b \o c : a \in PageBlocks, b \in PageBlocks, c \in PageBlocks}

\* Noise is stripped where no tag stands within another of its name; of a navigation in a
\* navigation the end remains ("Handles nested tags via repeated passes").
ASSUME PagesAreRead ==
    /\ \A page \in IntakePages : Intaking!BodyIsProse(page)
    /\ ~Intaking!BodyIsProse(Wrapped("nav", Wrapped("nav", <<>>) \o <<Tag("text", "t")>>))
    /\ \A page \in {<<>>, <<<<>>>>} \cup {<<<<b>>>> : b \in PageBlocks}, industry \in BOOLEAN,
          provider \in {"ok", "throws", "NOT_CONFIGURED", "RATE_LIMIT"}, paid \in BOOLEAN :
          Intaking!DiagnosisIsHonest(page, industry, provider, paid)

\* A page that could not be fetched, and no industry: the model is asked all the same.
ASSUME DiagnosisOfNothing == Intaking!Diagnose(<<<<>>>>, FALSE, "ok", TRUE).ok

SomeItems == [intent: {"brand", "huh"}, stage: {"decision", "huh"}, text: {"", "q"}]
IntakeCells == {[intent |-> i, stage |-> s, tier |-> t] :
                i \in {"brand", "category"}, s \in {"awareness", "decision"}, t \in {"core", "secondary"}}
IntakeQuestions == [lang: {"en", "ko"}, intent: {"brand"}, stage: {"decision"}, tier: {"core", "longtail"},
              text: {"q"}]
Briefs == [brand: {"b"}, weights: [{"en", "ko"} -> {50, 100}]]

\* A question that is kept fits the matrix; a materialised template can be loaded and asks
\* all of them.
ASSUME DraftsBecomeTemplates ==
    /\ \A cells \in ListsOf(IntakeCells, 2), items \in ListsOf(SomeItems, 2), ok \in BOOLEAN :
          Intaking!DraftsFitTheMatrix("en", cells, [ok |-> ok, items |-> items, usd |-> 1])
    /\ \A questions \in ListsOf(IntakeQuestions, 3), brief \in Briefs :
          Intaking!MaterializedIsWhole(questions, brief)

\* The snapshot has no weights: only a brief whose languages weigh alike survives.
ASSUME WeightsAreLost ==
    \A questions \in ListsOf(IntakeQuestions, 2) \ {<<>>}, brief \in Briefs :
        Intaking!WeightsSurvive(questions, brief)
            <=> \A i \in DOMAIN questions : brief.weights[questions[i].lang] = 100

-----------------------------------------------------------------------------
(* ContentBuild *)

BodyOf(type, text, rows) == [type |-> type, text |-> text, rows |-> rows, columns |-> 2]
ItemOf(language, format, body) ==
    [language |-> language, format |-> format, channel |-> "web2", group |-> "g", body |-> body]
WrittenItems ==
    {ItemOf(l, f, b) : l \in {"en", "ko"}, f \in {"answer_block", "jsonld_org"},
                       b \in {BodyOf("answer_block", <<"w">>, 0), BodyOf("answer_block", <<" ">>, 0),
                              BodyOf("faq", <<>>, 2), BodyOf("faq", <<>>, 3)}}
ContentCalls == {[kind |-> k, usd |-> 1, items |-> <<>>] :
              k \in {"NOT_CONFIGURED", "PARSE_FAILED", "RATE_LIMITED", "throws"}}
         \cup {[kind |-> "ok", usd |-> 1, items |-> i] : i \in {<<>>} \cup {<<j>> : j \in WrittenItems}}
AskedCells == ListsOf({"answer_block", "faq_table", "jsonld_org"}, 3)

\* As many words, or characters, with a blank after each and a mark at the end.
Prose(n) == [i \in 1..(2 * n) |-> IF i % 2 = 1 THEN "w" ELSE IF i = 2 * n THEN "p" ELSE " "]
BandEdges == UNION {{Building!Band(s).low - 1, Building!Band(s).low, Building!Band(s).high,
                     Building!Band(s).high + 1} : s \in {"en", "ja", "zh", "ko"}}

\* A language is answered when one of its calls is, every call is paid once, and a provider
\* that is not configured ends it.
ASSUME LanguagesAreAnswered ==
    \A cells \in AskedCells, a \in ContentCalls, b \in ContentCalls :
        Building!LanguageIsAnswered("en", cells, <<a, b>>)

\* The code that is returned is that of the last failure, not of the first; the format a
\* model writes need not be one that was asked for, nor fit the body; of a text no more is
\* counted than what shows.
ASSUME GenerationDisagreements ==
    LET failed(k) == [kind |-> k, usd |-> 0, items |-> <<>>]
        odd == ItemOf("en", "jsonld_org", BodyOf("answer_block", <<"w">>, 0))
        cells == <<"answer_block", "faq_table">>
    IN /\ ~Building!FirstCodeIsReturned(cells, <<failed("PARSE_FAILED"), failed("RATE_LIMITED")>>)
       /\ ~Building!MatchesACell(cells, <<[kind |-> "ok", usd |-> 1, items |-> <<odd>>],
                                          failed("RATE_LIMITED")>>)
       /\ ~Building!BodyFitsFormat(odd)

\* A body that is accepted has the length its script asks for, and its disclosure where its
\* channel asks for one.
ASSUME InsertedAreInBand ==
    /\ \A n \in BandEdges, s \in {"en", "ja", "zh", "ko"} :
          LET item == ItemOf(s, "answer_block", BodyOf("answer_block", Prose(n), 0))
          IN /\ Building!InsertedIsInBand(item)
             /\ s = "en" => (Building!LengthInBand(Prose(n), s) <=> n \in 134..167)
    /\ \A s \in {"en", "ja", "zh", "ko", "th"} : Building!Band(s).low <= Building!Band(s).high
    /\ \A i \in WrittenItems : Building!InsertedIsInBand(i)

\* "Excluding whitespace and ASCII punctuation": the mark at the end is counted.
ASSUME PunctuationCounts == Building!ComputeLengthUnits(Prose(3), "ko") = 4

ShortLimits == [least |-> 1, most |-> 4, slice |-> 3, word |-> 1]
ShortTexts == ListsOf({"w", " ", "."}, 6)

\* A headline is never empty, and one longer than "capped at 120 characters".
ASSUME HeadlinesAreCapped ==
    /\ \A t \in ShortTexts : Building!HeadlineIsCapped(t, ShortLimits, ShortLimits.most + 1)
    /\ \E t \in ShortTexts : ~Building!HeadlineIsCapped(t, ShortLimits, ShortLimits.most)

SomeRefs == [kind: {"customer_attested", "public_url"}, ref: {"none", "document", "https"},
             signed: BOOLEAN]
SomeBriefs == [name: {"", "b"}, aliases: SUBSET {"", "a"}, subjects: SUBSET {"", "c"}]
SomeAssets == [type: {"faq", "answer_block", "definition"}, text: {<<>>, <<"w">>},
               rows: {<<>>, <<"q">>}, language: {"en"}]

\* Structured data is built of what has the shape for it, and of no other. An address
\* may come from a source that nobody signed ("verified claim_source rows").
ASSUME StructuredDataIsShaped ==
    /\ \A brief \in SomeBriefs, refs \in SUBSET SomeRefs :
          LET data == Building!OrganizationJsonLd(brief, refs)
          IN /\ data.url = "deferred" /\ "" \notin data.knows
             /\ data.sameAs \subseteq {"https"}
             /\ data.ok => brief.name # "" /\ "" \notin brief.aliases
    /\ \A a \in SomeAssets :
          /\ Building!FaqPageJsonLd(a).ok => a.type = "faq"
          /\ Building!ArticleJsonLd(a, ShortLimits).ok =>
                Building!ArticleJsonLd(a, ShortLimits).headline # <<>>
    /\ \E refs \in SUBSET SomeRefs : ~Building!SameAsIsVerified(refs)

BodyTypes == {"definition", "answer_block", "faq", "comparison", "case_study", "jsonld"}

\* The metrics of a case study are shown and not scanned ("every numeric token in body"),
\* and a span means another place to who extracted it wherever a label is written.
ASSUME BodiesAreRead ==
    \A t \in BodyTypes :
        /\ Building!ShownIsScanned(t) <=> t # "case_study"
        /\ Building!GateReads(t) \subseteq Building!ExtractionReads(t)
        /\ Building!SpansAgree(t) <=> t \notin {"faq", "case_study"}

\* Names are read for numbers and superlatives too: a brand with a number in its name has
\* neither an organization nor an article that passes.
ASSUME NamesAreRead ==
    \A t \in {"Organization", "Article"} :
        Building!NestedStrings([type |-> t]) \cap {"name", "author.name"} # {}

\* Structured data that passes for superlatives need not pass as prose: the first
\* occurrence is the only one looked at ("same as verifiableNumbers.ts").
ASSUME SuperlativesAreFound ==
    LET occurrences == ListsOf([term: {"best"}, free: BOOLEAN], 2)
    IN /\ \A o \in occurrences : Building!JsonLdFinds(o, "best") => Building!ProseFinds(o, "best")
       /\ \E o \in occurrences : Building!ProseFinds(o, "best") /\ ~Building!JsonLdFinds(o, "best")

-----------------------------------------------------------------------------
(* Pages *)

IsASuffix(s, t) == SubSeq(t, Len(t) - Len(s) + 1, Len(t)) = s

PageLines == {<<>>, <<"w">>, <<".", "w">>, <<"w", "|", "w">>, <<"|", "-", "|">>, <<"|", "w">>,
              <<"|", "w", "|">>, <<"|", "w", "|", "w", "|">>}
PageTexts == ListsOf(PageLines, 4)

\* A page shows every word of its body, without the bars of a table in title and data.
ASSUME PagesAreWhole ==
    /\ \A text \in PageTexts : Publishing!PageIsWhole(text, <<"brand">>)
    /\ \A first \in PageLines, metrics \in {<<>>, <<"m">>} :
          LET page == Publishing!CaseStudyPage(<<first, <<"w">>, <<"w">>>>, metrics, <<"brand">>)
          IN page.h1 # <<>> /\ IsASuffix(metrics, page.data.text)

\* A bar within a line gets into the description ("pipe-free"); a terminator that no blank
\* follows ends no sentence ("Latin or CJK"); an ellipsis comes on top of the most units;
\* two questions may have one address; a page says the day it was first published; a
\* header and its rows may differ in length.
ASSUME PageDisagreements ==
    /\ ~Publishing!MetaIsPipeFree(<<<<"w", "|", "w">>>>)
    /\ Publishing!SentenceEnds(<<".", "w">>) /\ ~Publishing!SentenceEnds(<<"o", "w">>)
    /\ ~Publishing!FitsIn(<<"w", "w", "w", "w">>, 3)
    /\ ~Publishing!AnchorsAreDistinct(<<<<"a", "b">>, <<"a", "b", "?">>>>, 4)
    /\ ~Publishing!AnchorsAreDistinct(<<<<"a", "b", "c">>, <<"a", "b", "d">>>>, 2)
    /\ Publishing!DateIsSeen(1, {}) /\ ~Publishing!DateIsSeen(1, {2})
    /\ Cardinality(Publishing!ComparisonTable(2, <<1, 2>>)) > 1

\* What is cut is a beginning of what was there, with one mark after it.
ASSUME HeadlinesAreCut ==
    \A chars \in ListsOf({"w", " ", ","}, 6), max \in 1..5 : Publishing!Truncates(chars, max)

AddressWords == [latin: BOOLEAN, short: {FALSE}, host: BOOLEAN]
Hosts == ListsOf({"a", "b"}, 3)

\* Two assets never get one address, and a blocked host takes the hosts below it along.
ASSUME AddressesAreSafe ==
    /\ \A w \in ListsOf(AddressWords, 2), v \in ListsOf(AddressWords, 2), i \in 1..2, j \in 1..2 :
          Publishing!SlugsAreUnique(w, v, i, j)
    /\ \A host \in Hosts \ {<<>>}, label \in {"a", "b"}, blocked \in SUBSET {<<"a">>, <<"b", "a">>} :
          Publishing!BlocksSubdomains(host, label, blocked)
    /\ Publishing!AssertNotBlocklisted(Publishing!NoHost, {<<"a">>}) = "BLOCKED"
    /\ LET dirs == {<<"en", "x">>, <<"en", "y">>, <<"ko", "x">>}
       IN \A files \in SUBSET dirs, entries \in SUBSET dirs, dir \in dirs :
             Publishing!TakenDownAlone([files |-> files, sitemap |-> entries], <<"hub">>, dir)

\* The date of an article is stamped; its address, and an organization's, stays deferred:
\* who resolves it is never called ("resolved ... at deploy").
ASSUME AddressesStayDeferred ==
    \A json \in [type: {"Article", "Organization", "FAQPage"}, url: {"deferred"},
                 published: {0}] :
        LET stamped == Publishing!StampDatePublished(json, 5)
        IN /\ (stamped.published = 5) <=> json.type = "Article"
           /\ Publishing!ResolveOwnedHubUrl(stamped, "hub") = {"hub"}
           /\ Publishing!JsonLdPage(json, {}).published = 0

\* What we publish welcomes the crawlers, as our own reader of robots.txt sees it; lists do
\* not show the order of their making.
ASSUME WaysInAreOpen ==
    /\ LET bots == <<<<"G", "P", "T">>, <<"C", "C">>>>
           robots == Instrument!ParseRobots(Publishing!RenderRobots(bots))
       IN \A bot \in {bots[1], bots[2], <<"x">>} : Instrument!IsAllowed(robots, bot, <<"/", "a">>)
    /\ Publishing!OrderDoesNotShow(<<[loc |-> 1], [loc |-> 2], [loc |-> 3]>>, Publishing!RenderSitemap)
    /\ Publishing!OrderDoesNotShow(<<[date |-> 1, url |-> 2], [date |-> 1, url |-> 1],
                                     [date |-> 2, url |-> 3]>>, Publishing!RenderRss)
-----------------------------------------------------------------------------
(* Records *)

Upto2(rows) == {{r, t} : r \in rows, t \in rows} \cup {{}}
LeavesOthers(before, after, key) ==
    before \ Record!Where(before, key) = after \ Record!Where(after, key)

\* Writing a row again changes nothing, keeps one row for each key and no other row
\* than the one it is about.
Settles(Write(_, _), table, row, columns) ==
    LET written == Write(table, row)
    IN /\ Write(written, row) = written
       /\ Record!OneRowPer(written, columns)
       /\ LeavesOthers(table, written, [column \in columns |-> row[column]])

SomeRuns == [id: {"x", "y"}, customer: {"c", "d"}, kind: {"baseline", "operating"},
             status: {"running", "completed"}, total: {1}, plannedAt: 1..2, finishedAt: {0}]

\* Writing a row twice is writing it once, and it leaves the other rows alone.
ASSUME UpsertsSettle ==
    /\ \A brands \in Upto2(Record!BrandRow), b \in Record!BrandRow :
          Record!OneRowPer(brands, {"customer", "name"})
              => Settles(Record!UpsertBrand, brands, b, {"customer", "name"})
    /\ \A models \in Upto2(Record!ModelRow), m \in Record!ModelRow :
          Record!OneRowPer(models, {"id"}) => Settles(Record!UpsertModel, models, m, {"id"})

\* What a customer reads is its own, and the latest of its runs are as late as any.
ASSUME ReadsAreTheCustomers ==
    \A runs \in Upto2(SomeRuns), c \in {"c", "d"} :
        /\ \A r \in Record!FindLatestRun(runs, c) \cup Record!FindLatestCompletedBaselineRun(runs, c) :
              r.customer = c
        /\ \A r \in Record!FindLatestCompletedBaselineRun(runs, c), s \in runs :
              s.customer = c /\ s.plannedAt > r.plannedAt
                  => s.kind # "baseline" \/ s.status # "completed"

SomeClaims == [id: {"x", "y"}, customer: {"c", "d"}, text: {"x"}, kind: {"numeric"},
               source: {"public_url"}, signedBy: {"null", "x"}, signedAt: 0..1]
OwnedAssets == [id: {"x", "y"}, customer: {"c", "null"}, channel: {"x"}, gate: {"passed"}]
SomeQueue == [asset: {"x", "y"}, channel: {"x"}, status: {"queued", "leased", "failed"},
              createdAt: {1}, leasedAt: {0}, attempts: {0}, approvedBy: {"null"}]

\* A customer signs and approves what is its own; the statements underneath, keyed by id
\* alone, would do it for anybody.
ASSUME TenantsAreApart ==
    /\ \A claims \in Upto2(SomeClaims), id \in {"x", "y"}, c \in {"c", "d"} :
          Record!OneRowPer(claims, {"id"}) =>
              LET signed == Record!SignClaimSourceForCustomer(claims, id, c, "y", 2)
              IN /\ LeavesOthers(claims, signed.claims, [id |-> id, customer |-> c])
                 /\ signed.ok <=> \E r \in claims : r.id = id /\ r.customer = c
    /\ \A queue \in Upto2(SomeQueue), assets \in Upto2(OwnedAssets), c \in {"c", "d"} :
          \A q \in Record!ApproveDeployRowForCustomer(queue, assets, "x", c, "y") \ queue :
              [id |-> "x", customer |-> c, channel |-> "x", gate |-> "passed"] \in assets
    /\ \E claims \in Upto2(SomeClaims) :
          ~LeavesOthers(claims, Record!SignClaimSource(claims, "x", "y", 2).claims,
                        [id |-> "x", customer |-> "c"])

SomeUnits == [run: {"x", "y"}, question: {"x", "y"}, model: {"x"}, language: {"x", "y"},
              sample: 0..1, status: {"pending", "done", "error"}, response: {"null"}]

SumOf(counts) == LET S[D \in SUBSET DOMAIN counts] ==
                        IF D = {} THEN 0
                        ELSE LET d == CHOOSE d \in D : TRUE IN counts[d] + S[D \ {d}]
                 IN S[DOMAIN counts]

\* The slices of a run and its statuses count the same units, whatever they went through.
ASSUME UnitsAreCounted ==
    \A units \in Upto2(SomeUnits), unit \in SomeUnits :
        Record!OneRowPer(units, {"run", "question", "model", "language", "sample"}) =>
            LET after == Record!MarkWorkUnitError(Record!MarkWorkUnitDone(units, unit, "x"), unit)
            IN \A run \in {"x", "y"} :
                  /\ SumOf(Record!CountWorkUnitsBySlice(after, run))
                        = SumOf(Record!CountWorkUnitsByStatus(after, run))
                  /\ Record!CountWorkUnitsBySlice(after, run)
                        = Record!CountWorkUnitsBySlice(units, run)

SomeJudgments ==
    [response: {"x", "y"}, run: {"x"}, customer: {"c"}, status: {"ok", "cached"},
     mentioned: BOOLEAN, rank: {2}, citation: {FALSE}, recommendation: {FALSE},
     guardrail: {"pass"}, at: 1..2]

\* Judging again adds a row, and a response has one current judgment, as new as any.
ASSUME CurrentIsNewest ==
    \A judgments \in Upto2(SomeJudgments), j \in SomeJudgments :
        LET judged == Record!InsertJudgment(judgments, j, {})
        IN /\ judgments \subseteq judged
           /\ Record!CurrentJudgmentView(judged) # {}
           /\ \A view \in Record!CurrentJudgmentView(judged) :
                 /\ j.at = 2 /\ (\A k \in judgments : k.at = 1)
                        => Record!FindCurrentJudgment(view, j.response) = {j}
                 /\ Record!RunSmrOverallRow(view, "x").brandHits
                       <= Cardinality({k.response : k \in {m \in judged : m.mentioned}})

\* The disagreements. The view of a run counts mentions of cached answers, which are not
\* among those it counts as judged. A first call that belongs to no run is no prior call
\* once a run is left out ("true when the customer has at least one llm_call row").
\* Saying nothing of a surface that is on turns it off ("preserves operator config"), and
\* saying nothing of a cancellation undoes it ("access ends at period_end").
ASSUME RecordDisagreements ==
    /\ \E view \in Upto2(SomeJudgments) :
          LET run == Record!RunSmrOverallRow(view, "x") IN run.brandHits > run.judgedOk
    /\ LET calls == {[customer |-> "c", run |-> "null", purpose |-> "generation", at |-> 1]}
       IN /\ Record!CustomerHasPriorLlmCall(calls, "c", "null")
          /\ ~Record!CustomerHasPriorLlmCall(calls, "c", "x")
    /\ \A s \in [surface: {"x"}, modality: {"serp", "scrape"}, scrape: {"yes", "no", "unset"},
                 enabled: {"yes", "unset"}, nextRun: {0}] :
          LET on == Record!UpsertSurfaceScanQueue({}, [s EXCEPT !.enabled = "yes"])
              again == Record!UpsertSurfaceScanQueue(on, s)
          IN /\ \A row \in again : ~(row.modality = "serp" /\ row.scrape)
             /\ Record!FindEnabledSurfaces(again) = {} <=> s.enabled = "unset"
    /\ LET row == [customer |-> "c", tier |-> "x", status |-> "active", startedAt |-> 1,
                   periodEnd |-> 1, cancelAtEnd |-> FALSE]
           cancelled == Record!CancelAtPeriodEnd({row}, "c")
       IN /\ Record!CancelAtPeriodEnd(cancelled, "c") = cancelled
          /\ Record!UpsertSubscription(cancelled, [row EXCEPT !.periodEnd = 2], "unset")
                = {[row EXCEPT !.periodEnd = 2]}

SomeAttributes == [text: {"x", "y"}, superlative: BOOLEAN, blank: {FALSE}]
SeedOf(read, claims, attributes) ==
    Record!Seeded(claims, "c", Record!SeedClaimSourcesFromBrief(read, "c", attributes),
                  <<Cardinality(claims) + 1, Cardinality(claims) + 2>>)

\* Seeding again adds nothing; two seedings that both read before either wrote add twice.
ASSUME SeedsAreIdempotent ==
    \A attributes \in ListsOf(SomeAttributes, 2) :
        LET once == SeedOf({}, {}, attributes)
        IN /\ SeedOf(once, once, attributes) = once
           /\ Record!OneRowPer(once, {"customer", "text"})
           /\ \A c \in once : c.signedBy = "null"
           /\ once # {} => ~Record!OneRowPer(SeedOf({}, once, attributes), {"customer", "text"})

\* A week starts on the last Monday, a day at the last midnight.
ASSUME WeeksStartOnMondays ==
    \A now \in 168..(168 * 3) :
        LET monday == Record!CurrentWeekStart(now)
        IN /\ monday % 168 = 24 /\ monday <= now /\ now < monday + 168
           /\ Record!CurrentWindowStart(now) \in {h \in (now - 23)..now : h % 24 = 0}

Policies(day, week, interval) ==
    {[channel |-> "x", perDay |-> day, perWeek |-> week, interval |-> interval, enabled |-> TRUE]}
Waiting == {[asset |-> a, channel |-> "x", status |-> "queued", createdAt |-> 1, leasedAt |-> 0,
             attempts |-> 0, approvedBy |-> by] : a \in {"x", "y"}, by \in {"null", "y"}}
SomePassed == {[id |-> "x", customer |-> "c", channel |-> "x", gate |-> "passed"],
               [id |-> "y", customer |-> "d", channel |-> "x", gate |-> "passed"]}

\* A claim for a channel takes what is approved within the caps and charges the bucket of
\* nobody for it, in one go as one by one; a dry run takes and charges nothing.
ASSUME ChannelClaims ==
    \A day \in 0..2, week \in 0..2, interval \in {0, 30}, before \in {190, 193, 340}, n \in 0..2,
       dryRun \in BOOLEAN :
        LET now == 200
            window == Record!CurrentWindowStart(before)
            Monday == Record!CurrentWeekStart(before)
            charged == IF n = 0 THEN {}
                       ELSE Record!Charged({}, "null", "x", window, Monday, before, n)
            claims == Record!ClaimNextDeployBatch(Waiting, SomePassed, Policies(day, week, interval),
                                                  charged, "x", 2, now, dryRun, {})
        IN /\ claims # {}
           /\ n = 2 => charged = Record!UpsertThrottleStateIncrement(
                                    Record!UpsertThrottleStateIncrement({}, "null", "x", window,
                                                                        before, Monday),
                                    "null", "x", window, before, Monday)
           /\ \A c \in claims :
                 /\ \A q \in c.claimed : q.approvedBy = "y"
                 /\ Cardinality(c.claimed) <= (IF day < week THEN day ELSE week)
                 /\ (dryRun \/ c.claimed = {}) => c.states = charged
                 /\ (~dryRun /\ c.claimed # {}) =>
                       \A s \in c.states : s.count <= day /\ s.weekCount <= week /\ s.last = now
                 /\ (n > 0 /\ interval > 0) => c.claimed = {}

\* The first time a page is seen indexed stays; a dry run's row is not monitored.
ASSUME PagesAreFollowed ==
    LET page == [id |-> "x", asset |-> "x", channel |-> "x", customer |-> "c",
                 status |-> "published", indexing |-> "unknown", firstSeen |-> 0,
                 publishedAt |-> 1]
        seen == Record!UpdateIndexingStatus({page}, "x", "indexed", 1)
        lost == Record!UpdateIndexingStatus(seen, "x", "not_indexed", 2)
    IN /\ \A u \in Record!UpdateIndexingStatus(lost, "x", "indexed", 2) : u.firstSeen = 1
       /\ Record!ListPublishedUrlsForMonitoring(
              Record!InsertUrlRegistryDryRun({page}, [page EXCEPT !.id = "y"]), "null", 0) = {page}
-----------------------------------------------------------------------------
(* Access *)

LogOf(events) == FoldLeft(Entry!RecordSecurityAudit, <<>>, events)
EntriesOf(payloads) ==
    FoldLeft(LAMBDA es, p :
                 LET prev == IF es = <<>> THEN <<>> ELSE Last(es).hash
                     n == Len(es)
                 IN Append(es, [seq |-> n, prev |-> prev, payload |-> p,
                                hash |-> Entry!ComputeEntryHash(n, prev, p)]),
             <<>>, payloads)
SomeEvents == ListsOf({"x", "y"}, 4)

\* A log that was written one row at a time is in order; a row that was changed, left out
\* before the last or put elsewhere is seen at the first row that is not as it was.
ASSUME ChangesAreSeen ==
    \A events \in SomeEvents :
        LET log == LogOf(events)
            Seen(other, i) == Entry!VerifyAuditChain(other) = i
        IN /\ Entry!VerifyAuditChain(log) = 0
           /\ \A i \in DOMAIN log :
                 /\ Seen([log EXCEPT ![i].event = "z"], i)
                 /\ i < Len(log) => Seen(RemoveAt(log, i), i)
                 /\ \A j \in 1..(i - 1) :
                       Seen([log EXCEPT ![i] = log[j], ![j] = log[i]], j)

\* Two writers that both read the last hash first leave a log that is never in order again.
ASSUME ForksStay ==
    \A before, after \in ListsOf({"x", "y"}, 2) :
        LET log == LogOf(before)
            prev == Entry!LastHash(log)
            forked == Entry!Recorded(Entry!Recorded(log, prev, "x"), prev, "y")
        IN Entry!VerifyAuditChain(FoldLeft(Entry!RecordSecurityAudit, forked, after))
               = Len(log) + 2

\* With the head noted elsewhere, a shorter and a rewritten list are told from a longer one.
ASSUME AnchorsSeeTheEnd ==
    \A payloads, others \in ListsOf({"x", "y"}, 3) :
        LET entries == EntriesOf(payloads)
            now == EntriesOf(others)
            verdict == Entry!DetectTruncation(now, Entry!ComputeHeadAnchor(entries))
        IN /\ Entry!VerifyChain(entries)
           /\ entries # <<>> =>
                 /\ (verdict = "ok") <=> IsPrefix(payloads, others)
                 /\ (verdict = "truncated") <=> (Len(others) < Len(payloads))

StaffOf(customer) == [email |-> "s", password |-> "p", role |-> "staff", customer |-> customer]
Somebody(email, customer, role) ==
    [email |-> email, password |-> "p", role |-> role, customer |-> customer]
UsersThatMayBe ==
    {users \in SUBSET ([email: {"a", "b"}, password: {"p"}, role: {"owner", "staff"},
                        customer: {"c", "d", Entry!NULL}]) :
        \A u \in users : Entry!CanCreateAppUser(users \ {u}, u)}

\* A cookie stands for the user who logged in, until it ends or the session is deleted, and
\* gives nobody but its own customer; who is not staff is always somebody's.
ASSUME CookiesAreScoped ==
    \A users \in UsersThatMayBe, fails \in SUBSET {"user", "session"}, late \in 0..3,
       password \in {"p", "q"} :
        LET in == Entry!Login(users, {}, "a", password, "k", 1, 2, fails)
            session == Entry!GetServerSession(users, in.sessions, "k", 1 + late)
            scope == Entry!RequireCustomerScope(session)
        IN /\ (in.cookie = "k") <=>
                 (fails = {} /\ password = "p" /\ \E u \in users : u.email = "a")
           /\ (scope # "/login") <=> (in.cookie = "k" /\ late < 2)
           /\ \A u \in session : u.email = "a" /\ (scope = "403" \/ scope = u.customer)
           /\ scope = "403" => Entry!RequireStaff(session) = "staff"
           /\ Entry!GetServerSession(users, Entry!Logout(in.sessions, "k", FALSE), "k", 1) = {}

\* "After this the cookie value no longer authenticates": not when the row could not be
\* deleted. A member of staff whose row names a customer, as the table lets it, is let in as
\* that customer too.
ASSUME AccessDisagreements ==
    /\ \E users \in UsersThatMayBe :
          LET in == Entry!Login(users, {}, "a", "p", "k", 1, 2, {})
              out == Entry!Logout(in.sessions, "k", TRUE)
          IN Entry!GetServerSession(users, out, "k", 1) # {}
    /\ Entry!CanCreateAppUser({}, StaffOf("c")) /\ Entry!RequireCustomerScope({StaffOf("c")}) = "c"

SomeSecrets == [secret: {"s", "t", Entry!NULL}, long: BOOLEAN, allowDev: BOOLEAN, test: BOOLEAN]
SomeSnapshots == {[id |-> "x", customer |-> "c", week |-> 1], [id |-> "y", customer |-> "d", week |-> 1],
                  [id |-> "z", customer |-> "c", week |-> 2]}

\* A link opens the snapshot it was made for, for the customer it was made for, where the
\* same secret is known; a process without a secret makes none, and answers 500 to those of
\* others though "any missing field, DB miss, or mac mismatch returns null".
ASSUME LinksAreBound ==
    \A here, there \in SomeSecrets, made \in SomeSnapshots, asked \in SomeSnapshots :
        LET token == [Entry!GenerateReportToken(made.id, made.customer, here)
                          EXCEPT !.snapshot = asked.id]
            reason == Entry!VerifyReportToken(token, SomeSnapshots, there, FALSE)
        IN Entry!GetSecret(here) # "throws" =>
              /\ (reason = "ok") <=> (made = asked /\ Entry!GetSecret(here) = Entry!GetSecret(there))
              /\ (Entry!ReportPermalinkPage(reason) = 500) <=> (Entry!GetSecret(there) = "throws")
              /\ (Entry!AuditedAs(reason) = Entry!NULL) <=> (reason = "throws")

\* What is answered 200 is the customer's own, and of another's the answer says nothing; the
\* newest report is one that can be asked for.
ASSUME TenantsSeeTheirs ==
    \A scope \in {"c", "d", "e", "/login", "403"}, id \in {"x", "y", "z", "q"} :
        LET answer == Entry!GetReport(scope, SomeSnapshots, id)
            without == {s \in SomeSnapshots : s.customer = scope}
        IN /\ answer = Entry!GetReport(scope, without, id)
           /\ answer = Entry!GetEvidence(scope, SomeSnapshots, id)
           /\ Entry!SignClaim(scope, SomeSnapshots, id) = Entry!SignClaim(scope, without, id)
           /\ (answer = 200) <=> (Entry!SignClaim(scope, SomeSnapshots, id) = "ok")
           /\ \A newest \in Entry!GetOverview(scope, SomeSnapshots) :
                 Entry!GetReport(scope, SomeSnapshots, newest) = 200

SomeSituations ==
    [template: BOOLEAN, customer: BOOLEAN, brand: BOOLEAN, budget: BOOLEAN, judge: BOOLEAN,
     baseline: BOOLEAN, run: {"report", "no report", "throws"}]

\* Nothing is run before everything it needs is there, by the route as by the page; without
\* a token in the environment the operators' routes are nobody's. The page counts a visit it
\* cannot serve, so that visits to a page that is not set up use up the day.
ASSUME RunsAreGuarded ==
    /\ \A supplied \in {"o", Entry!NULL} : ~Entry!IsValidOpsRequest(Entry!NULL, supplied)
    /\ \A s \in SomeSituations, ops \in BOOLEAN :
          LET status == Entry!PostDiagnose(ops, s)
              ready == s.customer /\ s.brand /\ s.budget /\ s.judge
          IN /\ (status \in {200, 422, 500}) <=> (ops /\ s.template /\ ready)
             /\ ~ops => status = 403
             /\ \A hits \in 0..3 :
                   /\ (Entry!RunDiagnose(hits, 3, s) = "runs")
                          <=> (hits < 3 /\ ready /\ ~s.baseline)
                   /\ Entry!RunDiagnose(hits, 3, s) = "/diagnose" => ~(hits = 3)
    /\ \E s \in SomeSituations : /\ Entry!RunDiagnose(2, 3, s) = "error"
                                 /\ ~Entry!CheckIpCap(Entry!CheckIpCap(2, 3).hits, 3).allowed

\* The other routes: a question too few, a key too few, a cap, a failure; a template that is
\* not there is not found whether or not the request names a customer.
ASSUME RoutesAnswer ==
    /\ \A s \in [url: BOOLEAN, industry: BOOLEAN, key: BOOLEAN, capped: BOOLEAN,
                 diagnosis: {"done", "failed", "not configured"}] :
          LET status == Entry!PostDiagnoseUrl(s)
          IN /\ status = 200 => ~s.capped /\ (s.industry \/ (s.url /\ s.key))
             /\ (status = 502) => s.diagnosis = "failed"
    /\ \A named \in BOOLEAN : Entry!PostActivate(named, FALSE, "not found") = 404
    /\ \A exists, assembled \in BOOLEAN :
          (Entry!GetSmr(TRUE, exists, assembled) = 200) <=> (exists /\ assembled)

\* The rows of the table for a search surface, a scraped one and a chat model.
SomeRows(surfacesEnabled) ==
    {[id |-> s, provider |-> s, enabled |-> surfacesEnabled] : s \in {"googleAio", "copilot"}}
        \cup {[id |-> "chat", provider |-> "gemini", enabled |-> TRUE]}
SomeAdapters ==
    {[provider |-> "googleAio", modality |-> "serp", status |-> "ready"],
     [provider |-> "copilot", modality |-> "scrape", status |-> "ready"],
     [provider |-> "gemini", modality |-> "chat", status |-> "ready"]}

\* There is no way to set the rows of the surfaces right: enabled, a surface is a chat model
\* as well, also the scraped one that a baseline leaves out; not enabled, as they are seeded,
\* the worker finds no adapter for its units.
ASSUME SurfacesNeedTwoRows ==
    \A enabled \in BOOLEAN, kind \in {"baseline", "operating"} :
        LET models == Entry!ModelsOfRun(SomeRows(enabled), SomeAdapters,
                                        Surface!WireSurfaces(SomeAdapters, kind))
            lost == {m \in models : Entry!AdapterOfUnit(SomeRows(enabled), SomeAdapters, m.id) = {}}
        IN /\ enabled => lost = {} /\ [id |-> "copilot", modality |-> "chat"] \in models
           /\ enabled => ~Record!OneRowPer(models, {"id"})
           /\ ~enabled => {m.id : m \in lost} =
                              (IF kind = "baseline" THEN {"googleAio"} ELSE {"googleAio", "copilot"})

\* "pg-boss v10 requires every queue to be created before send/work/schedule": all but one
\* job's, and its dead letters'.
ASSUME QueuesAreCreated ==
    (Entry!JOB_NAMES \cup Entry!DeadLetters \cup {Entry!DLQ_BILLING_CLOSE}) \ Entry!Created
        = {"billing.close", Entry!DLQ_BILLING_CLOSE}

\* A run's own answers are not taken from the cache, a later run's may be.
ASSUME OwnAnswersAreNotCached ==
    \A now \in 1..3, cutoff \in 0..3 :
        LET rows == Record!InsertResponseCache({}, "x", "y", now)
        IN (Entry!FindByHash(rows, "x", cutoff) # {}) <=> (cutoff = 0 \/ now < cutoff)
=============================================================================
