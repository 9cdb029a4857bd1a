------------------------------- MODULE Surfaces -------------------------------
(***************************************************************************)
(* Search surfaces asked like models (src/surfaces): which may be reached  *)
(* how, which take part in a run, what a call returns, and how the parsers *)
(* read what came back. Text is a sequence of pieces: "prose", and "title" *)
(* for the anchor text of a link. A URL is a model value, "" is none.      *)
(***************************************************************************)
EXTENDS Integers, Sequences, FiniteSets, SequencesExt

NOT_CONFIGURED == "NOT_CONFIGURED"
NO_ANSWER == "NO_ANSWER"

-----------------------------------------------------------------------------
(* Compliance *)

SERP_ONLY_SURFACES == {"googleAio", "googleAiMode", "naverAi"}
SCRAPE_SURFACES == {"copilot", "metaAi", "line", "kakao"}
SurfaceIds == SERP_ONLY_SURFACES \cup SCRAPE_SURFACES

COMPLIANCE_MANIFEST ==
    [s \in SurfaceIds |->
        [accessMethod |-> IF s \in {"googleAio", "googleAiMode", "naverAi"}
                          THEN "official_serp" ELSE "scrape",
         scrapePermitted |-> s \in {"copilot", "metaAi", "line", "kakao"},
         nativeReview |-> s \in {"naverAi", "line", "kakao"}]]

\* What the constructor of an adapter throws on: a surface reached the wrong way.
Constructible(kind, s) == IF kind = "scrape" THEN s \notin SERP_ONLY_SURFACES
                          ELSE s \in SERP_ONLY_SURFACES

RequiresNativeReview(s) == s \in SurfaceIds /\ COMPLIANCE_MANIFEST[s].nativeReview

\* The hook of the cycle goes by a list of its own.
ModelRequiresNativeReview(modelId) == modelId \in {"naverAi", "line", "kakao"}

\* A parser's flag, or the manifest.
ResolveNativeReviewFlag(answer) == answer.nativeReview \/ RequiresNativeReview(answer.surfaceId)

\* A hook that throws is logged: whether the review is asked for never shows in the run.
FireCycleNativeReviewHook(modelId, hook) ==
    [asked |-> hook # "none" /\ ModelRequiresNativeReview(modelId),
     thrown |-> FALSE]

FireNativeReviewHook(answer, hook) ==
    [asked |-> hook # "none" /\ ResolveNativeReviewFlag(answer), thrown |-> FALSE]

\* Thousandths of a dollar for each call.
SURFACE_PRICE_TABLE ==
    [s \in SurfaceIds |-> [usdPerCall |-> IF s = "googleAio" THEN 5 ELSE 0,
                           isMeterEnabled |-> s \in {"googleAio", "naverAi"}]]

SurfaceUsdPerCall(s) ==
    IF SURFACE_PRICE_TABLE[s].isMeterEnabled THEN SURFACE_PRICE_TABLE[s].usdPerCall ELSE 0

-----------------------------------------------------------------------------
(* Registry and selection *)

\* Both factories return the client that is not configured, with a key and without.
MakeSerpClient(env) == [configured |-> FALSE]
MakeRpaRunner(env) == [configured |-> FALSE]

AdapterStatus(seam) == IF seam.configured THEN "ready" ELSE "not_configured"

Adapter(s, kind, seam) ==
    [provider |-> s, modality |-> kind, status |-> AdapterStatus(seam),
     capabilities |-> {"generate"}]

BuildSurfaceRegistry(serpClient, rpaRunner) ==
    {Adapter(s, "serp", serpClient) : s \in {"googleAio", "googleAiMode", "naverAi"}}
    \cup {Adapter(s, "scrape", rpaRunner) : s \in {"copilot", "metaAi", "line", "kakao"}}

\* Scraping is left out of a baseline.
SelectEligibleSurfaces(adapters, runKind) ==
    {a \in adapters : a.status = "ready" /\ ~(a.modality = "scrape" /\ runKind = "baseline")}

SelectEligibleSurfaceAdapters(adapters, runKind) ==
    SelectEligibleSurfaces({a \in adapters : a.modality # "chat"}, runKind)

\* A surface is a model of the run under its own name; it never judges.
WireSurfaces(adapters, runKind) ==
    {[id |-> a.provider, modality |-> a.modality, isCheapMonitor |-> FALSE,
      isJudge |-> FALSE, enabled |-> TRUE] :
        a \in SelectEligibleSurfaceAdapters(adapters, runKind)}

-----------------------------------------------------------------------------
(* Parsing *)

NoAnswerFound == [ok |-> FALSE, code |-> NO_ANSWER]
ParserFails(code) == [ok |-> FALSE, code |-> code]
Throws == [ok |-> FALSE, code |-> "throws"]

Parsed(s, prose, citations, native) ==
    [ok |-> TRUE, answer |-> [surfaceId |-> s, answerText |-> prose, citations |-> citations,
                              nativeReview |-> native]]

\* A search response is [object, found, blocks, flat, references]: whether it is an
\* object, whether its AI block is "absent", "junk" or a "block", and what that holds. A
\* text block is [type, items, text], of type "nil" when it is null; a reference is "nil",
\* "" when it has no link, or a URL.
ListProse(b) ==
    IF b.items # <<>> THEN SelectSeq(b.items, LAMBDA i : i # "") ELSE b.text

BlockProse(b) ==
    IF b.type \in {"paragraph", "text"} THEN b.text
    ELSE IF b.type = "list" THEN ListProse(b) ELSE <<>>

ExtractProse(blocks) == FlattenSeq([i \in DOMAIN blocks |-> BlockProse(blocks[i])])
ExtractCitations(references) == SelectSeq(references, LAMBDA r : r # "")

Holds(seq, x) == \E i \in DOMAIN seq : seq[i] = x
HoldsNull(blocks) == \E i \in DOMAIN blocks : blocks[i].type = "nil"

\* What the two kinds of search response have in common. A null block or reference is
\* read as if it were one.
SearchParse(s, raw, prose, native) ==
    CASE ~raw.object -> ParserFails("SCHEMA_ERROR")
      [] raw.object /\ raw.found = "absent" -> NoAnswerFound
      [] raw.object /\ raw.found = "junk" -> ParserFails("DRIFT")
      [] raw.object /\ raw.found = "block" ->
           IF HoldsNull(raw.blocks) THEN Throws
           ELSE IF prose = <<>> THEN NoAnswerFound
           ELSE IF Holds(raw.references, "nil") THEN Throws
           ELSE Parsed(s, prose, ExtractCitations(raw.references), native)

AiOverviewParse(raw) == SearchParse("googleAio", raw, ExtractProse(raw.blocks), FALSE)

\* The same under another name.
AiModeParse(raw) ==
    LET result == AiOverviewParse(raw)
    IN IF result.ok THEN [result EXCEPT !.answer.surfaceId = "googleAiMode"] ELSE result

\* Blocks come first, then the flat fields.
ExtractNaverProse(raw) ==
    IF ExtractProse(raw.blocks) # <<>> THEN ExtractProse(raw.blocks) ELSE raw.flat

NaverParse(raw) == SearchParse("naverAi", raw, ExtractNaverProse(raw), TRUE)

\* A page is a snapshot [noAnswerFound, answerBlock, answerHtml, citations], raw HTML
\* [container], or neither. HTML is a sequence of [text, url], a link when it has a URL;
\* the container is <<>> when no marker is found and <<html>> else.
StripHtml(html) == SelectSeq([i \in DOMAIN html |-> html[i].text], LAMBDA t : t # "")
LinksOf(html) ==
    LET links == SelectSeq(html, LAMBDA p : p.url # "")
    IN [i \in DOMAIN links |-> links[i].url]

ParseSnapshot(s, snap, native) ==
    LET prose == IF snap.answerBlock # <<>> THEN snap.answerBlock ELSE StripHtml(snap.answerHtml)
    IN IF snap.noAnswerFound \/ prose = <<>> THEN NoAnswerFound
       ELSE Parsed(s, prose, ExtractCitations(snap.citations), native)

\* An empty container does not match its pattern's group: it counts as drift.
ParseHtml(s, container, native) ==
    IF container = <<>> \/ container = <<<<>>>> THEN ParserFails("DRIFT")
    ELSE IF StripHtml(container[1]) = <<>> THEN NoAnswerFound
    ELSE Parsed(s, StripHtml(container[1]), LinksOf(container[1]), native)

PageParse(s, raw, native) ==
    CASE raw.kind = "snapshot" -> ParseSnapshot(s, raw.snap, native)
      [] raw.kind = "html" -> ParseHtml(s, raw.container, native)
      [] OTHER -> ParserFails("DRIFT")

CopilotParse(raw) == PageParse("copilot", raw, FALSE)
MetaAiParse(raw) == PageParse("metaAi", raw, FALSE)
LineParse(raw) == PageParse("line", raw, TRUE)
KakaoParse(raw) == PageParse("kakao", raw, TRUE)

Parse(s, raw) ==
    CASE s = "googleAio" -> AiOverviewParse(raw)
      [] s = "googleAiMode" -> AiModeParse(raw)
      [] s = "naverAi" -> NaverParse(raw)
      [] s = "copilot" -> CopilotParse(raw)
      [] s = "metaAi" -> MetaAiParse(raw)
      [] s = "line" -> LineParse(raw)
      [] s = "kakao" -> KakaoParse(raw)

-----------------------------------------------------------------------------
(* The adapter *)

\* The unit's own language, that of an encoded prompt version, or English.
LanguageOf(req) ==
    IF req.language # "" THEN req.language
    ELSE IF req.encoded # "" THEN req.encoded ELSE "en"

\* The locale a page is asked in: its market's first when the language is foreign to it.
LineLocale(language) == IF language \in {"ja", "zh-TW", "th"} THEN language ELSE "ja"

Refused(code, retryable) == [ok |-> FALSE, code |-> code, retryable |-> retryable]

\* response: what the client or the runner came back with.
Generate(s, seam, response) ==
    IF ~seam.configured THEN Refused(NOT_CONFIGURED, FALSE)
    ELSE IF ~response.ok THEN Refused(response.code, response.retryable)
    ELSE LET parsed == Parse(s, response.raw) IN
         IF ~parsed.ok
         THEN Refused(IF parsed.code = NO_ANSWER THEN NOT_CONFIGURED ELSE parsed.code, FALSE)
         ELSE [ok |-> TRUE, answerText |-> parsed.answer.answerText,
               meta |-> [surfaceId |-> s, citations |-> parsed.answer.citations,
                         nativeReview |-> parsed.answer.nativeReview],
               usd |-> SurfaceUsdPerCall(s)]

\* A surface does not judge.
SurfaceJudge == Refused(NOT_CONFIGURED, FALSE)

-----------------------------------------------------------------------------
(* What the surfaces promise *)

\* The lists agree: each surface is reached in the one way the manifest allows, and
\* reviewed when it says so (compliance.ts, "the single source of truth").
TablesAgree ==
    \A s \in SurfaceIds :
        /\ Constructible("serp", s) # Constructible("scrape", s)
        /\ COMPLIANCE_MANIFEST[s].scrapePermitted <=> Constructible("scrape", s)
        /\ COMPLIANCE_MANIFEST[s].accessMethod = "official_serp" <=> s \in SERP_ONLY_SURFACES
        /\ ModelRequiresNativeReview(s) <=> RequiresNativeReview(s)

\* Every adapter of the registry passes the check of its constructor, and a baseline
\* asks none that scrapes.
RegistryComplies(adapters) ==
    /\ \A a \in adapters : Constructible(a.modality, a.provider)
    /\ \A m \in WireSurfaces(adapters, "baseline") : m.modality # "scrape"

\* An answer has prose, comes with its citations apart and is flagged as its market
\* demands.
AnswersAreSound(s, result) ==
    result.ok => /\ result.answerText # <<>>
                 /\ ~Holds(result.meta.citations, "")
                 /\ result.meta.nativeReview <=> RequiresNativeReview(s)

\* "Citations are NEVER concatenated into answerText. The judge sees clean prose only."
OnlyProseIsJudged(result) == result.ok => ~Holds(result.answerText, "title")

\* "NEVER throws" (the comment of every parse()).
NeverThrows(parsed) == parsed.ok \/ parsed.code # "throws"

\* "SERP calls are metered": what a search call costs reaches the ledger.
SpendIsMetered(s, seam, response) ==
    LET result == Generate(s, seam, response)
        cost == IF seam.configured /\ response.ok THEN SurfaceUsdPerCall(s) ELSE 0
    IN cost > 0 => result.ok
=============================================================================
