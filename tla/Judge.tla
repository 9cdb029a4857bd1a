--------------------------------- MODULE Judge ---------------------------------
(***************************************************************************)
(* From an answer to the judgment that is stored of it: the model judges,  *)
(* its evidence is looked up in the answer, a deterministic scan stands in *)
(* when it fails, and a gate has the last word (src/judge/extractMention.ts *)
(* and the files it calls, src/domain/rank.ts, src/guardrails, and STEPs 7 *)
(* to 10 of src/pipeline/runResponse.ts).                                  *)
(*                                                                         *)
(* An answer is a sequence of segments [item, words]: the lines and the    *)
(* sentences into which the scan of recommendations cuts it, item saying   *)
(* that it looks like an entry of a list. A word is [is, of, whole,        *)
(* quoted]: what it is for the scans, whom it names, whether the name      *)
(* stands alone, and whether it is inside quotation marks. Entities are    *)
(* numbers, in the order in which localeCompare puts their names. Case,    *)
(* accents and Unicode forms are gone: normalizeForMatch has been applied, *)
(* and has kept the length of the text, so that offsets are word numbers.  *)
(***************************************************************************)
EXTENDS Integers, Sequences, FiniteSets, FiniteSetsExt, SequencesExt

CONSTANTS
    Brand,
    Competitors,
    HalfWindow    \* words kept on each side of a located name (windowChars / 2)

Entities == {Brand} \cup Competitors
NoRank == 0
NoSpan == [from |-> 0, to |-> 0, quote |-> "none"]

Text(answer) == FlattenSeq([i \in DOMAIN answer |-> answer[i].words])

\* Where the words that satisfy a condition are.
At(words, Test(_)) == {i \in DOMAIN words : Test(words[i])}

-----------------------------------------------------------------------------
(* Ranks *)

\* Aliases match anywhere, inside longer words too.
Occurrences(words, e) == At(words, LAMBDA w : e \in w.of)

FindFirstOffset(words, e) == Min(Occurrences(words, e))

Named(words) == {e \in Entities : Occurrences(words, e) # {}}

\* Overlapping names start together: the order of the names decides.
ComesBefore(words, d, e) ==
    LET first == FindFirstOffset(words, d)
        second == FindFirstOffset(words, e)
    IN first < second \/ (first = second /\ d < e)

ComputeRank(words, e) ==
    IF e \in Named(words)
    THEN 1 + Cardinality({d \in Named(words) : ComesBefore(words, d, e)})
    ELSE NoRank

ComputeAllRanks(words) == [e \in Named(words) |-> ComputeRank(words, e)]

-----------------------------------------------------------------------------
(* Evidence *)

LocateEvidence(words) ==
    IF Brand \notin Named(words) THEN NoSpan
    ELSE LET i == FindFirstOffset(words, Brand)
         IN [from |-> Max({1, i - HalfWindow}), to |-> Min({Len(words), i + HalfWindow}),
             quote |-> "slice"]

NamesBrand(words, span) ==
    \E i \in span.from..span.to : i \in DOMAIN words /\ Brand \in words[i].of

\* The judge's span is kept when the slice it points at names the brand, whatever its
\* quote says; else the first name is looked up.
LocateEvidenceForVerification(words, span) ==
    IF /\ span # NoSpan
       /\ span.from <= span.to /\ span.to <= Len(words)
       /\ NamesBrand(words, span)
    THEN span
    ELSE LocateEvidence(words)

-----------------------------------------------------------------------------
(* Citations and recommendations *)

\* Links of one form after those of another, not in the order of the text.
LinkForms == <<"markdown", "html", "url">>

\* A name inside a longer word is no credit: the alias must stand alone.
Credits(w, form) == w.is = form /\ Brand \in w.of /\ w.whole

DetectCitation(words) ==
    \E k \in DOMAIN LinkForms : At(words, LAMBDA w : Credits(w, LinkForms[k])) # {}

\* The link that is quoted: the first of the first form that has one.
CitedLink(words) ==
    LET forms == {k \in DOMAIN LinkForms :
                     At(words, LAMBDA w : Credits(w, LinkForms[k])) # {}}
    IN Min(At(words, LAMBDA w : Credits(w, LinkForms[Min(forms)])))

Unquoted(words) == SelectSeq(words, LAMBDA w : ~w.quoted)

HasAlias(words) == \E i \in DOMAIN words : Brand \in words[i].of /\ words[i].whole
Says(words, what) == At(words, LAMBDA w : w.is = what) # {}

\* An entry under a heading that recommends, unless it negates or the brand praises
\* itself.
IsListItem(s) == s.item \/ (s.words # <<>> /\ s.words[1].is = "header")

RecommendedByList(answer) ==
    /\ Says(Text(answer), "header")
    /\ \E i \in DOMAIN answer :
         LET clean == Unquoted(answer[i].words) IN
         /\ IsListItem(answer[i]) /\ HasAlias(clean)
         /\ ~Says(clean, "not") /\ ~Says(clean, "itself")

\* The negation comes before the name, or after a contrast.
Negated(clean) ==
    LET negations == At(clean, LAMBDA w : w.is = "not")
        contrasts == At(clean, LAMBDA w : w.is = "but")
    IN /\ negations # {}
       /\ \/ Min(negations) < FindFirstOffset(clean, Brand)
          \/ contrasts # {} /\ \E n \in negations : n > Min(contrasts)

RecommendedByVerb(answer) ==
    \E i \in DOMAIN answer :
        LET clean == Unquoted(answer[i].words) IN
        /\ HasAlias(clean) /\ Says(clean, "verb")
        /\ ~Says(clean, "itself") /\ ~Negated(clean)

DetectRecommendation(answer) ==
    HasAlias(Text(answer)) /\ (RecommendedByList(answer) \/ RecommendedByVerb(answer))

-----------------------------------------------------------------------------
(* The judge *)

\* One call of the judge: its verdict, a reply that is not one, or an error that was
\* thrown. A reply carries its usage, an error does not.
Outcome(kind, verdict) ==
    [ok |-> kind = "verdict", code |-> kind, verdict |-> verdict,
     usage |-> IF kind \in {"verdict", "PARSE_FAILED"} THEN 1 ELSE 0]

\* GeminiAdapter.judge: a reply that cannot be parsed is asked of the larger model,
\* once, and only the second call is reported. `usage` counts the calls that are
\* reported, `billed` those that were answered.
JudgeCalls(first, second, escalates) ==
    IF first.code = "PARSE_FAILED" /\ escalates
    THEN [result |-> second, billed |-> first.usage + second.usage]
    ELSE [result |-> first, billed |-> first.usage]

IsJudgeConfigured(adapter) == adapter.status = "ready" /\ "judge" \in adapter.capabilities

-----------------------------------------------------------------------------
(* extractMention *)

NoVerdict ==
    [mentioned |-> FALSE, rank |-> NoRank, sentiment |-> "null", competitors |-> <<>>,
     evidence |-> NoSpan, cites |-> FALSE, recommends |-> FALSE]

Abstain(usage) == [verdict |-> NoVerdict, provenance |-> "abstain", usage |-> usage]

RuleFallback(answer) ==
    LET words == Text(answer)
        ranks == ComputeAllRanks(words)
        named == Brand \in Named(words)
    IN [mentioned |-> named,
        rank |-> ComputeRank(words, Brand),
        sentiment |-> IF named THEN "neutral" ELSE "null",
        competitors |-> [c \in Competitors \cap Named(words) |-> ranks[c]],
        evidence |-> LocateEvidence(words),
        cites |-> named /\ DetectCitation(words),
        recommends |-> named /\ DetectRecommendation(answer)]

\* What the judge reports is completed by the scans, never taken back.
Verified(answer, verdict, span) ==
    [verdict EXCEPT
        !.evidence = span,
        !.cites = @ \/ DetectCitation(Text(answer)),
        !.recommends = @ \/ DetectRecommendation(answer)]

ExtractMention(answer, adapter, result) ==
    LET words == Text(answer)
        asked == IsJudgeConfigured(adapter)
        judged == asked /\ result.ok
        span == LocateEvidenceForVerification(words, result.verdict.evidence)
        usage == IF asked THEN result.usage ELSE 0
        fallback == RuleFallback(answer)
        ByJudge(verdict) == [verdict |-> verdict, provenance |-> "judge", usage |-> usage]
    IN CASE words = <<>> -> Abstain(0)
         [] words # <<>> /\ judged /\ ~result.verdict.mentioned -> ByJudge(result.verdict)
         [] words # <<>> /\ judged /\ result.verdict.mentioned /\ span # NoSpan ->
              ByJudge(Verified(answer, result.verdict, span))
         [] OTHER ->
              IF fallback.mentioned /\ fallback.evidence = NoSpan THEN Abstain(usage)
              ELSE [verdict |-> fallback, provenance |-> "fallback", usage |-> usage]

\* A response that is no answer is not judged.
ExtractMentionForStoredResponse(status, answer, adapter, result) ==
    IF status # "ok" /\ Text(answer) = <<>> THEN Abstain(0)
    ELSE ExtractMention(answer, adapter, result)

-----------------------------------------------------------------------------
(* The gates *)

HasLocatableSpan(evidence) ==
    /\ evidence # NoSpan
    /\ evidence.quote # "empty"
    /\ 1 <= evidence.from /\ evidence.from <= evidence.to

\* The phase says which fold runs it. The publish gates are retired: they pass.
Gates == <<[name |-> "evidenceRequiredGate", phase |-> "measurement"]>>

Passes(gate, row) ==
    gate.name = "evidenceRequiredGate" => ~row.mentioned \/ HasLocatableSpan(row.evidence)

Downgraded(row) ==
    [row EXCEPT !.mentioned = FALSE, !.rank = NoRank, !.evidence = NoSpan,
                !.provenance = "abstain", !.guardrailStatus = "downgraded_abstain"]

\* The first gate of the phase that does not pass downgrades, and ends the fold.
RunGates(gates, phase, row) ==
    IF \E i \in DOMAIN gates : gates[i].phase = phase /\ ~Passes(gates[i], row)
    THEN Downgraded(row) ELSE row

\* The row of mention_judgment. Citation and recommendation are those of the verdict
\* before the gates.
StoredJudgment(status, answer, adapter, result) ==
    LET m == ExtractMentionForStoredResponse(status, answer, adapter, result)
        v == m.verdict
    IN RunGates(Gates, "measurement",
           [mentioned |-> v.mentioned, rank |-> v.rank, sentiment |-> v.sentiment,
            competitors |-> v.competitors, evidence |-> v.evidence, cites |-> v.cites,
            recommends |-> v.recommends, provenance |-> m.provenance, usage |-> m.usage,
            guardrailStatus |-> "pass"])

\* The rows the three rates count, in current_judgment and run_smr_overall.
BrandHit(row) == row.mentioned /\ row.guardrailStatus = "pass"
CitationHit(row) == BrandHit(row) /\ row.cites
RecommendationHit(row) == BrandHit(row) /\ row.recommends

-----------------------------------------------------------------------------
(* What a judgment promises *)

\* A mention that counts has evidence, and the slice of the answer it points at names
\* the brand (evidenceRequiredGate.ts, evidence.ts): a judge cannot make one up.
MentionsAreGrounded(answer, row) ==
    BrandHit(row) =>
        /\ HasLocatableSpan(row.evidence)
        /\ row.evidence.to <= Len(Text(answer))
        /\ NamesBrand(Text(answer), row.evidence)

\* "Visibility is provenance-independent" (rank.ts): of a judge that follows the rule
\* and of the fallback the same ranks are stored, one for each entity that is named.
RanksAgree(answer, row) ==
    LET words == Text(answer)
        all == ComputeAllRanks(words)
    IN /\ {all[e] : e \in DOMAIN all} = 1..Cardinality(Named(words))
       /\ row.provenance = "fallback" => row.rank = ComputeRank(words, Brand)

\* A name that stands alone in a link or in an advice is found as a mention too.
ChannelsAreMentions(answer) ==
    DetectCitation(Text(answer)) \/ DetectRecommendation(answer)
        => Brand \in Named(Text(answer))

\* An answer that names the brand counts, unless the judge says that it does not.
NamedIsCounted(answer, row, denied) ==
    Brand \in Named(Text(answer)) /\ ~denied => BrandHit(row)

\* "Non-null whenever a judge LLM call was actually attempted (even on parse
\* failure), so the cost ledger can record real spend" (extractMention.ts).
SpendIsLedgered(row, billed) == row.usage = billed
=============================================================================
