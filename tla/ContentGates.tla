---------------------------- MODULE ContentGates ----------------------------
(***************************************************************************)
(* The claims of an asset and the customer's claim_source registry         *)
(* (src/content/claimExtract.ts, src/content/claimVerify.ts,               *)
(* src/content/numericDetect.ts), the gates every content asset passes     *)
(* before it may be queued (src/content/gates/*.ts) and their fold         *)
(* (src/content/contentGate.ts).                                           *)
(*                                                                         *)
(* Texts are sets of significant words with a polarity; a body is a set of *)
(* spans, each of which states one thing. A draft is what was generated:   *)
(* [id, language, channel, type, phrasing, tag, text, spans, metrics,      *)
(* signal, named, pronoun, flaws]. Metrics are spans of a case study that  *)
(* only the extracting model gets to read. Texts that are equal are        *)
(* near-duplicates; flaws are what pattern lists and schemas find.         *)
(***************************************************************************)
EXTENDS Integers, FiniteSets, FiniteSetsExt

CONSTANTS
    Words,       \* significant words
    GenericNouns, \* GENERIC_DOMAIN_NOUNS among them
    NoSource     \* resolved_source_id = null

ASSUME ClaimAssumption == GenericNouns \subseteq Words

Text == [words : SUBSET Words, negated : BOOLEAN]

\* A numeric payload; NoPayload stands for an absent or malformed one.
NoPayload == [value |-> 0, unit |-> "none", bound |-> "none"]

\* Spans the scanners of the raw body find: scanBodyForNumerics and
\* scanBodyForSuperlatives. Capabilities and comparisons only a reader sees.
Detected(spans) == {s \in spans : s.kind \in {"numeric", "superlative"}}

-----------------------------------------------------------------------------
(* Numbers                                                                 *)

\* normalizeNumeric: the scale and the canonical unit of a unit. A bare m or b
\* may be a magnitude or a unit and has neither.
Ambiguous == {"m", "b"}

Scale(unit) ==
    CASE unit \in {"k", "thousand"} -> 1000
      [] unit = "million" -> 1000000
      [] unit = "manwon" -> 10000
      [] OTHER -> 1

CanonicalUnit(unit) ==
    CASE unit \in {"%", "percent"} -> "%"
      [] unit \in {"x", "times"} -> "x"
      [] unit \in {"k", "thousand", "million"} -> "count"
      [] unit \in {"won", "krw", "manwon"} -> "krw"
      [] OTHER -> unit

Distance(a, b) == IF a < b THEN b - a ELSE a - b

\* The bound of checkNumericBound, over normalized values: exact is within 1%.
WithinBound(value, source, bound) ==
    CASE bound = "exact"   -> 100 * Distance(value, source) <= source
      [] bound = "upTo"    -> value <= source
      [] bound = "atLeast" -> value >= source

CheckNumericBound(claim, source) ==
    IF \/ {claim.unit, source.unit} \cap Ambiguous # {}
       \/ CanonicalUnit(claim.unit) # CanonicalUnit(source.unit)
    THEN "incompatible"
    ELSE IF WithinBound(claim.value * Scale(claim.unit), source.value * Scale(source.unit),
                        source.bound)
         THEN "within" ELSE "exceeds"

-----------------------------------------------------------------------------
(* Which source speaks of a claim                                          *)

\* At least two thirds of the words of one text occur in the other, one of them
\* being distinctive.
Overlaps(of, in) ==
    /\ of # {}
    /\ 3 * Cardinality(of \cap in) >= 2 * Cardinality(of)
    /\ ~ (of \cap in \subseteq GenericNouns)

\* A text that contains the other, or keywords they share.
ContainsText(said, known) == said \subseteq known \/ known \subseteq said

SharesKeywords(kind, said, known) ==
    \/ Overlaps(known, said)
    \/ kind \in {"capability", "comparative"} /\ Cardinality(said) >= 4 /\ Overlaps(said, known)

\* 3 for the same text, 2 for containment, 1 for keyword overlap. A disagreement in
\* polarity makes any match worthless.
Score(claim, source) ==
    CASE claim.text.negated # source.text.negated -> 0
      [] claim.text.words = source.text.words -> 3
      [] ContainsText(claim.text.words, source.text.words) -> 2
      [] SharesKeywords(claim.kind, claim.text.words, source.text.words) -> 1
      [] OTHER -> 0

\* A number is bound only to a source that measures the same thing, or to a source
\* of another kind that has no number at all.
UnitsAgree(claim, source) ==
    \/ claim.kind # "numeric" \/ claim.payload = NoPayload
    \/ claim.payload.unit \in Ambiguous
    \/ IF source.payload # NoPayload
       THEN /\ source.payload.unit \notin Ambiguous
            /\ CanonicalUnit(source.payload.unit) = CanonicalUnit(claim.payload.unit)
       ELSE source.kind # "numeric"

\* findMatchingSourceAmong: the best score, and of these the lowest id.
Fitting(claim, sources) == {s \in sources : UnitsAgree(claim, s) /\ Score(claim, s) > 0}

BestOf(claim, fit) == {s \in fit : \A t \in fit : Score(claim, t) <= Score(claim, s)}

Lowest(sources) == {s \in sources : \A t \in sources : s.id <= t.id}

BestAmong(claim, sources) == Lowest(BestOf(claim, Fitting(claim, sources)))

OrElse(first, second) == IF first # {} THEN first ELSE second

\* findMatchingSource: signed sources first; the empty set when none matches.
FindMatchingSource(claim, sources, signed) ==
    OrElse(BestAmong(claim, {s \in sources : s.id \in signed}), BestAmong(claim, sources))

-----------------------------------------------------------------------------
(* Extraction                                                              *)

Claim(span, kind, payload) ==
    [span |-> span.id, kind |-> kind, text |-> span.text, payload |-> payload,
     source |-> NoSource, state |-> "unverified"]

\* coerceToClaimRecord: what the model may make of a span. It may take a claim for
\* a capability, and a payload with an unknown bound is dropped.
Readings(span) ==
    {Claim(span, span.kind, span.payload), Claim(span, "capability", NoPayload),
     Claim(span, span.kind, NoPayload)}

\* What the model is given to read: the metrics of a case study too, which the gates'
\* own extractBodyText leaves out.
Prompted(d) == d.spans \cup d.metrics

\* extractClaims: the model reports some of the claims.
Extractions(spans) ==
    {claims \in SUBSET UNION {Readings(s) : s \in spans} :
        \A c, d \in claims : c.span = d.span => c = d}

-----------------------------------------------------------------------------
(* verifyAndDecide                                                         *)

Settle(claim, source, state) == [claim EXCEPT !.source = source, !.state = state]

\* Sign-off is asked of what a customer attests, not of public documents.
Trusted(source, signed) == source.sourceKind # "customer_attested" \/ source.id \in signed

\* What becomes of a number whose source has one.
ByBound(result) ==
    CASE result = "within" -> "verified"
      [] result = "exceeds" -> "rejected"
      [] OTHER -> "needs_human"

StateWith(claim, s, signed) ==
    CASE ~Trusted(s, signed) -> "needs_human"
      [] claim.kind # "numeric" \/ claim.payload = NoPayload -> "verified"
      [] s.payload = NoPayload -> "needs_human"
      [] OTHER -> ByBound(CheckNumericBound(claim.payload, s.payload))

ResolveTo(claim, s, signed) == Settle(claim, s.id, StateWith(claim, s, signed))

ResolveAmong(claim, found, signed) ==
    IF found = {} THEN Settle(claim, NoSource, "needs_human")
    ELSE ResolveTo(claim, CHOOSE s \in found : TRUE, signed)

Resolve(claim, sources, signed) ==
    ResolveAmong(claim, FindMatchingSource(claim, sources, signed), signed)

Uncovered(spans, claims) == {s \in Detected(spans) : \A c \in claims : c.span # s.id}

\* Without claims only the scan decides, whether the extraction found none or failed.
Action(spans, resolved) ==
    CASE \E c \in resolved : c.state = "rejected" -> "block"
      [] (\E c \in resolved : c.state = "needs_human") \/ Uncovered(spans, resolved) # {} ->
            "needs_human"
      [] OTHER -> "pass"

Decide(spans, resolved) == [action |-> Action(spans, resolved), claims |-> resolved]

\* The decision and the claims as they are persisted.
VerifyAndDecide(spans, claims, sources, signed) ==
    Decide(spans, {Resolve(c, sources, signed) : c \in claims})

-----------------------------------------------------------------------------
(* The gates                                                               *)

CONSTANTS Superlatives    \* the lexicon of superlatives, each a set of words

ASSUME GateAssumption == Superlatives \subseteq SUBSET Words \ {{}}

Flaws == {"adversarial", "persona", "stuffed", "malformed", "claimIds"}

Verdict(blocked) == IF blocked THEN "block" ELSE "pass"

\* A claim that was bound to a source when it was last verified, trusted or not.
Bound(claims) == {c \in claims : c.source # NoSource}

-----------------------------------------------------------------------------
(* Structural gates                                                        *)

\* Mutation: channels are not looked at.
SamePhrasing(d, other) == d.phrasing = other.phrasing

\* isPrWireSyndicationCopy: both go out over the wire, as one phrasing.
SyndicationCopy(d, other) ==
    d.channel = "pr_wire" /\ other.channel = "pr_wire" /\ d.phrasing = other.phrasing

\* Texts of the same language are compared, whatever became of the sibling.
Twins(d, others) ==
    {o \in others : o.id # d.id /\ o.language = d.language /\ o.text = d.text
                    /\ ~SyndicationCopy(d, o)}

PhrasingVariation(d, siblings) == Verdict(Twins(d, siblings) # {})

\* findSuperlativeHits
SuperlativesIn(text) == {term \in Superlatives : term \subseteq text.words}

\* A superlative is covered by a bound claim, or by a signed source, whose text contains
\* it or is a part of it.
SuperlativeCovered(term, claims, sources, signed) ==
    \/ \E c \in Bound(claims) : ContainsText(term, c.text.words)
    \/ \E s \in sources : s.id \in signed /\ ContainsText(term, s.text.words)

\* The scanner reads digits and the multiplier behind them, not the unit.
HitValue(span) == span.payload.value * (IF span.payload.unit = "manwon" THEN 10000 ELSE 1)

\* Mutation: a source need not be signed for its number to be used.
AnySourceCovers(span, sources, signed) ==
    \E s \in sources : /\ s.kind = "numeric" /\ s.payload # NoPayload
                       /\ s.payload.value = HitValue(span)

SourceCovers(span, sources, signed) ==
    \E s \in sources : /\ s.id \in signed /\ s.kind = "numeric" /\ s.payload # NoPayload
                       /\ s.payload.value = HitValue(span)

NumberCovered(span, claims, sources, signed) ==
    \/ \E c \in Bound(claims) : c.kind = "numeric" /\ c.span = span.id
    \/ SourceCovers(span, sources, signed)

\* An answer block that names claim ids of its own is never resolved: extraction
\* draws the ids of its claims at random.
VerifiableNumbers(d, claims, sources, signed) ==
    Verdict(\/ \E s \in d.spans : \E term \in SuperlativesIn(s.text) :
                  ~SuperlativeCovered(term, claims, sources, signed)
            \/ "claimIds" \in d.flaws
            \/ \E s \in d.spans : s.kind = "numeric" /\ ~NumberCovered(s, claims, sources, signed))

\* Counts of reviews, ratings, testimonials: covered by a bound claim that says so.
NoFakeSignals(d, claims) ==
    Verdict(/\ d.signal # {}
            /\ \A c \in Bound(claims) : ~(d.signal \subseteq c.text.words)
                                        /\ ~(c.text.words \subseteq d.signal))

AdversarialBlocklist(d) == Verdict("adversarial" \in d.flaws)
NoFabricatedPersona(d)  == Verdict(d.type # "jsonld" /\ "persona" \in d.flaws)
KeywordStuffing(d)      == Verdict(d.type # "jsonld" /\ "stuffed" \in d.flaws)

\* The brand is looked for only by who knows its names.
SelfContainedness(d, aliasesKnown) ==
    IF \/ aliasesKnown /\ d.type \in {"definition", "answer_block", "case_study"} /\ ~d.named
       \/ d.type \in {"answer_block", "case_study"} /\ d.pronoun
    THEN "needs_human" ELSE "pass"

RequiresDisclosure(channel) == channel \in {"pr_wire", "directory", "web2", "social"}

Disclosure(d) == Verdict(RequiresDisclosure(d.channel) /\ ~d.tag)

\* Structured data carries no superlative, and no number without a bound claim.
JsonLdShape(d, claims) ==
    Verdict(/\ d.type = "jsonld"
            /\ \/ "malformed" \in d.flaws
               \/ \E s \in d.spans : SuperlativesIn(s.text) # {}
               \/ \E s \in d.spans : /\ s.kind = "numeric"
                                     /\ \A c \in Bound(claims) : c.span # s.id)

-----------------------------------------------------------------------------
(* The fold                                                                *)

CheapVerdicts(d, claims, siblings, aliasesKnown, sources, signed) ==
    {PhrasingVariation(d, siblings), VerifiableNumbers(d, claims, sources, signed),
     NoFakeSignals(d, claims), AdversarialBlocklist(d),
     SelfContainedness(d, aliasesKnown), NoFabricatedPersona(d), KeywordStuffing(d),
     Disclosure(d), JsonLdShape(d, claims)}

TerminalStatus(verdicts) ==
    IF "block" \in verdicts THEN "blocked"
    ELSE IF "needs_human" \in verdicts THEN "needs_human" ELSE "passed"

\* Whether the fold comes to the paid gate, and the paid gate has to extract.
MustExtract(d, claims, siblings, aliasesKnown, sources, signed) ==
    /\ claims = {}
    /\ "block" \notin CheapVerdicts(d, claims, siblings, aliasesKnown, sources, signed)

Fold(claims, cheap, paid) ==
    IF "block" \in cheap THEN [status |-> "blocked", claims |-> claims]
    ELSE [status |-> TerminalStatus(cheap \cup {paid.action}), claims |-> paid.claims]

\* runContentGates: a blocked asset is not paid for, and keeps the claims it had.
\* extracted is what the model found if it was asked, and empty if it failed.
RunContentGates(d, claims, siblings, aliasesKnown, sources, signed, extracted) ==
    Fold(claims, CheapVerdicts(d, claims, siblings, aliasesKnown, sources, signed),
         VerifyAndDecide(d.spans, OrElse(claims, extracted), sources, signed))
=============================================================================
