---------------------------- MODULE ContentBuild ----------------------------
(***************************************************************************)
(* How an asset comes to be: the calls that write the prose of one         *)
(* language (src/content/generateContentForLanguage.ts), the bodies they   *)
(* are cast into (src/content/types.ts), their length (src/content/        *)
(* wordCount.ts), the structured data built from them (src/content/        *)
(* jsonld.ts), and what each reader of a body sees of it.                  *)
(*                                                                         *)
(* A text is a sequence of characters, or of words where only words count. *)
(***************************************************************************)
EXTENDS Integers, Sequences, FiniteSets, SequencesExt, FiniteSetsExt

GeneratableFormats == {"definition_sentence", "answer_block", "faq_table", "comparison_table",
                       "case_study"}

TypeOfFormat(format) ==
    CASE format = "definition_sentence" -> "definition"
      [] format = "answer_block" -> "answer_block"
      [] format = "faq_table" -> "faq"
      [] format = "comparison_table" -> "comparison"
      [] format = "case_study" -> "case_study"
      [] OTHER -> "jsonld"

-----------------------------------------------------------------------------
(* Length: characters are "w" (of a word), "p" (punctuation), " "          *)

MIN_WORDS == 134
MAX_WORDS == 167

CharacterScripts == {"ja", "zh", "ko", "th"}

\* Characters to a word, in tenths.
Ratio(script) ==
    CASE script = "ja" -> [low |-> 16, high |-> 24]
      [] script = "zh" -> [low |-> 16, high |-> 20]
      [] OTHER -> [low |-> 20, high |-> 30]

\* getCharBand, and the band of words for every other script.
Band(script) ==
    IF script \in CharacterScripts
    THEN [low |-> (MIN_WORDS * Ratio(script).low) \div 10,
          high |-> (MAX_WORDS * Ratio(script).high + 9) \div 10]
    ELSE [low |-> MIN_WORDS, high |-> MAX_WORDS]

\* Every visible character counts; a word starts where none was before.
ComputeLengthUnits(text, script) ==
    Cardinality({i \in DOMAIN text :
        text[i] # " " /\ (script \in CharacterScripts \/ i = 1 \/ text[i - 1] = " ")})

InBand(units, script) == units \in Band(script).low..Band(script).high

LengthInBand(text, script) == InBand(ComputeLengthUnits(text, script), script)

-----------------------------------------------------------------------------
(* Bodies                                                                  *)

\* LeanContentBodySchema. A body is [type, text, rows, columns, metrics]: the words of
\* its text and of the metrics of a case study, the number of rows and columns.
LeanContentBodySchema(body) ==
    CASE body.type = "faq" -> body.rows \in 3..8
      [] body.type = "comparison" -> body.rows >= 1 /\ body.columns >= 2
      [] OTHER -> body.text # <<>>

\* buildStorageBodyWithLength: what a model must not write is empty until it is bound.
BuildStorageBody(body, group, units) ==
    [body |-> body,
     meaning |-> IF body.type = "definition" THEN group ELSE "none",
     units |-> IF body.type = "answer_block" THEN units ELSE 0,
     claimIds |-> {}]

\* ContentBodySchema: an answer block of blanks has no length.
ContentBodySchema(stored) ==
    LeanContentBodySchema(stored.body) /\ (stored.body.type = "answer_block" => stored.units > 0)

\* What of an item is kept: [language, format, channel, group, body]. The format and the
\* channel the model writes are not compared with what it was asked for.
Constructed(item) ==
    BuildStorageBody(item.body, item.group, ComputeLengthUnits(item.body.text, item.language))

Accepted(items, language) ==
    SelectSeq(items, LAMBDA i : /\ i.language = language
                                /\ LeanContentBodySchema(i.body)
                                /\ ContentBodySchema(Constructed(i)))

-----------------------------------------------------------------------------
(* The calls of a language                                                 *)

\* Formats in the order of their first cell.
FormatsAsked(cells) ==
    LET asked == SelectSeq(cells, LAMBDA f : f \in GeneratableFormats)
    IN SelectSeq([i \in DOMAIN asked |-> [at |-> i, format |-> asked[i]]],
                 LAMBDA e : \A j \in 1..(e.at - 1) : asked[j] # e.format)

\* overGenTotal: 1.3 times the target, rounded up.
OverGenTotal(target) == (13 * target + 9) \div 10

Nothing == [items |-> <<>>, raw |-> 0, usd |-> 0, any |-> FALSE, code |-> "PROVIDER_ERROR",
            aborted |-> FALSE]

\* One format: answer = [kind, usd, items]. A key that is missing ends it all; any other
\* failure is noted as long as nothing has succeeded.
TakeAnswer(language, answer, so) ==
    CASE so.aborted -> so
      [] ~so.aborted /\ answer.kind = "NOT_CONFIGURED" ->
            [Nothing EXCEPT !.code = "NOT_CONFIGURED", !.aborted = TRUE]
      [] ~so.aborted /\ answer.kind = "ok" ->
            [so EXCEPT !.items = @ \o Accepted(answer.items, language),
                       !.raw = @ + Len(answer.items), !.usd = @ + answer.usd, !.any = TRUE]
      [] ~so.aborted /\ answer.kind = "throws" ->
            [so EXCEPT !.code = IF so.any THEN @ ELSE "PROVIDER_ERROR"]
      [] OTHER ->
            [so EXCEPT !.usd = @ + answer.usd, !.code = IF so.any THEN @ ELSE answer.kind]

\* generateContentForLanguage: answers holds one answer for each format asked.
GenerateContentForLanguage(language, cells, answers) ==
    LET end == FoldLeft(LAMBDA so, answer : TakeAnswer(language, answer, so), Nothing,
                        SubSeq(answers, 1, Len(FormatsAsked(cells))))
    IN [ok |-> FormatsAsked(cells) = <<>> \/ end.any,
        code |-> end.code, items |-> end.items, raw |-> end.raw, usd |-> end.usd]

-----------------------------------------------------------------------------
(* Insertion                                                               *)

RequiresTag(channel) == channel \in {"pr_wire", "directory", "web2", "social"}

\* validateBody: of an answer block the length is counted again, and must lie in the band.
ValidateBody(body, language) ==
    /\ ContentBodySchema(body)
    /\ body.body.type = "answer_block" => LengthInBand(body.body.text, language)

\* insertGeneratedItem: the row that is inserted, if the body is valid.
InsertedRow(item, review) ==
    [type |-> item.body.type, format |-> item.format, channel |-> item.channel,
     language |-> item.language, phrasing |-> item.group,
     words |-> IF item.body.type = "answer_block"
               THEN ComputeLengthUnits(item.body.text, item.language) ELSE 0,
     tag |-> RequiresTag(item.channel), review |-> review, status |-> "pending"]

-----------------------------------------------------------------------------
(* Structured data                                                         *)

\* Of the sources, those that are not the customer's own word and name a page. Whether
\* anyone signed them is not asked.
ExtractSameAsUrls(sources) ==
    {s.ref : s \in {t \in sources : t.kind # "customer_attested" /\ t.ref \in {"http", "https"}}}

\* organizationJsonLd of a brief: an alias may not be empty, a subject that is empty is left out.
OrganizationJsonLd(brief, sources) ==
    [ok |-> brief.name # "" /\ "" \notin brief.aliases, type |-> "Organization",
     url |-> "deferred", sameAs |-> ExtractSameAsUrls(sources),
     knows |-> brief.subjects \ {""}]

\* faqPageJsonLd: a row is a question and its answer.
FaqPageJsonLd(asset) ==
    [ok |-> asset.type = "faq" /\ asset.rows # <<>>, type |-> "FAQPage",
     language |-> asset.language, questions |-> asset.rows]

\* buildHeadline; limits = [least, most, slice, word] are 10, 120, 80 and 20 in the code.
HeadlineLimits == [least |-> 10, most |-> 120, slice |-> 80, word |-> 20]

Trimmed(text) ==
    LET seen == {i \in DOMAIN text : text[i] # " "}
    IN IF seen = {} THEN <<>> ELSE SubSeq(text, Min(seen), Max(seen))

LastSpace(text) == Max({0} \cup {i \in DOMAIN text : text[i] = " "})

\* Offsets count from 0 in the code: the character at offset i is text[i + 1].
BuildHeadline(text, group, limits) ==
    LET t == Trimmed(text)
        ends == {i \in DOMAIN t : t[i] = "."}
        slice == SubSeq(t, 1, Min({limits.slice, Len(t)}))
    IN IF t = <<>> THEN group
       ELSE IF ends # {} /\ Min(ends) - 1 > limits.least /\ Min(ends) - 1 <= limits.most
            THEN SubSeq(t, 1, Min(ends))
       ELSE IF LastSpace(slice) - 1 > limits.word
            THEN Trimmed(SubSeq(slice, 1, LastSpace(slice) - 1))
       ELSE Trimmed(slice)

\* articleJsonLd of an answer block or a case study: the metrics are left behind.
ArticleJsonLd(asset, limits) ==
    [ok |-> asset.type \in {"answer_block", "case_study"} /\ asset.text # <<>>,
     type |-> "Article", language |-> asset.language, text |-> asset.text,
     headline |-> BuildHeadline(asset.text, <<"g">>, limits), published |-> "none"]

\* extractNestedStrings: what the shape gate reads of structured data.
NestedStrings(data) ==
    CASE data.type = "Organization" -> {"name", "alternateName", "description", "knowsAbout"}
      [] data.type = "FAQPage" -> {"name", "text"}
      [] OTHER -> {"headline", "articleBody", "inLanguage", "author.name", "publisher.name"}

-----------------------------------------------------------------------------
(* Who reads what of a body                                                *)

FieldsOf(type) ==
    CASE type \in {"definition", "answer_block"} -> {"text"}
      [] type = "faq" -> {"q", "a"}
      [] type = "comparison" -> {"columns", "entity", "value"}
      [] type = "case_study" -> {"situation", "action", "result", "label", "before", "after"}
      [] OTHER -> {"json"}

\* extractBodyText of the gates, and extractTextForBackstop, leave out the metrics.
GateReads(type) == FieldsOf(type) \ {"label", "before", "after"}

\* extractBodyText of claimExtract.ts reads them.
ExtractionReads(type) == FieldsOf(type)

\* render.ts shows them, in a table and in the structured data.
PageShows(type) == IF type = "jsonld" THEN {"json"} ELSE FieldsOf(type)

\* How many characters come before a field's text where a claim's span is measured, and
\* where the scan's are: claimExtract.ts writes a label before a question or a section.
Label(field) ==
    CASE field \in {"q", "a"} -> 3
      [] field = "situation" -> 11
      [] field \in {"action", "result"} -> 8
      [] OTHER -> 0

\* The place of a token of the first field: its span at extraction and in the scan.
ExtractedAt(type, field, offset) == Label(field) + offset
ScannedAt(type, field, offset) == offset

\* Superlatives. An occurrence is [term, free]: free if no letter touches it.
ProseFinds(occurrences, term) ==
    \E i \in DOMAIN occurrences : occurrences[i].term = term /\ occurrences[i].free

\* findSuperlativesInText of jsonLdShape.ts looks at the first occurrence only.
JsonLdFinds(occurrences, term) ==
    LET places == {i \in DOMAIN occurrences : occurrences[i].term = term}
    IN places # {} /\ occurrences[Min(places)].free

-----------------------------------------------------------------------------
(* What is promised                                                        *)

\* A language that gets anything at all is a success, what is kept was asked for in that
\* language and has a length, and a call is accounted for whatever it returned, unless the
\* key was missing.
LanguageIsAnswered(language, cells, answers) ==
    LET r == GenerateContentForLanguage(language, cells, answers)
        n == Len(FormatsAsked(cells))
        kinds == {answers[i].kind : i \in 1..n}
    IN /\ "NOT_CONFIGURED" \in kinds => ~r.ok /\ r.items = <<>>
       /\ "NOT_CONFIGURED" \notin kinds =>
             /\ r.ok <=> n = 0 \/ "ok" \in kinds
             /\ r.usd = FoldLeft(LAMBDA s, a : s + (IF a.kind = "throws" THEN 0 ELSE a.usd), 0,
                                 SubSeq(answers, 1, n))
             /\ Len(r.items) <= r.raw
       /\ \A i \in DOMAIN r.items : /\ r.items[i].language = language
                                    /\ r.items[i].body.type = "answer_block"
                                          => Constructed(r.items[i]).units > 0

\* What is inserted carries a tag where one is required and, of an answer block, the
\* length by which it was let in.
InsertedIsInBand(item) ==
    LET row == InsertedRow(item, FALSE)
    IN ValidateBody(Constructed(item), item.language) =>
          /\ row.type = "answer_block" => InBand(row.words, item.language)
          /\ RequiresTag(row.channel) => row.tag

\* "If ALL formats fail, returns ok:false with the first error code encountered."
FirstCodeIsReturned(cells, answers) ==
    LET r == GenerateContentForLanguage("en", cells, answers)
    IN ~r.ok => r.code = answers[1].kind

\* The item "matches the cell".
MatchesACell(cells, answers) ==
    LET r == GenerateContentForLanguage("en", cells, answers)
    IN \A i \in DOMAIN r.items : r.items[i].format \in ToSet(cells)

\* The body of an item is of the type of its format.
BodyFitsFormat(item) == item.body.type = TypeOfFormat(item.format)

\* A headline is not empty where the text is not, and "capped".
HeadlineIsCapped(text, limits, cap) ==
    LET h == BuildHeadline(text, <<"g">>, limits) IN h # <<>> /\ Len(h) <= cap

\* "Verified entity/profile URLs": none from a source nobody signed.
SameAsIsVerified(sources) ==
    ExtractSameAsUrls({s \in sources : ~s.signed}) \subseteq
        ExtractSameAsUrls({s \in sources : s.signed})

\* Whatever a page shows was read by the gates.
ShownIsScanned(type) == PageShows(type) \subseteq GateReads(type)

\* A span means the same place to who extracted it and to who looks for it.
SpansAgree(type) ==
    \A f \in FieldsOf(type) : ExtractedAt(type, f, 0) = ScannedAt(type, f, 0)
=============================================================================
