-------------------------------- MODULE Pages --------------------------------
(***************************************************************************)
(* What is published of an asset: the page, its structured data and its    *)
(* address (src/deploy/connectors/render.ts, the pure parts of ownedNet.ts),*)
(* and the files that lead to it (sitemap, robots.txt, feed).              *)
(*                                                                         *)
(* A text is a sequence of lines; a line is a sequence of tokens: words    *)
(* ("w", "." a word that ends a sentence, "o" a terminator that no blank   *)
(* follows), "|" and "-".                                                  *)
(***************************************************************************)
EXTENDS Integers, Sequences, FiniteSets, SequencesExt, FiniteSetsExt

Occurrences(token, line) == Cardinality({i \in DOMAIN line : line[i] = token})

\* A delimiter, or a row with two bars.
IsPipeTableLine(line) ==
    /\ line # <<>> /\ line[1] = "|"
    /\ (Len(line) > 1 /\ ToSet(line) \subseteq {"|", "-"}) \/ Occurrences("|", line) >= 2

StripPipeTables(text) == SelectSeq(text, LAMBDA line : ~IsPipeTableLine(line))

Joined(text) == FoldLeft(LAMBDA s, line : s \o line, <<>>, text)

CleanInline(text) == SelectSeq(Joined(text), LAMBDA token : token # "|")

\* A sentence ends at a terminator that a blank or the end follows.
FirstSentence(words) ==
    LET ends == {i \in DOMAIN words : words[i] = "." \/ (words[i] = "o" /\ i = Len(words))}
    IN SubSeq(words, 1, Min(ends \cup {Len(words)}))

\* truncateAtBoundary over characters: the cut is at a blank in its last two fifths, loses
\* the punctuation before it and gains an ellipsis.
CutTail(slice) ==
    SubSeq(slice, 1, Max({0} \cup {i \in DOMAIN slice : slice[i] \notin {" ", ","}}))

TruncateAtBoundary(chars, max) ==
    LET slice == SubSeq(chars, 1, max)
        blank == Max({0} \cup {i \in DOMAIN slice : slice[i] = " "})
    IN IF Len(chars) <= max THEN chars
       ELSE Append(CutTail(IF 10 * (blank - 1) > 6 * max THEN SubSeq(slice, 1, blank - 1)
                                                         ELSE slice), "~")

\* headlineOf, and headlineOr with what stands in for a text that is all table. The
\* truncation is that of TruncateAtBoundary, and left out of the page.
HeadlineOr(text, fallback) ==
    LET h == FirstSentence(CleanInline(StripPipeTables(text)))
    IN IF h = <<>> THEN fallback ELSE h

-----------------------------------------------------------------------------
(* Prose with a table in it                                                *)


IsDelimiter(row) == Len(row) > 1 /\ ToSet(row) \subseteq {"|", "-"}

\* Cells of a row, without the bars at its ends.
Width(row) ==
    1 + Occurrences("|", SubSeq(row, 2, IF row[Len(row)] = "|" THEN Len(row) - 1 ELSE Len(row)))

Words(line) == SelectSeq(line, LAMBDA token : token # "|")

\* A run of table lines: its rows without delimiters, as wide as the widest.
Table(lines) ==
    LET rows == SelectSeq(lines, LAMBDA row : ~IsDelimiter(row))
    IN IF rows = <<>> THEN <<>>
       ELSE <<[kind |-> "table", width |-> Max({Width(rows[i]) : i \in DOMAIN rows}),
               words |-> Joined([i \in DOMAIN rows |-> Words(rows[i])])]>>

ProseLine(so, line) ==
    IF IsPipeTableLine(line) THEN [so EXCEPT !.table = Append(@, line)]
    ELSE [out |-> so.out \o Table(so.table)
                  \o (IF line = <<>> THEN <<>>
                      ELSE <<[kind |-> "p", width |-> 0, words |-> line]>>),
          table |-> <<>>]

\* renderProse: lines that are not of a table are paragraphs, word for word.
RenderProse(text) ==
    LET end == FoldLeft(ProseLine, [out |-> <<>>, table |-> <<>>], text)
    IN end.out \o Table(end.table)

-----------------------------------------------------------------------------
(* Pages. title stands in for a headline: the brand, or what the page is.  *)

MetaDescription(text) == Joined(StripPipeTables(text))

Or(words, other) == IF words = <<>> THEN other ELSE words

Paragraph(words) == <<[kind |-> "p", width |-> 0, words |-> words]>>

\* renderDefinition, and the DefinedTerm derived for it.
DefinitionPage(text, title) ==
    LET h1 == HeadlineOr(text, title)
        body == Or(CleanInline(StripPipeTables(text)), h1)
    IN [h1 |-> h1, shown |-> Paragraph(body), meta |-> MetaDescription(text),
        data |-> [type |-> "DefinedTerm", name |-> h1, text |-> body]]

\* renderAnswerBlock, and the Article derived for it.
AnswerPage(text, title) ==
    LET h1 == HeadlineOr(text, title)
    IN [h1 |-> h1, shown |-> Or(RenderProse(text), Paragraph(h1)), meta |-> MetaDescription(text),
        data |-> [type |-> "Article", name |-> h1,
                  text |-> Or(CleanInline(StripPipeTables(text)), h1)]]

\* renderComparison: a row is an entity and its cells; the header has the columns.
ComparisonTable(columns, rows) ==
    {columns} \cup {1 + rows[i] : i \in DOMAIN rows}

\* renderCaseStudy and its Article: the metrics are shown and folded into the data.
CaseStudyPage(sections, metrics, title) ==
    LET h1 == HeadlineOr(<<sections[1]>>, title)
    IN [h1 |-> h1, shown |-> Paragraph(Joined(sections) \o metrics),
        meta |-> MetaDescription(sections),
        data |-> [type |-> "Article", name |-> h1, text |-> Joined(sections) \o metrics]]

\* anchorSlug: the letters of a question, so many of them, or the place of the question.
AnchorSlug(question, i, most) ==
    LET letters == SelectSeq(question, LAMBDA c : c # "?")
    IN Or(SubSeq(letters, 1, IF Len(letters) < most THEN Len(letters) ELSE most), <<i>>)

Anchors(questions, most) == [i \in DOMAIN questions |-> AnchorSlug(questions[i], i, most)]

\* renderJsonLdPage: the data is what the caller gives, or the asset's own.
JsonLdPage(json, given) == IF given = {} THEN json ELSE CHOOSE g \in given : TRUE

\* The dates of a page: of the head, what the reader sees, and of the structured data.
PageDates(published, modified) ==
    [meta |-> published, seen |-> published,
     data |-> IF modified = {} THEN published ELSE CHOOSE m \in modified : TRUE]

\* websiteBase: the origin and the first segment of the path.
WebsiteBase(url) == [origin |-> url.origin, path |-> SubSeq(url.path, 1,
                                                          IF url.path = <<>> THEN 0 ELSE 1)]

-----------------------------------------------------------------------------
(* Addresses                                                               *)

MAX_WORDS == 6

\* naturalLanguageSlug: the first words of two letters that are no part of an address, and
\* the beginning of the id; the id alone if there are none. Words are [latin, short, host].
NaturalLanguageSlug(words, id) ==
    LET kept == SelectSeq(words, LAMBDA w : w.latin /\ ~w.short /\ ~w.host)
    IN IF kept = <<>> THEN <<id>>
       ELSE Append(SubSeq(kept, 1, IF Len(kept) < MAX_WORDS THEN Len(kept) ELSE MAX_WORDS), id)

\* A host is the sequence of its labels; so is what is blocked. NoHost is no address at all.
NoHost == <<>>

AssertNotBlocklisted(host, blocklist) ==
    IF blocklist = {} THEN "pass"
    ELSE IF host = NoHost \/ \E b \in blocklist : IsSuffix(b, host) THEN "BLOCKED" ELSE "pass"

\* stampDatePublished: an article gets its date; a deferred address stays as it is.
StampDatePublished(json, now) ==
    IF json.type = "Article" THEN [json EXCEPT !.published = now] ELSE json

\* resolveOwnedHubUrl, of an organization or of an article's author or publisher.
ResolveOwnedHubUrl(json, address) == IF json.url = "deferred" THEN {address} ELSE {}

\* unpublish: the page goes, and every entry whose address contains its directory.
Unpublish(site, base, dir) ==
    [files |-> site.files \ {dir},
     sitemap |-> {d \in site.sitemap : \A i \in 0..(Len(base \o d) - Len(dir)) :
                                          SubSeq(base \o d, i + 1, i + Len(dir)) # dir}]

-----------------------------------------------------------------------------
(* The ways in                                                             *)

\* renderSitemap: by address.
RenderSitemap(entries) == SortSeq(entries, LAMBDA a, b : a.loc < b.loc)

\* renderRss: the newest first, equals by address.
RenderRss(items) ==
    SortSeq(items, LAMBDA a, b : a.date > b.date \/ (a.date = b.date /\ a.url < b.url))

\* renderRobots: every crawler by its name, then everyone; lines as Instruments reads them.
RenderRobots(bots) ==
    LET line(is, value) == [is |-> is, value |-> value]
        block(bot) == <<line("agent", bot), line("allow", <<"/">>), line("blank", <<>>)>>
    IN <<line("comment", <<>>)>> \o FoldLeft(LAMBDA s, bot : s \o block(bot), <<>>, bots)
       \o <<line("agent", <<"*">>), line("allow", <<"/">>), line("blank", <<>>),
            line("other", <<>>)>>

-----------------------------------------------------------------------------
(* What is promised                                                        *)

\* No page without a headline, a body and a name; no table markup in either; every word of
\* an answer is shown, in its order.
PageIsWhole(text, title) ==
    /\ \A page \in {DefinitionPage(text, title), AnswerPage(text, title)} :
          /\ page.h1 # <<>> /\ page.shown # <<>> /\ page.data.text # <<>>
          /\ "|" \notin ToSet(page.h1) \cup ToSet(page.data.text)
    /\ LET shown == RenderProse(text)
           lines == SelectSeq(text, LAMBDA line : ~IsDelimiter(line))
       IN Words(Joined([i \in DOMAIN shown |-> shown[i].words])) = Words(Joined(lines))

\* "Pipe-free": the description of a page.
MetaIsPipeFree(text) == "|" \notin ToSet(MetaDescription(text))

\* Where the description loses nothing, the first sentence is all that the headline has.
SentenceEnds(words) == Len(FirstSentence(words)) < Len(words)

\* "At most max visible units", and no more of the text than its beginning.
Truncates(chars, max) ==
    LET t == TruncateAtBoundary(chars, max)
    IN Len(t) <= max + 1 /\ (t = chars \/ IsPrefix(Front(t), chars))
FitsIn(chars, max) == Len(TruncateAtBoundary(chars, max)) <= max

\* Each question has an address of its own on its page.
AnchorsAreDistinct(questions, most) == IsInjective(Anchors(questions, most))

\* The reader sees when the page last changed.
DateIsSeen(published, modified) ==
    PageDates(published, modified).seen = PageDates(published, modified).data

\* Two assets do not share an address unless their ids do.
SlugsAreUnique(words, others, id, other) ==
    id # other => NaturalLanguageSlug(words, id) # NaturalLanguageSlug(others, other)

\* A blocked host, and every host below it, is refused.
BlocksSubdomains(host, label, blocklist) ==
    AssertNotBlocklisted(host, blocklist) = "BLOCKED" =>
        AssertNotBlocklisted(<<label>> \o host, blocklist) = "BLOCKED"

\* What is taken down is gone from both, and takes nothing else along.
TakenDownAlone(site, base, dir) ==
    LET left == Unpublish(site, base, dir)
    IN /\ dir \notin left.files \cup left.sitemap
       /\ site.files \ left.files \subseteq {dir}
       /\ site.sitemap \ left.sitemap \subseteq {dir}

\* The order of what is listed does not show in the list.
OrderDoesNotShow(entries, f(_)) ==
    \A p \in SetToAllKPermutations(ToSet(entries)) : Len(p) = Len(entries) => f(p) = f(entries)
=============================================================================
