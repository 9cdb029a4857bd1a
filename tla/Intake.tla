-------------------------------- MODULE Intake --------------------------------
(***************************************************************************)
(* From a brand's page to the questions asked about it (src/generate): the *)
(* page is fetched and read, the model makes a brief and drafts of it, and *)
(* a reviewed draft becomes the customer's template. A text is a value, a  *)
(* page a sequence of tags and texts; NULL is <<>>.                        *)
(***************************************************************************)
EXTENDS Integers, Sequences, FiniteSets, SequencesExt, FiniteSetsExt, Functions

NULL == <<>>

-----------------------------------------------------------------------------
(* Fetching. The web is a function from urls to                             *)
(* [scheme, host, addresses, answers, to]: what the name resolves to and    *)
(* what the server does, "page", "redirect", "error", "hangs" or "breaks".  *)

MAX_REDIRECTS == 3

\* Addresses of no public host: this network, loopback, private, shared, link-local.
IsBlockedIPv4(ip) ==
    \/ ip[1] \in {0, 10, 127}
    \/ ip[1] = 100 /\ ip[2] \in 64..127
    \/ ip[1] = 172 /\ ip[2] \in 16..31
    \/ ip[1] = 192 /\ ip[2] = 168
    \/ ip[1] = 169 /\ ip[2] = 254

RegistrableDomain(host) == IF Len(host) <= 2 THEN host ELSE SubSeq(host, Len(host) - 1, Len(host))

SchemeAllowed(page) == page.scheme \in {"http", "https"}

\* A name that resolves to nothing, or to one blocked address among others, is refused.
ResolveAndValidate(page) ==
    page.addresses # {} /\ \A ip \in page.addresses : ~IsBlockedIPv4(ip)

Refused(s, reason) == [s EXCEPT !.reason = reason]

\* One turn of the loop: a redirect is followed unless there is a reason not to.
FollowRedirect(web, s) ==
    LET here == web[Last(s.hops)]
        next == web[here.to[1]]
    IN IF s.reason # "" \/ here.answers # "redirect" \/ here.to = NULL THEN s
       ELSE IF ~SchemeAllowed(next) THEN Refused(s, "SCHEME")
       ELSE IF RegistrableDomain(next.host) # RegistrableDomain(web[s.hops[1]].host)
       THEN Refused(s, "CROSS_DOMAIN")
       ELSE IF ~ResolveAndValidate(next) THEN Refused(s, "BLOCKED")
       ELSE [s EXCEPT !.hops = Append(@, here.to[1])]

\* The urls asked for, in order, and the reason when there is no page.
UrlFetch(web, url) ==
    IF ~SchemeAllowed(web[url]) THEN [hops |-> <<>>, reason |-> "SCHEME"]
    ELSE IF ~ResolveAndValidate(web[url]) THEN [hops |-> <<>>, reason |-> "BLOCKED"]
    ELSE LET s == FoldLeft(LAMBDA t, i : FollowRedirect(web, t),
                           [hops |-> <<url>>, reason |-> ""], [i \in 1..MAX_REDIRECTS |-> i])
             last == web[Last(s.hops)].answers
         IN IF s.reason # "" THEN s
            ELSE CASE last = "page"     -> s
                   [] last = "redirect" -> Refused(s, "REDIRECTS")
                   [] last = "error"    -> Refused(s, "HTTP")
                   [] last = "hangs"    -> Refused(s, "TIMEOUT")
                   [] last = "breaks"   -> Refused(s, "FETCH")

\* The first rule for us, or for all, that is a prefix of the path; allow rules are not read.
CheckRobotsTxt(lines, path) ==
    LET mine(i) == LET agents == {j \in 1..i : lines[j].is = "agent"}
                   IN agents # {} /\ lines[Max(agents)].value \in {<<"*">>, <<"G", "P">>}
        hits == {i \in DOMAIN lines : /\ lines[i].is = "disallow" /\ mine(i)
                                      /\ IsPrefix(lines[i].value, path)}
    IN IF hits = {} THEN NULL ELSE <<lines[Min(hits)].value>>

CheckXRobotsTag(tags) ==
    IF tags \cap {"noai", "noimageai"} # {} THEN <<"noai">>
    ELSE IF tags \cap {"noindex", "none"} # {} THEN <<"noindex">> ELSE NULL

-----------------------------------------------------------------------------
(* Reading. A token is [is, of]: an "open" or "close" of a tag, or a text.  *)

\* "<head" opens a header too.
Opens(token, tag) ==
    token.is = "open" /\ (token.of = tag \/ (tag = "head" /\ token.of = "header"))
Closes(token, tag) == token.is = "close" /\ token.of = tag

\* From an opening tag to the first closing one: nesting is not seen.
StripOnce(page, tag) ==
    LET ends(i) == {j \in (i + 1)..Len(page) : Closes(page[j], tag)}
        rest[i \in 1..(Len(page) + 1)] ==
            IF i > Len(page) THEN <<>>
            ELSE IF Opens(page[i], tag) /\ ends(i) # {} THEN rest[Min(ends(i)) + 1]
            ELSE <<page[i]>> \o rest[i + 1]
    IN rest[1]

StripTag(page, tag) == StripOnce(StripOnce(page, tag), tag)
StripAllTags(page) == SelectSeq(page, LAMBDA t : t.is = "text")

NoiseTags == <<"head", "script", "nav", "footer", "header", "aside">>
ExtractBodyText(page) == StripAllTags(FoldLeft(StripTag, page, NoiseTags))

\* What stands within the tag, in the order of the page.
Inner(page, tag) ==
    LET within(i) == \E o \in 1..(i - 1) :
            Opens(page[o], tag) /\ (\E j \in (i + 1)..Len(page) : Closes(page[j], tag))
                                /\ ~\E j \in o..i : Closes(page[j], tag)
        places == SetToSortSeq({i \in DOMAIN page : page[i].is = "text" /\ within(i)}, <)
    IN [k \in DOMAIN places |-> page[places[k]]]

ExtractPage(page) ==
    [title |-> Inner(page, "title"), headings |-> Inner(page, "h1"),
     bodyText |-> ExtractBodyText(page)]

\* A page of scripts alone.
IsSpaShell(signals) ==
    signals.title = <<>> /\ signals.headings = <<>> /\ signals.bodyText = <<>>

-----------------------------------------------------------------------------
(* The brief. provider: "ok", "throws", "NOT_CONFIGURED" or an error code,  *)
(* paid when it reports usage.                                              *)

Outcome(ok, code, mode, degraded) ==
    [ok |-> ok, code |-> code, mode |-> mode, degraded |-> degraded, asked |-> TRUE,
     recorded |-> FALSE]

\* page is <<>> when there is no url, else what the fetch gave: NULL or <<page>> in turn.
Diagnose(page, industry, provider, paid) ==
    LET read == page # NULL /\ page[1] # NULL
        signals == ExtractPage(page[1][1])
        useful == read /\ ~IsSpaShell(signals)
        mode == IF useful THEN "full" ELSE "industry-only"
    IN IF page = NULL /\ ~industry
       THEN [Outcome(FALSE, "INSUFFICIENT_INPUT", "", TRUE) EXCEPT !.asked = FALSE]
       ELSE IF provider = "throws" THEN Outcome(FALSE, "PROVIDER_ERROR", "", ~useful)
       ELSE IF provider = "NOT_CONFIGURED" THEN Outcome(FALSE, provider, "", ~useful)
       ELSE [Outcome(provider = "ok", IF provider = "ok" THEN "" ELSE provider,
                     IF provider = "ok" THEN mode ELSE "", ~useful)
               EXCEPT !.recorded = paid]

-----------------------------------------------------------------------------
(* The drafts of one language                                               *)

IntentTypes == {"brand", "category", "comparison", "alternative", "useCase", "attribute"}
FunnelStages == {"awareness", "consideration", "decision"}
CoerceIntentType(raw, fallback) == IF raw \in IntentTypes THEN raw ELSE fallback
CoerceFunnelStage(raw) == IF raw \in FunnelStages THEN raw ELSE "awareness"

\* The cell of the intent at the stage, or at awareness, or the first one.
MatchedCell(cells, intent, stage) ==
    LET at(s) == {i \in DOMAIN cells : cells[i].intent = intent /\ cells[i].stage = s}
    IN cells[IF at(stage) # {} THEN Max(at(stage))
             ELSE IF at("awareness") # {} THEN Max(at("awareness")) ELSE 1]

\* result: [ok, items, usd]. A failed call's usage is dropped.
GenerateQuestionsForLanguage(lang, cells, result) ==
    LET draft(raw) ==
            LET intent == CoerceIntentType(raw.intent, cells[1].intent)
                stage == CoerceFunnelStage(raw.stage)
            IN [lang |-> lang, intent |-> intent, stage |-> stage,
                tier |-> MatchedCell(cells, intent, stage).tier, text |-> raw.text]
        kept == SelectSeq(result.items, LAMBDA raw : raw.text # "")
    IN IF cells = <<>> THEN [ok |-> TRUE, questions |-> <<>>, rawCount |-> 0, usd |-> 0]
       ELSE IF ~result.ok THEN [ok |-> FALSE, questions |-> <<>>, rawCount |-> 0, usd |-> 0]
       ELSE [ok |-> TRUE, questions |-> [i \in DOMAIN kept |-> draft(kept[i])],
             rawCount |-> Len(result.items), usd |-> result.usd]

-----------------------------------------------------------------------------
(* The draft template, and the customer's. A brief weighs its languages.    *)

\* The snapshot leaves the weights out: hints is what it says of languages.
BuildBriefSnapshot(brief) == [brand |-> brief.brand, hints |-> NULL]

BuildQuestionsPayload(questions, brief, lowResource) ==
    [i \in DOMAIN questions |->
        [lang |-> questions[i].lang, tier |-> questions[i].tier, stage |-> questions[i].stage,
         text |-> questions[i].text, snapshot |-> BuildBriefSnapshot(brief),
         needsNativeReview |-> questions[i].lang \in lowResource]]

\* The languages in the order of their first questions; a hint of the raw rows weighs
\* them, the first of several; 100 percent without one.
DeriveLanguages(payload) ==
    LET seen == FoldLeft(LAMBDA codes, q : IF Contains(codes, q.lang) THEN codes
                                           ELSE Append(codes, q.lang), <<>>, payload)
        hinting(code) == {i \in DOMAIN payload : payload[i].snapshot.hints # NULL
                                             /\ code \in DOMAIN payload[i].snapshot.hints[1]}
    IN [k \in DOMAIN seen |->
          [code |-> seen[k],
           weight |-> IF hinting(seen[k]) = {} THEN 100
                      ELSE payload[Min(hinting(seen[k]))].snapshot.hints[1][seen[k]]]]

\* ctx: [languages, maxLanguages], <<>> when the command gives none.
BuildCustomerTemplate(payload, ctx) ==
    LET languages == IF ctx.languages # <<>> THEN ctx.languages
                     ELSE IF payload = <<>> THEN <<[code |-> "en", weight |-> 100]>>
                     ELSE DeriveLanguages(payload)
    IN [languages |-> languages,
        questions |-> [i \in DOMAIN payload |->
            [lang |-> payload[i].lang, tier |-> payload[i].tier, stage |-> payload[i].stage,
             text |-> payload[i].text]],
        maxLanguages |-> IF ctx.maxLanguages # NULL THEN ctx.maxLanguages[1] ELSE Len(languages)]

\* What may be loaded: something to ask, all of it in a declared language.
CustomerTemplateSchema(t) ==
    /\ t.languages # <<>> /\ t.questions # <<>> /\ t.maxLanguages >= 1
    /\ \A i \in DOMAIN t.languages : t.languages[i].weight > 0
    /\ \A i \in DOMAIN t.questions :
          t.questions[i].text # ""
          /\ \E k \in DOMAIN t.languages : t.languages[k].code = t.questions[i].lang

\* Every row must be a question again.
ParseJsonbQuestions(payload) ==
    \A i \in DOMAIN payload : payload[i].text # "" /\ payload[i].lang # ""
                             /\ payload[i].tier \in {"core", "secondary", "longtail"}

\* Only an active row is written, and what was written is loaded: [wrote, loaded].
Materialize(status, payload, ctx) ==
    LET t == BuildCustomerTemplate(payload, ctx)
        readable == status = "active" /\ ParseJsonbQuestions(payload)
    IN [wrote |-> readable, loaded |-> readable /\ CustomerTemplateSchema(t), template |-> t]

-----------------------------------------------------------------------------
(* What the intake promises                                                 *)

\* The first n redirects from url, as far as they go.
Chain(web, url, n) ==
    FoldLeft(LAMBDA c, i : LET p == web[Last(c)]
                           IN IF p.answers = "redirect" /\ p.to # NULL THEN Append(c, p.to[1])
                              ELSE c, <<url>>, [i \in 1..n |-> i])

\* Only public hosts of the domain the user named are asked, a bounded number of times,
\* and the page is found exactly if the redirects lead to it in three.
FetchIsTheChain(web, url) ==
    LET f == UrlFetch(web, url)
        chain == Chain(web, url, MAX_REDIRECTS)
        fit(u) == /\ SchemeAllowed(web[u]) /\ ResolveAndValidate(web[u])
                  /\ RegistrableDomain(web[u].host) = RegistrableDomain(web[url].host)
    IN /\ Len(f.hops) <= MAX_REDIRECTS + 1 /\ IsPrefix(f.hops, chain)
       /\ \A u \in ToSet(f.hops) : fit(u)
       /\ f.reason = "" <=> /\ \A u \in ToSet(chain) : fit(u)
                            /\ web[Last(chain)].answers = "page"

\* Sixteen bits of an address tell whether it is of a reserved network.
IsReserved(a, b) ==
    LET n == a * 256 + b
        block(first, bits) == n >= first /\ n < first + 2 ^ (16 - bits)
    IN \/ block(0, 8) \/ block(10 * 256, 8) \/ block(127 * 256, 8)
       \/ block(100 * 256 + 64, 10) \/ block(172 * 256 + 16, 12)
       \/ block(192 * 256 + 168, 16) \/ block(169 * 256 + 254, 16)

\* The prose of a page is what stands within no noise tag.
BodyIsProse(page) ==
    LET depth(i, tag) == Cardinality({j \in 1..i : page[j].is = "open" /\ page[j].of = tag})
                       - Cardinality({j \in 1..i : page[j].is = "close" /\ page[j].of = tag})
        prose == {i \in DOMAIN page : page[i].is = "text"
                                      /\ \A tag \in ToSet(NoiseTags) : depth(i, tag) = 0}
        places == SetToSortSeq(prose, <)
    IN ExtractBodyText(page) = [k \in DOMAIN places |-> page[places[k]]]

\* A brief calls itself full exactly if a page was read, gives a reason otherwise, and
\* what it cost is recorded whatever came of it.
DiagnosisIsHonest(page, industry, provider, paid) ==
    LET d == Diagnose(page, industry, provider, paid)
    IN /\ d.ok => ((d.mode = "full") <=> ~d.degraded)
       /\ d.mode = "full" => page # NULL
       /\ ~d.asked => ~d.recorded
       /\ paid /\ d.asked /\ provider \notin {"throws", "NOT_CONFIGURED"} => d.recorded

\* Every draft is of a cell's kind, in the language asked for, and none is made up.
DraftsFitTheMatrix(lang, cells, result) ==
    LET g == GenerateQuestionsForLanguage(lang, cells, result)
    IN \A i \in DOMAIN g.questions :
          /\ g.questions[i].lang = lang /\ g.questions[i].intent \in IntentTypes
          /\ g.questions[i].stage \in FunnelStages
          /\ \E k \in DOMAIN result.items : result.items[k].text = g.questions[i].text
          /\ \E k \in DOMAIN cells : cells[k].tier = g.questions[i].tier

\* A template of the draft's own languages can always be loaded, asks all its questions
\* and trims no language.
MaterializedIsWhole(questions, brief) ==
    LET payload == BuildQuestionsPayload(questions, brief, {})
        m == Materialize("active", payload, [languages |-> <<>>, maxLanguages |-> NULL])
    IN /\ m.loaded <=> questions # <<>>
       /\ m.wrote /\ Len(m.template.questions) = Len(questions)
       /\ m.template.maxLanguages = Len(m.template.languages)

\* "weight hints ... written by assembleTemplate/diagnose": the brief's own weights.
WeightsSurvive(questions, brief) ==
    LET t == BuildCustomerTemplate(BuildQuestionsPayload(questions, brief, {}),
                                   [languages |-> <<>>, maxLanguages |-> NULL])
    IN \A k \in DOMAIN t.languages : t.languages[k].weight = brief.weights[t.languages[k].code]
=============================================================================
