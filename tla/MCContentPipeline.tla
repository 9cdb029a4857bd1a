------------------------- MODULE MCContentPipeline -------------------------
(* Instances of ContentPipeline for TLC. *)
EXTENDS ContentPipeline, TLC

Vocabulary == {"spots", "ships", "overnight", "best", "ever", "skin", "sales"}
\* A superlative, and one that contains it.
SuperlativeTerms == {{"best"}, {"best", "ever"}}
Generic == {"skin"}

Says(words) == [words |-> words, negated |-> FALSE]

Thirty(unit, bound) == [value |-> 30, unit |-> unit, bound |-> bound]

\* A number and a superlative from public documents; an ability the customer attests.
Registry ==
    {[id |-> 1, kind |-> "numeric", text |-> Says({"spots"}),
      payload |-> Thirty("%", "upTo"), sourceKind |-> "public_url"],
     [id |-> 2, kind |-> "capability", text |-> Says({"ships", "overnight"}),
      payload |-> NoPayload, sourceKind |-> "customer_attested"],
     [id |-> 3, kind |-> "superlative", text |-> Says({"best"}),
      payload |-> NoPayload, sourceKind |-> "public_url"]}

\* A number, in the best words ever.
Number == [id |-> 1, kind |-> "numeric", text |-> Says({"spots", "best", "ever"}),
           payload |-> Thirty("%", "upTo")]
Ability == [id |-> 2, kind |-> "capability", text |-> Says({"ships", "overnight"}),
            payload |-> NoPayload]
\* A number no source has, among the metrics; no payload can be made of it.
Growth == [id |-> 3, kind |-> "numeric", text |-> Says({"sales"}),
           payload |-> NoPayload]

Plain(id, language, channel, text, spans) ==
    [id |-> id, language |-> language, channel |-> channel, type |-> "answer_block",
     phrasing |-> 1, tag |-> RequiresDisclosure(channel), text |-> text, spans |-> spans,
     metrics |-> {}, signal |-> {}, named |-> TRUE, pronoun |-> FALSE, flaws |-> {}]

CaseStudy(d, metrics) == [d EXCEPT !.type = "case_study", !.metrics = metrics]

\* Two near-duplicates without claims, and a case study with claims in another language.
ThreeDrafts ==
    <<Plain(1, 1, "pr_wire", 1, {}),
      Plain(2, 1, "owned_net", 1, {}),
      CaseStudy(Plain(3, 2, "owned_net", 2, {Number, Ability}), {Growth})>>

BothLanguages == [l \in {1, 2} |-> 3 - l]
Caps(n, channels) == [assets |-> n, formats |-> 2, languages |-> 2, channels |-> channels]

\* Nothing, the heavier language, both, and more than the week has left.
SomeCaps == {Caps(n, {"owned_net"}) : n \in {0, 4, 8}} \cup {Caps(12, {"owned_net", "web2"})}

CONSTANTS e1, e2

TwoEditors == {e1, e2}

SomeSigned == {{3}, {1, 3}}
\* One works at the command line, the other at the console.
ShellAndConsole == (e1 :> {"gateContent", "review"}) @@ (e2 :> {"web"})
AllFaults == {"crash", "siblings", "update"}
DiesOrLosesAnUpdate == {"crash", "update"}
=============================================================================
