----------------------------- MODULE Instruments ------------------------------
(***************************************************************************)
(* The secondary measurements (src/metrics, src/judge): who may crawl, what *)
(* the engines cite and how stable it is, how long a page waits for its    *)
(* first citation, and how far judges agree. A rate is a pair              *)
(* <<numerator, denominator>>; confidence intervals and square roots are   *)
(* left out. NULL is <<>>.                                                 *)
(***************************************************************************)
EXTENDS Integers, Sequences, FiniteSets, SequencesExt, FiniteSetsExt, Functions

NULL == <<>>
Rate(a, b) == IF b = 0 THEN <<0, 1>> ELSE <<a, b>>
AtMost(p, q) == p[1] * q[2] <= q[1] * p[2]
Below(p, q) == ~AtMost(q, p)
Total(S, f(_)) == FoldSet(LAMBDA x, sum : sum + f(x), 0, S)

-----------------------------------------------------------------------------
(* robots.txt. A line is [is, value]: "agent", "allow" and "disallow" with  *)
(* the characters of their value, "blank", "comment" or "other".            *)

NoGroup == [agents |-> <<>>, allow |-> {}, disallow |-> {}, open |-> FALSE]

Flushed(s) ==
    [groups |-> IF s.current.agents = <<>> THEN s.groups ELSE Append(s.groups, s.current),
     current |-> NoGroup]

\* A rule ends the list of agents it holds for; one without agents is dropped, and a
\* disallow of nothing allows all.
ParseLine(s, line) ==
    LET grouped == s.current.agents # <<>>
        closed == s.current.allow \cup s.current.disallow # {}
        base == IF grouped /\ closed THEN Flushed(s) ELSE s
    IN CASE line.is = "blank" -> IF s.current.open THEN Flushed(s) ELSE s
         [] line.is = "agent" ->
              [base EXCEPT !.current.agents = Append(@, line.value), !.current.open = TRUE]
         [] line.is = "allow" /\ grouped ->
              [s EXCEPT !.current.allow = @ \cup {line.value}]
         [] line.is = "disallow" /\ grouped /\ line.value # <<>> ->
              [s EXCEPT !.current.disallow = @ \cup {line.value}]
         [] OTHER -> s

ParseRobots(lines) ==
    Flushed(FoldLeft(ParseLine, [groups |-> <<>>, current |-> NoGroup], lines)).groups

\* The characters i.. of the pattern match a prefix of the characters j.. of the path; a
\* "$" matches the end.
Matches(pattern, path) ==
    LET m[i \in 1..(Len(pattern) + 1), j \in 1..(Len(path) + 1)] ==
            IF i > Len(pattern) THEN TRUE
            ELSE CASE pattern[i] = "*" -> \E k \in j..(Len(path) + 1) : m[i + 1, k]
                   [] pattern[i] = "$" -> j > Len(path) /\ m[i + 1, j]
                   [] OTHER -> j <= Len(path) /\ path[j] = pattern[i] /\ m[i + 1, j + 1]
    IN m[1, 1]

LongestMatch(patterns, path) ==
    Max({-1} \cup {Len(p) : p \in {q \in patterns : Matches(q, path)}})

\* The groups that name the crawler, by the longest agent that is a prefix of its name;
\* the first of equals, or else the last of the wildcards.
GroupFor(groups, bot) ==
    LET score(g) == Max({-1} \cup {Len(a) : a \in {b \in ToSet(g.agents) :
                                                     b # <<"*">> /\ IsPrefix(b, bot)}})
        named == {i \in DOMAIN groups : score(groups[i]) >= 0}
        wild == {i \in DOMAIN groups : <<"*">> \in ToSet(groups[i].agents)}
    IN IF named # {}
       THEN <<groups[CHOOSE i \in named :
                \A k \in named : \/ score(groups[i]) > score(groups[k])
                                 \/ score(groups[i]) = score(groups[k]) /\ i <= k]>>
       ELSE IF wild # {} THEN <<groups[Max(wild)]>> ELSE <<>>

IsAllowed(groups, bot, path) ==
    LET g == GroupFor(groups, bot)
    IN g = <<>> \/ LongestMatch(g[1].allow, path) >= LongestMatch(g[1].disallow, path)

\* Without a robots.txt nothing is known.
BotAccessibility(robots, bots) ==
    [b \in bots |-> IF robots = NULL THEN "unknown"
                    ELSE IF IsAllowed(ParseRobots(robots[1]), b, <<"/">>) THEN "allowed"
                    ELSE "disallowed"]

AggregateAccessibility(domains, bots) ==
    LET status == [d \in DOMAIN domains |-> BotAccessibility(domains[d], bots)]
        count(b, s) == Cardinality({d \in DOMAIN domains : status[d][b] = s})
        eligible(d, s) == Cardinality({b \in bots : status[d][b] \in s})
    IN [perBot |-> [b \in bots |->
           [allowed |-> count(b, "allowed"), disallowed |-> count(b, "disallowed"),
            unknown |-> count(b, "unknown"),
            allowedShare |-> Rate(count(b, "allowed"),
                                  count(b, "allowed") + count(b, "disallowed"))]],
        perDomain |-> [d \in DOMAIN domains |->
           Rate(eligible(d, {"allowed"}), eligible(d, {"allowed", "disallowed"}))]]

-----------------------------------------------------------------------------
(* Earned sources. A signal is [cited, fetched, mentioned, model].          *)

\* row: a response with its trace, none for one that was served from the cache or never
\* grounded; own: the domains of search engines themselves.
FetchSourceSignals(rows, own) ==
    [i \in DOMAIN SelectSeq(rows, LAMBDA r : r.grounded) |->
        LET r == SelectSeq(rows, LAMBDA s : s.grounded)[i]
        IN [cited |-> r.cited \ own, fetched |-> r.fetched \ own,
            mentioned |-> r.mentioned, model |-> r.model]]

AggregateEarnedSources(signals) ==
    LET having(P(_)) == Cardinality({i \in DOMAIN signals : P(signals[i])})
        domains == UNION {signals[i].cited \cup signals[i].fetched : i \in DOMAIN signals}
    IN [d \in domains |->
         LET c == having(LAMBDA s : d \in s.cited)
             f == having(LAMBDA s : d \in s.fetched)
         IN [cited |-> c, fetched |-> f,
             coCited |-> having(LAMBDA s : d \in s.cited /\ s.mentioned),
             citationRate |-> Rate(c, Len(signals)),
             citedWhenFetchedRate |-> Rate(c, f)]]

\* Engines that cited nothing overlap with nobody. pooledSafe from a fifth on.
EnginePair(signals, a, b) ==
    LET of(m) == UNION {signals[i].cited : i \in {j \in DOMAIN signals : signals[j].model = m}}
        both == Cardinality(of(a) \cap of(b))
        either == Cardinality(of(a) \cup of(b))
    IN [jaccard |-> Rate(both, either), pooledSafe |-> AtMost(<<1, 5>>, Rate(both, either)),
        lowData |-> Cardinality(of(a)) < 3 \/ Cardinality(of(b)) < 3]

ComputeEngineOverlap(signals) ==
    LET engines == {signals[i].model : i \in DOMAIN signals}
    IN [p \in {q \in engines \X engines : q[1] < q[2]} |-> EnginePair(signals, p[1], p[2])]

\* The place of a domain among the distinct ones, and among all answers.
Distinct(seq) == FoldLeft(LAMBDA seen, d : IF d = "" \/ Contains(seen, d) THEN seen
                                           ELSE Append(seen, d), <<>>, seq)
FirstCitationRank(cited, target) ==
    LET seen == Distinct(cited)
    IN [rank |-> IF target # "" /\ Contains(seen, target)
                 THEN CHOOSE i \in DOMAIN seen : seen[i] = target ELSE 0,
        nCited |-> Len(seen)]

Percentile(sorted, percent) ==
    IF sorted = <<>> THEN 0 ELSE sorted[(percent * Len(sorted) + 99) \div 100]

AggregateCitationRanks(positions) ==
    LET ranks == SortSeq(SelectSeq([i \in DOMAIN positions |-> positions[i].rank],
                                   LAMBDA r : r # 0), LAMBDA x, y : x < y)
    IN [citedShare |-> Rate(Len(ranks), Len(positions)),
        medianRank |-> Percentile(ranks, 50), p75Rank |-> Percentile(ranks, 75)]

-----------------------------------------------------------------------------
(* Stability of the sources between runs                                    *)

JaccardSet(a, b) == IF a \cup b = {} THEN <<1, 1>>
                    ELSE <<Cardinality(a \cap b), Cardinality(a \cup b)>>

\* Overlap of the prefixes, each depth weighing 9/10 of the one before; scaled by
\* 10^(k-1) * 6, which suffices for lists of up to three.
Rbo(listA, listB) ==
    LET a == Distinct(listA)
        b == Distinct(listB)
        k == IF Len(a) > Len(b) THEN Len(a) ELSE Len(b)
        top(s, d) == {s[i] : i \in {j \in DOMAIN s : j <= d}}
        weight(d) == 9 ^ (d - 1) * 10 ^ (k - d)
        overlap(d) == Cardinality(top(a, d) \cap top(b, d))
    IN IF k = 0 THEN <<1, 1>>
       ELSE IF a = <<>> \/ b = <<>> THEN <<0, 1>>
       ELSE <<Total(1..k, LAMBDA d : weight(d) * overlap(d) * (6 \div d)),
              Total(1..k, LAMBDA d : weight(d) * 6)>>

\* The mean over all pairs of runs, below a half volatile.
ComputeSourceStability(runs) ==
    LET pairs == {p \in (DOMAIN runs) \X (DOMAIN runs) : p[1] < p[2]}
        \* With a common denominator of 60, the rates of sets of up to six domains.
        sixtieths(p) == LET j == JaccardSet(ToSet(runs[p[1]]), ToSet(runs[p[2]]))
                        IN j[1] * (60 \div j[2])
    IN IF Len(runs) < 2 THEN [mean |-> NULL, volatile |-> FALSE]
       ELSE LET mean == <<Total(pairs, sixtieths), 60 * Cardinality(pairs)>>
            IN [mean |-> mean, volatile |-> Below(mean, <<1, 2>>)]

\* Twice the mean deviation over the mean: null for nothing, or nothing but zeros.
Gini(counts) ==
    LET n == Len(counts)
        sum == Total(DOMAIN counts, LAMBDA i : counts[i])
        diff(p) == IF counts[p[1]] > counts[p[2]] THEN counts[p[1]] - counts[p[2]]
                   ELSE counts[p[2]] - counts[p[1]]
    IN IF n = 0 \/ sum = 0 THEN NULL
       ELSE <<Total((1..n) \X (1..n), diff), 2 * n * sum>>

-----------------------------------------------------------------------------
(* Time to the first citation                                               *)

\* Percentiles by Kaplan and Meier: the first time at which the share of the cited,
\* counting those still watched, reaches p; NULL when it never does. The share that is
\* not yet cited is kept as a rate.
KmPercentile(durations, percent) ==
    LET times == SortSeq(SetToSeq({durations[i].time : i \in {j \in DOMAIN durations :
                                                               durations[j].event}}),
                         LAMBDA x, y : x < y)
        atRisk(t) == Cardinality({i \in DOMAIN durations : durations[i].time >= t})
        events(t) == Cardinality({i \in DOMAIN durations : durations[i].event
                                                           /\ durations[i].time = t})
        survival == [k \in DOMAIN times |->
                        FoldLeft(LAMBDA s, t : <<s[1] * (atRisk(t) - events(t)), s[2] * atRisk(t)>>,
                                 <<1, 1>>, SubSeq(times, 1, k))]
        reached == {k \in DOMAIN times : AtMost(survival[k], <<100 - percent, 100>>)}
    IN IF reached = {} THEN NULL ELSE <<times[Min(reached)]>>

\* An asset cited before it was watched counts as not cited yet; one whose watch has not
\* begun is left out. cited is -1 for never.
Durations(observations) ==
    LET counted(o) == (o.cited >= 0 /\ o.cited >= o.since) \/ o.asOf >= o.since
        duration(o) == IF o.cited >= 0 /\ o.cited >= o.since
                       THEN [time |-> o.cited - o.since, event |-> TRUE]
                       ELSE [time |-> o.asOf - o.since, event |-> FALSE]
        kept == SelectSeq(observations, counted)
    IN [i \in DOMAIN kept |-> duration(kept[i])]

ComputeTtfc(observations) ==
    LET d == Durations(observations)
        events == Cardinality({i \in DOMAIN d : d[i].event})
        at(percent) == IF events = 0 THEN NULL ELSE KmPercentile(d, percent)
    IN [n |-> Len(d), events |-> events, censored |-> Len(d) - events,
        median |-> at(50), p75 |-> at(75), p90 |-> at(90)]

-----------------------------------------------------------------------------
(* Drift, pooling and agreement                                             *)

CellIsValid(c) == c.n >= 0 /\ c.hits >= 0 /\ c.hits <= c.n

\* What the content did is what the targeted cells did beyond the holdout; over a common
\* denominator. Too few samples anywhere make it low power.
ComputeDriftControl(cells, minN) ==
    LET n(k) == IF cells[k].n = 0 THEN 1 ELSE cells[k].n
        common == n("tb") * n("ta") * n("hb") * n("ha")
        rate(k) == cells[k].hits * (common \div n(k))
    IN [netEffect |-> <<(rate("ta") - rate("tb")) - (rate("ha") - rate("hb")), common>>,
        lowPower |-> \E k \in DOMAIN cells : cells[k].n < minN \/ cells[k].n = 0]

\* Five samples of the grand rate g are added.
PartialPool(hits, n, g) == <<hits * g[2] + 5 * g[1], (n + 5) * g[2]>>

\* Agreement of two judges beyond chance: null without a pair.
Agreement(a, b) ==
    LET n == IF Len(a) < Len(b) THEN Len(a) ELSE Len(b)
        yes(s) == Cardinality({i \in 1..n : s[i]})
    IN [n |-> n, agree |-> Cardinality({i \in 1..n : a[i] = b[i]}), yesA |-> yes(a), yesB |-> yes(b)]

CohenKappa(a, b) ==
    LET g == Agreement(a, b)
        chance == g.yesA * g.yesB + (g.n - g.yesA) * (g.n - g.yesB)
    IN IF g.n = 0 THEN NULL
       ELSE IF chance = g.n * g.n THEN (IF g.agree = g.n THEN <<1, 1>> ELSE <<0, 1>>)
       ELSE <<g.n * g.agree - chance, g.n * g.n - chance>>

GwetAC1(a, b) ==
    LET g == Agreement(a, b)
        yes == g.yesA + g.yesB
        chance == yes * (2 * g.n - yes)
    IN IF g.n = 0 THEN NULL
       ELSE <<2 * g.n * g.agree - chance, 2 * g.n * g.n - chance>>

\* Too few pairs certify nothing; then the coefficient decides.
CertifyJudge(judge, gold, minN) ==
    LET ac1 == GwetAC1(judge, gold)
        n == Agreement(judge, gold).n
    IN [ac1 |-> ac1,
        status |-> IF n < minN \/ n = 0 THEN "not_measurable"
                   ELSE IF Below(ac1, <<3, 5>>) THEN "low_trust" ELSE "ok"]

\* The corrected rate of a detector, clamped; NULL when it tells nothing.
RoganGladen(p, se, sp) ==
    LET denom == se + sp - 100
        raw == p + sp - 100
    IN IF se <= 0 \/ sp <= 0 \/ denom <= 0 THEN NULL
       ELSE <<IF raw < 0 THEN 0 ELSE IF raw > denom THEN denom ELSE raw, denom>>

\* Wholly calibrated only with enough observations and enough of both calibrations; -1
\* is a size that was not given. Without observations there is no interval.
DebiasedVisibility(p, nObs, se, sp, seN, spN) ==
    LET rate == RoganGladen(p, se, sp)
    IN [rate |-> rate, interval |-> rate # NULL /\ nObs > 0,
        lowCalibration |-> (seN >= 0 /\ seN < 20) \/ (spN >= 0 /\ spN < 20),
        calibrated |-> rate # NULL /\ nObs >= 30 /\ seN >= 20 /\ spN >= 20]

-----------------------------------------------------------------------------
(* What the measurements promise                                            *)

IsShare(p) == AtMost(<<0, 1>>, p) /\ AtMost(p, <<1, 1>>)

\* Each bot is counted once for each domain, and only what is known makes a share.
AccessAddsUp(domains, bots) ==
    LET c == AggregateAccessibility(domains, bots)
    IN \A b \in bots :
         /\ c.perBot[b].allowed + c.perBot[b].disallowed + c.perBot[b].unknown
              = Cardinality(DOMAIN domains)
         /\ IsShare(c.perBot[b].allowedShare)
         /\ c.perBot[b].unknown = Cardinality({d \in DOMAIN domains : domains[d] = NULL})

\* A crawler obeys the rules that follow the agent naming it best, up to the first agent
\* after a rule; lines without a directive mean nothing ("Comments and blank lines are
\* ignored", "before any Allow/Disallow form one group").
MeansWhatItSays(lines, bot, path) ==
    LET isAgent(i) == lines[i].is = "agent"
        isRule(i) == lines[i].is \in {"allow", "disallow"}
        naming == {i \in DOMAIN lines : isAgent(i) /\ lines[i].value # <<"*">>
                                                   /\ IsPrefix(lines[i].value, bot)}
        best == {i \in naming : \A j \in naming : Len(lines[j].value) <= Len(lines[i].value)}
        wild == {i \in DOMAIN lines : isAgent(i) /\ lines[i].value = <<"*">>}
        at == IF best # {} THEN Min(best) ELSE Max(wild)
        rules == {i \in DOMAIN lines : /\ i > at /\ isRule(i)
                                       /\ \A k \in at..i, l \in at..i :
                                             k < l => ~(isRule(k) /\ isAgent(l))}
        values(is) == {lines[i].value : i \in {j \in rules : lines[j].is = is}} \ {<<>>}
        allowed == LongestMatch(values("allow"), path) >= LongestMatch(values("disallow"), path)
    IN (best = {} /\ wild = {}) \/ allowed

\* Percentiles grow, one that is missing makes the later ones missing, and without
\* censoring each is the time by which that share of the assets was cited.
TtfcIsOrdered(observations) ==
    LET t == ComputeTtfc(observations)
        d == Durations(observations)
        before(p, q) == q # NULL => (p # NULL /\ p[1] <= q[1])
        citedBy(x) == Cardinality({i \in DOMAIN d : d[i].event /\ d[i].time <= x})
    IN /\ before(t.median, t.p75) /\ before(t.p75, t.p90)
       /\ (t.censored = 0 /\ t.n > 0) => /\ 2 * citedBy(t.median[1]) >= t.n
                                         /\ 2 * citedBy(t.median[1] - 1) < t.n

\* Swapping the lists, or the order of the runs, changes nothing; equal lists agree fully.
StabilityIsSymmetric(a, b) ==
    /\ JaccardSet(ToSet(a), ToSet(b)) = JaccardSet(ToSet(b), ToSet(a))
    /\ Rbo(a, b) = Rbo(b, a)
    /\ Rbo(a, b)[1] = Rbo(a, b)[2] <=> Distinct(a) = Distinct(b)
    /\ ComputeSourceStability(<<a, b>>) = ComputeSourceStability(<<b, a>>)

\* Every rate of a source is a share, as long as what is cited was fetched.
SourceRatesAreShares(signals) ==
    (\A i \in DOMAIN signals : signals[i].cited \subseteq signals[i].fetched)
      => \A r \in Range(AggregateEarnedSources(signals)) :
            /\ IsShare(r.citationRate) /\ IsShare(r.citedWhenFetchedRate)
            /\ r.coCited <= r.cited

\* Judges that always agree are perfect, whatever the prevalence, and no coefficient
\* exceeds one; only a certified judge is trusted.
AgreementIsBounded(a, b) ==
    Len(a) > 0 /\ Len(a) = Len(b) =>
        /\ AtMost(CohenKappa(a, b), <<1, 1>>) /\ AtMost(GwetAC1(a, b), <<1, 1>>)
        /\ (a = b) <=> GwetAC1(a, b)[1] = GwetAC1(a, b)[2]
        /\ a = b => CertifyJudge(a, b, Len(a)).status = "ok"

\* What the cohort left alone did too is no effect, and before and after swapped negate it.
DriftIsTakenOut(cells, minN) ==
    LET d(c) == ComputeDriftControl(c, minN).netEffect
        alike == [cells EXCEPT !.hb = cells.tb, !.ha = cells.ta]
        swapped == [tb |-> cells.ta, ta |-> cells.tb, hb |-> cells.ha, ha |-> cells.hb]
    IN /\ d(alike)[1] = 0
       /\ d(cells)[1] = -d(swapped)[1] /\ d(cells)[2] = d(swapped)[2]

\* Pooling moves a rate towards the grand rate, never past it.
PoolingShrinks(hits, n, g) ==
    LET pooled == PartialPool(hits, n, g)
        own == <<hits, n>>
    IN /\ Below(own, g) => (AtMost(own, pooled) /\ AtMost(pooled, g))
       /\ ~Below(own, g) => (AtMost(g, pooled) /\ AtMost(pooled, own))

\* The correction is a share, grows with what was observed, leaves a perfect detector's
\* rate alone, and one no better than chance gets none.
CorrectionIsMonotone(p, q, se, sp) ==
    LET r == DebiasedVisibility(p, 30, se, sp, 20, 20).rate
        t == DebiasedVisibility(q, 30, se, sp, 20, 20).rate
    IN /\ (r # NULL) <=> se + sp > 100
       /\ r # NULL => IsShare(r) /\ (p <= q => AtMost(r, t))
       /\ se = 100 /\ sp = 100 => r = <<p, 100>>

\* Where a domain stands does not depend on how often those before it are cited, and the
\* order of the counts does not change how unequal they are.
RanksIgnoreRepeats(cited, target) ==
    /\ FirstCitationRank(cited, target) = FirstCitationRank(cited \o cited, target)
    /\ FirstCitationRank(cited, target).rank <= FirstCitationRank(cited, target).nCited
    /\ target # "" => (Contains(cited, target) <=> FirstCitationRank(cited, target).rank > 0)
GiniIsOfTheBag(counts) ==
    /\ Gini(counts) = Gini(Reverse(counts))
    /\ Gini(counts) # NULL => /\ IsShare(Gini(counts))
                              /\ Gini(counts)[1] = 0 <=> Cardinality(ToSet(counts)) = 1

\* Two engines overlap alike seen from either, and one with itself fully.
OverlapIsSymmetric(signals) ==
    \A a \in 1..2, b \in 1..2 :
        /\ EnginePair(signals, a, b) = EnginePair(signals, b, a)
        /\ LET j == EnginePair(signals, a, b).jaccard
           IN a = b /\ j[1] > 0 => j[1] = j[2]
=============================================================================
