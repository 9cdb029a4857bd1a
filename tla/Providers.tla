------------------------------ MODULE Providers -------------------------------
(***************************************************************************)
(* The adapters of the chat models (src/providers): what a call returns    *)
(* for each way the provider answers, who is registered and who judges,    *)
(* and which calls are grounded in a web search. A message of an error is  *)
(* the set of telling phrases in it.                                       *)
(***************************************************************************)
EXTENDS Integers, Sequences, FiniteSets, SequencesExt

NOT_CONFIGURED == "NOT_CONFIGURED"

-----------------------------------------------------------------------------
(* Classes of errors *)

\* "glued" is a phrase that follows another word without a boundary, as in
\* "ERR_RESOURCE_EXHAUSTED"; the retry of a call has a pattern of its own.
RateLimitPhrases == {"rate limit", "429", "quota", "resource exhausted"}
IsRetried(message) == message \cap (RateLimitPhrases \cup {"glued exhausted"}) # {}

ClassifyGeminiError(message) ==
    CASE message \cap (RateLimitPhrases \cup {"glued rate limited"}) # {} -> "RATE_LIMITED"
      [] message \cap (RateLimitPhrases \cup {"glued rate limited"}) = {}
             /\ "timeout" \in message -> "TIMEOUT"
      [] message \cap (RateLimitPhrases \cup {"glued rate limited"}) = {}
             /\ "timeout" \notin message /\ "auth" \in message -> NOT_CONFIGURED
      [] OTHER -> "PROVIDER_ERROR"

Answer(text, usage) == [ok |-> TRUE, text |-> text, code |-> "", retryable |-> FALSE, usage |-> usage]
Refusal(code, retryable, usage) ==
    [ok |-> FALSE, text |-> "", code |-> code, retryable |-> retryable, usage |-> usage]

\* Generation, judging and structured output map an error alike.
MapError(message) ==
    LET class == ClassifyGeminiError(message)
    IN Refusal(class, class \in {"RATE_LIMITED", "TIMEOUT"}, 0)

-----------------------------------------------------------------------------
(* What a call returns. usage is 1 when its cost is reported. An outcome is *)
(* [kind, text, message]: "answer" with a text, or what went wrong.         *)

\* An answer without text is an error, and is paid.
GeminiGenerate(keys, outcome) ==
    IF keys = 0 THEN Refusal(NOT_CONFIGURED, FALSE, 0)
    ELSE IF outcome.kind # "answer" THEN MapError(outcome.message)
    ELSE IF outcome.text = "" THEN Refusal("PROVIDER_ERROR", FALSE, 1)
    ELSE Answer(outcome.text, 1)

\* The text is "valid" for the schema, "invalid" for it, "garbled" or "".
Structured(text) == IF text = "valid" THEN Answer(text, 1) ELSE Refusal("PARSE_FAILED", FALSE, 1)

GeminiStructured(keys, outcome) ==
    IF keys = 0 THEN Refusal(NOT_CONFIGURED, FALSE, 0)
    ELSE IF outcome.kind # "answer" THEN MapError(outcome.message)
    ELSE Structured(outcome.text)

\* What the shared request throws: a response that is not OK carries its class; what
\* fetch itself throws carries its own code, 20 when the timer aborts it and none when
\* the network fails.
ChatError(outcome) ==
    CASE outcome.kind = "http429" -> Refusal("RATE_LIMITED", TRUE, 0)
      [] outcome.kind = "http5xx" -> Refusal("PROVIDER_ERROR", TRUE, 0)
      [] outcome.kind = "http4xx" -> Refusal("PROVIDER_ERROR", FALSE, 0)
      [] outcome.kind = "aborted" -> Refusal("20", TRUE, 0)
      [] OTHER -> Refusal("PROVIDER_ERROR", TRUE, 0)

CompatGenerate(keys, outcome) ==
    IF keys = 0 THEN Refusal(NOT_CONFIGURED, FALSE, 0)
    ELSE IF outcome.kind # "answer" THEN ChatError(outcome)
    ELSE Answer(outcome.text, 1)

CompatStructured(keys, outcome) ==
    IF keys = 0 THEN Refusal(NOT_CONFIGURED, FALSE, 0)
    ELSE IF outcome.kind # "answer" THEN ChatError(outcome)
    ELSE Structured(outcome.text)

\* One request and no escalation.
CompatJudge(keys, outcome) == CompatStructured(keys, outcome)

StubGenerate == Refusal(NOT_CONFIGURED, FALSE, 0)

\* Without a key, and for no texts, there are no vectors; a vector that is missing is
\* empty. response is "none" or the embeddings, of which "" is malformed.
Embed(keys, texts, response) ==
    IF texts = 0 \/ keys = 0 \/ response = <<"none">> THEN <<>>
    ELSE [i \in DOMAIN response |-> IF response[i] = "" THEN <<>> ELSE <<response[i]>>]

-----------------------------------------------------------------------------
(* The registry *)

ADAPTER_DEFS ==
    [gemini |-> "gemini", openai |-> "openai", perplexity |-> "perplexity", anthropic |-> "stub",
     grok |-> "stub", mistral |-> "stub", deepseek |-> "stub", llamaGroq |-> "stub"]

\* The list of keys, its blank entries dropped, before the single key.
ParseApiKeyList(raw) == SelectSeq(raw, LAMBDA k : k # "")
GeminiKeys(env) ==
    IF ParseApiKeyList(env.GEMINI_API_KEYS) # <<>> THEN Len(ParseApiKeyList(env.GEMINI_API_KEYS))
    ELSE IF "gemini" \in env.keys THEN 1 ELSE 0

StatusOf(provider, env) ==
    CASE ADAPTER_DEFS[provider] = "stub" -> "stub"
      [] ADAPTER_DEFS[provider] = "gemini" ->
            IF GeminiKeys(env) > 0 THEN "ready" ELSE NOT_CONFIGURED
      [] OTHER -> IF provider \in env.keys THEN "ready" ELSE NOT_CONFIGURED

\* surfaces: the status of each surface, which join the models under names of their own.
BuildRegistry(env, surfaces) ==
    surfaces @@ [p \in DOMAIN ADAPTER_DEFS |-> StatusOf(p, env)]

Readiness(registry) ==
    [p \in DOMAIN registry |-> IF registry[p] = "stub" THEN NOT_CONFIGURED ELSE registry[p]]

\* The preferred provider when it is ready; else Gemini, ready or not.
ResolveJudgeAdapter(registry, preferred) ==
    IF preferred \in DOMAIN registry /\ registry[preferred] = "ready" THEN preferred ELSE "gemini"

\* Cents for a million tokens in and out; a model that is not listed is free.
MODEL_PRICE_TABLE ==
    [flashLite |-> <<10, 40>>, flash |-> <<30, 250>>, pro |-> <<125, 1000>>,
     gpt4o |-> <<0, 0>>, sonnet |-> <<0, 0>>, llama |-> <<0, 0>>, mistralLarge |-> <<0, 0>>,
     deepseekChat |-> <<0, 0>>, sonar |-> <<0, 0>>, grok2 |-> <<0, 0>>]

PriceUsd(model, inputTokens, outputTokens) ==
    IF model \notin DOMAIN MODEL_PRICE_TABLE THEN 0
    ELSE inputTokens * MODEL_PRICE_TABLE[model][1] + outputTokens * MODEL_PRICE_TABLE[model][2]

\* What an adapter that has a price of its own reports for a call.
CompatPrice == [perplexity |-> <<100, 100>>, openai |-> <<15, 60>>]
CompatUsd(provider, inputTokens, outputTokens) ==
    inputTokens * CompatPrice[provider][1] + outputTokens * CompatPrice[provider][2]

-----------------------------------------------------------------------------
(* Grounding *)

\* pct is a plain number of at most three digits, or -1 for anything else; hash is the
\* work unit's, in hundredths, and does not depend on the model.
ShouldGround(hash, all, pct) == all \/ (pct > 0 /\ (pct >= 100 \/ hash < pct))

\* A chunk is the domain it leads to, "" when none can be told. The chunks stay where
\* the supports point.
ExtractGroundingTrace(meta) == [chunks |-> meta.chunks, supports |-> meta.supports]

\* The host of the address, or, behind a redirect, a domain in the title.
DomainForChunk(chunk) == IF chunk.wrapped THEN chunk.titleDomain ELSE chunk.host

ComputeGroundingGap(trace) ==
    LET domain(i) == DomainForChunk(trace.chunks[i])
        known(S) == {domain(i) : i \in S \cap DOMAIN trace.chunks} \ {""}
        fetched == known(DOMAIN trace.chunks)
        cited == known(UNION trace.supports)
    IN [fetched |-> fetched, cited |-> cited, gap |-> fetched \ cited]

\* weight: how much of the answer the citation bears, in hundredths; -1 when unknown.
ClassifyCitationFailureStage(target, gap, brandMentioned, weight) ==
    CASE target \in gap.cited /\ target \notin gap.fetched -> "unknown"
      [] target \notin gap.cited /\ target \notin gap.fetched ->
            IF brandMentioned THEN "attribution" ELSE "retrieval"
      [] target \in gap.fetched /\ target \notin gap.cited -> "reranking"
      [] target \in gap.fetched /\ target \in gap.cited ->
            IF weight >= 0 /\ weight <= 5 THEN "extraction" ELSE "none"

AggregateFailureStages(stages) ==
    [s \in {"retrieval", "reranking", "extraction", "attribution", "none", "unknown"} |->
        Cardinality({i \in DOMAIN stages : stages[i] = s})]

-----------------------------------------------------------------------------
(* What the adapters promise *)

Codes == {NOT_CONFIGURED, "RATE_LIMITED", "TIMEOUT", "PROVIDER_ERROR", "PARSE_FAILED"}

\* A call never throws and its code is one the callers know (types.ts); only what may
\* pass by itself is worth a retry; a call without a key costs nothing.
ResultIsSound(keys, outcome, result) ==
    /\ ~result.ok => result.code \in Codes
    /\ result.retryable => result.code \in {"RATE_LIMITED", "TIMEOUT", "PROVIDER_ERROR"}
    /\ keys = 0 => result = Refusal(NOT_CONFIGURED, FALSE, 0)

\* "Mirrors the GeminiAdapter contract": the same answer gives the same result.
Mirrors(outcome) ==
    /\ GeminiGenerate(1, outcome).ok <=> CompatGenerate(1, outcome).ok
    /\ GeminiStructured(1, outcome) = CompatStructured(1, outcome)

\* The judge that is resolved is the preferred one whenever it is ready, and neither a
\* stub nor a surface, which have no judge() ("key present + a judge() implementation").
JudgeIsReal(env, surfaces, preferred) ==
    LET registry == BuildRegistry(env, surfaces)
        judge == ResolveJudgeAdapter(registry, preferred)
    IN /\ registry[judge] # "stub"
       /\ judge \notin DOMAIN surfaces
       /\ (preferred \in DOMAIN registry /\ registry[preferred] = "ready") => judge = preferred
       /\ \A p \in DOMAIN registry : Readiness(registry)[p] = "ready" => registry[p] = "ready"

\* A smaller share grounds a subset: raising the percentage never drops a work unit.
GroundingGrows(hash, all, pct) ==
    ShouldGround(hash, all, pct) => \A p \in (pct..100) : ShouldGround(hash, all, p)

\* The stages tell the whole story of a target: fetched, cited and seen to bear weight.
StagesAreExact(trace, target, mentioned, weight) ==
    LET gap == ComputeGroundingGap(trace)
        stage == ClassifyCitationFailureStage(target, gap, mentioned, weight)
    IN /\ gap.cited \subseteq gap.fetched
       /\ stage # "unknown"
       /\ stage = "reranking" <=> target \in gap.gap
       /\ stage \in {"none", "extraction"} <=> target \in gap.cited
=============================================================================
