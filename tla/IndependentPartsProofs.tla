------------------------ MODULE IndependentPartsProofs ------------------------
(***************************************************************************)
(* TLAPS proofs about the four parts of IndependentParts: the rotation of  *)
(* the questions, the keys of the Gemini adapter, the owned hub on disk    *)
(* and the question templates; and, for every input, about operators of    *)
(* Access and Records: the audit chain and the statements of the tables.   *)
(***************************************************************************)
EXTENDS IndependentParts, SequenceTheorems, WellFoundedInduction, TLAPS

-----------------------------------------------------------------------------
(* The keys *)

\* A remainder lies below the number it is taken by.
LEMMA ModRange ==
    ASSUME NEW n \in Nat \ {0}, NEW m \in Nat
    PROVE  m % n \in 0..(n - 1)
OBVIOUS

\* The remainders of n numbers in a row are all there are.
LEMMA ModTurn ==
    ASSUME NEW n \in Nat \ {0}, NEW c \in 0..(n - 1)
    PROVE  {(c + i) % n : i \in 0..(n - 1)} = 0..(n - 1)
<1>1. ASSUME NEW k \in 0..(n - 1)
      PROVE  \E i \in 0..(n - 1) : (c + i) % n = k
  <2>1. CASE k >= c
    <3>1. k - c \in 0..(n - 1) /\ c + (k - c) = k
      BY <2>1
    <3>2. k % n = k
      OBVIOUS
    <3> QED
      BY <3>1, <3>2
  <2>2. CASE k < c
    <3>1. k + n - c \in 0..(n - 1) /\ c + (k + n - c) = k + n
      BY <2>2
    <3>2. (k + n) % n = k
      OBVIOUS
    <3> QED
      BY <3>1, <3>2
  <2> QED
    BY <2>1, <2>2
<1>2. \A i \in 0..(n - 1) : (c + i) % n \in 0..(n - 1)
  BY ModRange
<1> QED
  BY <1>1, <1>2

KeyInv == Key!TypeOK /\ Key!RoundInv

LEMMA KeyOfType ==
    ASSUME Key!Configured, Key!TypeOK, NEW i \in Key!Keys
    PROVE  Key!KeyOf(i) \in Key!Keys
BY ModRange DEF Key!Configured, Key!TypeOK, Key!KeyOf, Key!Keys

LEMMA KeyInit == ASSUME Key!Configured, Key!Init PROVE KeyInv
BY DEF Key!Configured, Key!Init, KeyInv, Key!TypeOK, Key!Keys, Key!RoundInv, Key!InRound

\* A key is asked: those of the offsets so far, and this one.
LEMMA AskKeeps ==
    ASSUME Key!Configured, KeyInv, NEW c \in Calls, NEW i \in Key!Keys, NEW before,
           Key!Ask(c, i, before), before = {Key!KeyOf(j) : j \in 0..(i - 1)} \/ overtaken'[c],
           before \subseteq Key!Keys, UNCHANGED _cursor,
           round' \in [Calls -> 0..RL_MAX_RETRIES], overtaken' \in [Calls -> BOOLEAN],
           \A d \in Calls \ {c} : round'[d] = round[d] /\ overtaken'[d] = overtaken[d]
    PROVE  KeyInv'
<1> USE DEF KeyInv, Key!TypeOK
<1>1. Key!KeyOf(i) \in Key!Keys
  BY KeyOfType
<1>2. Key!TypeOK'
  BY <1>1 DEF Key!Ask
<1>3. ASSUME NEW d \in Calls, Key!InRound(d)', d # c
      PROVE  /\ overtaken'[d] \/ tried'[d] = {Key!KeyOf(j)' : j \in 0..attempt'[d]}
             /\ pc'[d] = "asking" \/ attempt'[d] = NumKeys - 1
             /\ pc'[d] = "waiting" => round'[d] < RL_MAX_RETRIES
  BY <1>3 DEF Key!Ask, Key!RoundInv, Key!InRound, Key!KeyOf
<1>4. overtaken'[c] \/ tried'[c] = {Key!KeyOf(j)' : j \in 0..attempt'[c]}
  <2> SUFFICES ASSUME before = {Key!KeyOf(j) : j \in 0..(i - 1)}
               PROVE  tried'[c] = {Key!KeyOf(j)' : j \in 0..attempt'[c]}
    OBVIOUS
  <2>1. attempt'[c] = i /\ tried'[c] = before \cup {Key!KeyOf(i)}
    BY DEF Key!Ask
  <2>2. 0..i = 0..(i - 1) \cup {i}
    BY DEF Key!Configured, Key!Keys
  <2>3. \A j : Key!KeyOf(j)' = Key!KeyOf(j)
    BY DEF Key!KeyOf
  <2> QED
    BY <2>1, <2>2, <2>3
<1>5. pc'[c] = "asking"
  BY DEF Key!Ask
<1> QED
  BY <1>2, <1>3, <1>4, <1>5 DEF Key!RoundInv

LEMMA KeyStep ==
    ASSUME Key!Configured, KeyInv, [Key!Next]_Key!keyVars
    PROVE  KeyInv'
<1> USE DEF KeyInv, Key!TypeOK
<1>1. ASSUME NEW c \in Calls, Key!AskFirst(c)
      PROVE  KeyInv'
  <2>1. 0 \in Key!Keys /\ 0..(0 - 1) = {}
    BY DEF Key!Configured, Key!Keys
  <2>2. round' \in [Calls -> 0..RL_MAX_RETRIES]
    BY <1>1 DEF Key!AskFirst, Key!RoundInv, Key!InRound, Key!Configured
  <2>3. /\ Key!Ask(c, 0, {}) /\ UNCHANGED _cursor
        /\ overtaken' \in [Calls -> BOOLEAN]
        /\ \A d \in Calls \ {c} : round'[d] = round[d] /\ overtaken'[d] = overtaken[d]
    BY <1>1 DEF Key!AskFirst
  <2>4. {} = {Key!KeyOf(j) : j \in 0..(0 - 1)}
    BY <2>1
  <2> QED
    BY <2>1, <2>2, <2>3, <2>4, AskKeeps
<1>2. ASSUME NEW c \in Calls, Key!Answered(c)
      PROVE  KeyInv'
  <2>1. \A d \in Calls : overtaken'[d] = (overtaken[d] \/ d # c)
    BY <1>2 DEF Key!Answered
  <2>2. overtaken' \in [Calls -> BOOLEAN]
    BY <1>2 DEF Key!Answered
  <2>3. _cursor' \in Key!Keys
    BY <1>2, ModRange DEF Key!Answered, Key!Keys, Key!Configured
  <2>4. Key!TypeOK'
    BY <1>2, <2>2, <2>3 DEF Key!Answered
  <2>5. Key!RoundInv'
    BY <1>2, <2>1 DEF Key!Answered, Key!RoundInv, Key!InRound
  <2> QED
    BY <2>4, <2>5
<1>3. ASSUME NEW c \in Calls, Key!Throws(c)
      PROVE  KeyInv'
  <2>1. Key!TypeOK'
    BY <1>3 DEF Key!Throws
  <2>2. \A i : Key!KeyOf(i)' = Key!KeyOf(i)
    BY <1>3 DEF Key!Throws, Key!KeyOf
  <2> QED
    BY <1>3, <2>1, <2>2 DEF Key!Throws, Key!RoundInv, Key!InRound
<1>4. ASSUME NEW c \in Calls, Key!RateLimited(c)
      PROVE  KeyInv'
  <2>1. /\ UNCHANGED <<_cursor, round, overtaken>> /\ pc[c] = "asking"
        /\ overtaken[c] \/ tried[c] = {Key!KeyOf(i) : i \in 0..attempt[c]}
    BY <1>4 DEF Key!RateLimited, Key!RoundInv, Key!InRound
  <2>2. CASE attempt[c] + 1 < NumKeys /\ Key!Ask(c, attempt[c] + 1, tried[c])
    <3>1. attempt[c] + 1 \in Key!Keys /\ (attempt[c] + 1) - 1 = attempt[c]
      BY <2>2 DEF Key!Keys, Key!Configured
    <3> QED
      BY <2>1, <2>2, <3>1, AskKeeps
  <2>3. CASE /\ attempt[c] + 1 = NumKeys
             /\ pc' = [pc EXCEPT ![c] = IF round[c] >= RL_MAX_RETRIES THEN "limited" ELSE "waiting"]
             /\ UNCHANGED <<attempt, idx, tried>>
    <3>1. Key!TypeOK'
      BY <2>1, <2>3
    <3>2. \A i : Key!KeyOf(i)' = Key!KeyOf(i)
      BY <2>1 DEF Key!KeyOf
    <3>3. attempt[c] = NumKeys - 1
      BY <2>3 DEF Key!Keys, Key!Configured
    <3>4. pc'[c] = "waiting" => round[c] < RL_MAX_RETRIES
      BY <2>3 DEF Key!Configured
    <3>5. \A d \in Calls \ {c} : pc'[d] = pc[d]
      BY <2>3
    <3> QED
      BY <2>1, <2>3, <3>1, <3>2, <3>3, <3>4, <3>5 DEF Key!RoundInv, Key!InRound
  <2> QED
    BY <1>4, <2>2, <2>3 DEF Key!RateLimited
<1>5. CASE UNCHANGED Key!keyVars
  <2>1. \A i : Key!KeyOf(i)' = Key!KeyOf(i)
    BY <1>5 DEF Key!keyVars, Key!KeyOf
  <2> QED
    BY <1>5, <2>1 DEF Key!keyVars, Key!RoundInv, Key!InRound
<1> QED
  BY <1>1, <1>2, <1>3, <1>4, <1>5 DEF Key!Next

\* A call waits or gives up only when every key was asked in the round, unless another
\* call was answered meanwhile (the loop of _call in gemini.ts): for any number of calls,
\* keys and retries.
THEOREM EveryKeyIsAsked == Key!Configured => (Key!Spec => []WaitsWhenAllAreLimited)
<1>1. CASE Key!Configured
  <2>1. Key!Init => KeyInv
    BY <1>1, KeyInit
  <2>2. KeyInv /\ [Key!Next]_Key!keyVars => KeyInv'
    BY <1>1, KeyStep
  <2>3. KeyInv => WaitsWhenAllAreLimited
    <3> SUFFICES ASSUME KeyInv, NEW c \in Calls, pc[c] \in {"waiting", "limited"},
                        ~overtaken[c]
                 PROVE  tried[c] = Key!Keys
      BY DEF WaitsWhenAllAreLimited, Key!WaitsWhenAllAreLimited
    <3>1. tried[c] = {Key!KeyOf(i) : i \in 0..(NumKeys - 1)}
      BY DEF KeyInv, Key!RoundInv, Key!InRound
    <3>2. _cursor \in 0..(NumKeys - 1)
      BY DEF KeyInv, Key!TypeOK, Key!Keys
    <3> QED
      BY <1>1, <3>1, <3>2, ModTurn DEF Key!KeyOf, Key!Keys, Key!Configured
  <2> QED
    BY <2>1, <2>2, <2>3, PTL DEF Key!Spec
<1> QED
  BY <1>1
-----------------------------------------------------------------------------
(* The owned hub *)

SiteStages == {"idle", "mark", "enqueue", "page", "read", "truncate", "fill"}
CallType == [pc: SiteStages, asset: Assets \cup {NoAsset}, read: SUBSET Own!Pages]
JobType == [state: {"none", "queued", "done", "dead"}, left: 0..(RetryLimit + 1)]
HubType == [index: SUBSET Own!Pages, rows: SUBSET Assets, building: BOOLEAN]

\* TypeOK of OwnedSite with names for its sets.
SiteTyped ==
    /\ files \subseteq Own!Pages /\ sitemap \subseteq Own!Pages
    /\ call \in [Workers -> CallType]
    /\ registry \in [Assets -> {"none", "publishing", "published", "failed"}]
    /\ indexing \in [Assets -> {"unknown", "submitted"}]
    /\ verify \in [Assets -> JobType]
    /\ hub \in HubType
    /\ faults \in 0..MaxFaults /\ overlapped \in BOOLEAN

LEMMA SiteTypes == (Own!TypeOK <=> SiteTyped) /\ (Own!TypeOK' <=> SiteTyped')
<1>1. {"idle", "mark", "enqueue"} \cup Own!Writing = SiteStages
  BY DEF Own!Writing, SiteStages
<1> QED
  BY <1>1 DEF Own!TypeOK, SiteTyped, CallType, JobType, HubType

LEMMA CallGoesOn ==
    ASSUME NEW c \in [Workers -> CallType], NEW w \in Workers, NEW p \in SiteStages
    PROVE  /\ [c EXCEPT ![w].pc = p] \in [Workers -> CallType]
           /\ \A v \in Workers :
                /\ [c EXCEPT ![w].pc = p][v].pc = IF v = w THEN p ELSE c[v].pc
                /\ [c EXCEPT ![w].pc = p][v].asset = c[v].asset
                /\ [c EXCEPT ![w].pc = p][v].read = c[v].read
BY DEF CallType

LEMMA CallEnds ==
    ASSUME NEW c \in [Workers -> CallType], NEW w \in Workers
    PROVE  /\ [c EXCEPT ![w] = Own!Idle] \in [Workers -> CallType]
           /\ \A v \in Workers :
                /\ [c EXCEPT ![w] = Own!Idle][v].pc = IF v = w THEN "idle" ELSE c[v].pc
                /\ [c EXCEPT ![w] = Own!Idle][v].asset = IF v = w THEN NoAsset ELSE c[v].asset
                /\ [c EXCEPT ![w] = Own!Idle][v].read = IF v = w THEN {} ELSE c[v].read
BY DEF CallType, Own!Idle, SiteStages

LEMMA CallReads ==
    ASSUME NEW c \in [Workers -> CallType], NEW w \in Workers, NEW s \in SUBSET Own!Pages
    PROVE  LET d == [c EXCEPT ![w] = [pc |-> "truncate", asset |-> c[w].asset, read |-> s]]
           IN /\ d \in [Workers -> CallType]
              /\ \A v \in Workers :
                   /\ d[v].pc = IF v = w THEN "truncate" ELSE c[v].pc
                   /\ d[v].asset = c[v].asset
                   /\ d[v].read = IF v = w THEN s ELSE c[v].read
<1> DEFINE r == [pc |-> "truncate", asset |-> c[w].asset, read |-> s]
<1>1. r \in CallType
  BY DEF CallType, SiteStages
<1> QED
  BY <1>1

LEMMA CallBegins ==
    ASSUME NEW c \in [Workers -> CallType], NEW w \in Workers, NEW a \in Assets
    PROVE  LET d == [c EXCEPT ![w] = [pc |-> "page", asset |-> a, read |-> {}]]
           IN /\ d \in [Workers -> CallType]
              /\ \A v \in Workers :
                   /\ d[v].pc = IF v = w THEN "page" ELSE c[v].pc
                   /\ d[v].asset = IF v = w THEN a ELSE c[v].asset
                   /\ d[v].read = IF v = w THEN {} ELSE c[v].read
BY DEF CallType, SiteStages

\* Only a publication lets a page into the registry's published rows.
LEMMA PublishedOnlyBy ==
    ASSUME NEW r \in [Assets -> {"none", "publishing", "published", "failed"}], NEW a
    PROVE  /\ \A s \in {"none", "publishing", "failed"}, b \in Assets :
                [r EXCEPT ![a] = s][b] = "published" => r[b] = "published"
           /\ \A b \in Assets :
                [r EXCEPT ![a] = "published"][b] = "published" => b = a \/ r[b] = "published"
OBVIOUS

SiteInv == Own!TypeOK /\ Own!WrittenInv /\ Own!LoneInv

LEMMA SiteInit == ASSUME Own!Bounded, Own!Init PROVE SiteInv
<1>1. Own!TypeOK
  <2>1. Own!Idle \in CallType
    BY DEF Own!Idle, CallType, SiteStages
  <2>2. Own!Job("none", 0) \in JobType
    BY DEF Own!Job, JobType, Own!Bounded
  <2>3. hub \in HubType
    BY DEF Own!Init, HubType, Own!Pages
  <2>4. call \in [Workers -> CallType] /\ verify \in [Assets -> JobType]
    BY <2>1, <2>2 DEF Own!Init
  <2>5. SiteTyped
    <3>1. files \subseteq Own!Pages /\ sitemap \subseteq Own!Pages
      BY DEF Own!Init, Own!Pages
    <3>2. /\ registry \in [Assets -> {"none", "publishing", "published", "failed"}]
          /\ indexing \in [Assets -> {"unknown", "submitted"}]
      BY DEF Own!Init
    <3>3. faults \in 0..MaxFaults /\ overlapped \in BOOLEAN
      <4>1. faults = 0 /\ overlapped = FALSE
        BY Zenon DEF Own!Init
      <4>2. overlapped \in BOOLEAN
        BY <4>1, Zenon
      <4>3. faults \in 0..MaxFaults
        BY <4>1 DEF Own!Bounded
      <4> QED
        BY <4>2, <4>3
    <3> QED
      BY <2>3, <2>4, <3>1, <3>2, <3>3 DEF SiteTyped
  <2> QED
    BY <2>5, SiteTypes
<1>2. Own!WrittenInv /\ Own!LoneInv
  BY DEF Own!Init, Own!WrittenInv, Own!LoneInv, Own!Idle, Own!At, Own!Published, Own!Quiet
<1> QED
  BY <1>1, <1>2 DEF SiteInv

LEMMA ClaimKeeps ==
    ASSUME Own!Bounded, SiteInv, NEW w \in Workers, Own!ClaimUrlRegistry(w)
    PROVE  SiteInv'
<1> USE DEF SiteInv
<1>0. /\ call \in [Workers -> CallType]
      /\ registry \in [Assets -> {"none", "publishing", "published", "failed"}]
      /\ SiteTyped
  BY SiteTypes DEF SiteTyped
<1>1. PICK a \in Assets :
        /\ registry' = [registry EXCEPT ![a] = "publishing"]
        /\ indexing' = [indexing EXCEPT ![a] = "unknown"]
        /\ call' = [call EXCEPT ![w] = [Own!Idle EXCEPT !.pc = "page", !.asset = a]]
  BY DEF Own!ClaimUrlRegistry
<1>2. /\ UNCHANGED <<files, sitemap, verify, hub, faults>>
      /\ overlapped' = (overlapped \/ \E v \in Workers : ~Own!At(v, "idle"))
  BY DEF Own!ClaimUrlRegistry
<1>3. /\ call' \in [Workers -> CallType]
      /\ \A v \in Workers :
           /\ call'[v].pc = IF v = w THEN "page" ELSE call[v].pc
           /\ call'[v].asset = IF v = w THEN a ELSE call[v].asset
           /\ call'[v].read = IF v = w THEN {} ELSE call[v].read
  <2>1. call' = [call EXCEPT ![w] = [pc |-> "page", asset |-> a, read |-> {}]]
    <3>1. [Own!Idle EXCEPT !.pc = "page"] = [pc |-> "page", asset |-> NoAsset, read |-> {}]
      BY DEF Own!Idle
    <3>2. [Own!Idle EXCEPT !.pc = "page", !.asset = a]
            = [[Own!Idle EXCEPT !.pc = "page"] EXCEPT !.asset = a]
      OBVIOUS
    <3>3. [[pc |-> "page", asset |-> NoAsset, read |-> {}] EXCEPT !.asset = a]
            = [pc |-> "page", asset |-> a, read |-> {}]
      OBVIOUS
    <3> QED
      BY <1>1, <3>1, <3>2, <3>3
  <2> QED
    BY <1>0, <2>1, CallBegins
<1>4. Own!TypeOK'
  <2>1. overlapped' \in BOOLEAN
    BY <1>2
  <2> QED
    BY <1>0, <1>1, <1>2, <1>3, <2>1, SiteTypes DEF SiteTyped
<1>5. Own!Published' \subseteq Own!Published
  BY <1>0, <1>1, PublishedOnlyBy DEF Own!Published
<1>6. Own!WrittenInv'
  BY <1>2, <1>3, <1>5 DEF Own!WrittenInv, Own!At
<1>7. Own!LoneInv'
  <2> SUFFICES ASSUME ~overlapped', faults' = 0
               PROVE  /\ \A v, x \in Workers : Own!At(v, "idle")' \/ Own!At(x, "idle")' \/ v = x
                      /\ \A v \in Workers : Own!At(v, "idle")' \/ files' \subseteq Own!Held(v)'
                      /\ Own!Quiet' => files' \subseteq sitemap'
    BY DEF Own!LoneInv
  <2>1. ~overlapped /\ \A v \in Workers : call[v].pc = "idle"
    BY <1>2 DEF Own!At
  <2>2. files \subseteq sitemap
    BY <1>2, <2>1 DEF Own!LoneInv, Own!Quiet, Own!At
  <2>3. \A v \in Workers : call'[v].pc = "idle" \/ v = w
    BY <1>3, <2>1
  <2> QED
    BY <1>2, <1>3, <2>1, <2>2, <2>3 DEF Own!At, Own!Held, Own!Quiet
<1> QED
  BY <1>4, <1>6, <1>7

\* A step of one call that goes on: what it holds is what it held or has written.
LEMMA StepKeeps ==
    ASSUME Own!Bounded, SiteInv, NEW w \in Workers, call[w].pc # "idle", Own!TypeOK',
           files \subseteq files', UNCHANGED overlapped, faults' >= faults,
           hub.index \cup hub.rows = hub'.index \cup hub'.rows,
           sitemap' \cup Own!Published' \cup call'[w].read \subseteq files',
           call'[w].pc \notin {"idle", "page"} => call'[w].asset \in files',
           \A v \in Workers \ {w} : call'[v] = call[v],
           call'[w].pc # "idle" => call'[w].asset = call[w].asset,
           faults' = 0 /\ ~overlapped =>
               files' \subseteq IF call'[w].pc = "idle" THEN sitemap' ELSE Own!Held(w)'
    PROVE  SiteInv'
<1> USE DEF SiteInv
<1>1. Own!WrittenInv'
  BY DEF Own!WrittenInv, Own!At
<1>2. ASSUME faults' = 0, ~overlapped
      PROVE  /\ \A v, x \in Workers : Own!At(v, "idle")' \/ Own!At(x, "idle")' \/ v = x
             /\ \A v \in Workers : Own!At(v, "idle")' \/ files' \subseteq Own!Held(v)'
             /\ Own!Quiet' => files' \subseteq sitemap'
  <2>1. faults = 0
    BY <1>2 DEF Own!TypeOK, Own!Bounded
  <2>2. \A v \in Workers \ {w} : call[v].pc = "idle"
    BY <1>2, <2>1 DEF Own!LoneInv, Own!At
  <2> QED
    BY <1>2, <2>2 DEF Own!At, Own!Quiet
<1> QED
  BY <1>1, <1>2 DEF Own!LoneInv
LEMMA TypeFields ==
    ASSUME Own!TypeOK
    PROVE  /\ SiteTyped
           /\ call \in [Workers -> CallType]
           /\ registry \in [Assets -> {"none", "publishing", "published", "failed"}]
           /\ hub \in HubType /\ hub.index \subseteq Own!Pages
           /\ hub.rows \subseteq Assets /\ hub.building \in BOOLEAN
           /\ \A w \in Workers : /\ call[w].pc \in SiteStages /\ call[w].read \subseteq Own!Pages
                                /\ call[w].asset \in Assets \cup {NoAsset}
BY SiteTypes DEF SiteTyped, CallType, HubType

LEMMA WriteKeeps ==
    ASSUME Own!Bounded, SiteInv, NEW w \in Workers, Own!WritePage(w)
    PROVE  SiteInv'
<1> DEFINE a == call[w].asset
<1>1. /\ call[w].pc = "page" /\ files' = files \cup {a}
      /\ call' = [call EXCEPT ![w].pc = "read"]
      /\ UNCHANGED <<sitemap, registry, indexing, verify, hub, faults, overlapped>>
  BY DEF Own!WritePage, Own!At, Own!Goes
<1>2. /\ SiteTyped /\ "read" \in SiteStages /\ call \in [Workers -> CallType]
      /\ a \in Own!Pages
  BY <1>1, TypeFields DEF SiteInv, SiteStages, Own!WrittenInv, Own!At, Own!Pages
<1>3. /\ call' \in [Workers -> CallType]
      /\ \A v \in Workers : /\ call'[v].pc = IF v = w THEN "read" ELSE call[v].pc
                            /\ call'[v].asset = call[v].asset /\ call'[v].read = call[v].read
  BY <1>1, <1>2, CallGoesOn
<1>4. \A v \in Workers \ {w} : call'[v] = call[v]
  BY <1>1, <1>2
<1>5. Own!TypeOK'
  BY <1>1, <1>2, <1>3, SiteTypes DEF SiteTyped
<1>6. Own!Published' = Own!Published
  BY <1>1 DEF Own!Published
<1>7. sitemap \cup Own!Published \cup call[w].read \subseteq files
  BY DEF SiteInv, Own!WrittenInv
<1>8. faults = 0 /\ ~overlapped => files \subseteq sitemap
  BY <1>1 DEF SiteInv, Own!LoneInv, Own!Held, Own!At
<1>9. Own!Held(w)' = sitemap \cup {a}
  BY <1>1, <1>3 DEF Own!Held, Own!At
<1>10. faults' >= faults
  BY <1>1, <1>2 DEF SiteTyped, Own!Bounded
<1> QED
  BY <1>1, <1>3, <1>4, <1>5, <1>6, <1>7, <1>8, <1>9, <1>10, StepKeeps
LEMMA ReadKeeps ==
    ASSUME Own!Bounded, SiteInv, NEW w \in Workers, Own!ReadSitemapEntries(w)
    PROVE  SiteInv'
<1>1. /\ call[w].pc = "read"
      /\ call' = [call EXCEPT ![w] = [pc |-> "truncate", asset |-> call[w].asset,
                                       read |-> sitemap]]
      /\ UNCHANGED <<files, sitemap, registry, indexing, verify, hub, faults, overlapped>>
  BY DEF Own!ReadSitemapEntries, Own!At
<1>2. SiteTyped /\ sitemap \in SUBSET Own!Pages /\ call \in [Workers -> CallType]
  BY TypeFields DEF SiteInv, SiteTyped
<1>3. /\ call' \in [Workers -> CallType]
      /\ \A v \in Workers : /\ call'[v].pc = IF v = w THEN "truncate" ELSE call[v].pc
                            /\ call'[v].asset = call[v].asset
                            /\ call'[v].read = IF v = w THEN sitemap ELSE call[v].read
  BY <1>1, <1>2, CallReads
<1>4. \A v \in Workers \ {w} : call'[v] = call[v]
  BY <1>1, <1>2
<1>5. Own!TypeOK'
  BY <1>1, <1>2, <1>3, SiteTypes DEF SiteTyped
<1>6. Own!Published' = Own!Published
  BY <1>1 DEF Own!Published
<1>7. sitemap \cup Own!Published \subseteq files /\ call[w].asset \in files
  BY <1>1 DEF SiteInv, Own!WrittenInv
<1>8. faults = 0 /\ ~overlapped => files \subseteq sitemap \cup {call[w].asset}
  BY <1>1 DEF SiteInv, Own!LoneInv, Own!Held, Own!At
<1>9. Own!Held(w)' = sitemap \cup {call[w].asset}
  BY <1>3 DEF Own!Held, Own!At
<1>10. faults' >= faults
  BY <1>1, <1>2 DEF SiteTyped, Own!Bounded
<1> QED
  BY <1>1, <1>3, <1>4, <1>5, <1>6, <1>7, <1>8, <1>9, <1>10, StepKeeps

LEMMA TruncateKeeps ==
    ASSUME Own!Bounded, SiteInv, NEW w \in Workers, Own!TruncateSitemap(w)
    PROVE  SiteInv'
<1>1. /\ call[w].pc = "truncate" /\ sitemap' = {}
      /\ call' = [call EXCEPT ![w].pc = "fill"]
      /\ UNCHANGED <<files, registry, indexing, verify, hub, faults, overlapped>>
  BY DEF Own!TruncateSitemap, Own!At, Own!Goes
<1>2. SiteTyped /\ "fill" \in SiteStages /\ call \in [Workers -> CallType]
  BY TypeFields DEF SiteInv, SiteStages
<1>3. /\ call' \in [Workers -> CallType]
      /\ \A v \in Workers : /\ call'[v].pc = IF v = w THEN "fill" ELSE call[v].pc
                            /\ call'[v].asset = call[v].asset /\ call'[v].read = call[v].read
  BY <1>1, <1>2, CallGoesOn
<1>4. \A v \in Workers \ {w} : call'[v] = call[v]
  BY <1>1, <1>2
<1>5. Own!TypeOK'
  BY <1>1, <1>2, <1>3, SiteTypes DEF SiteTyped
<1>6. Own!Published' = Own!Published
  BY <1>1 DEF Own!Published
<1>7. Own!Published \cup call[w].read \subseteq files /\ call[w].asset \in files
  BY <1>1 DEF SiteInv, Own!WrittenInv
<1>8. faults = 0 /\ ~overlapped => files \subseteq call[w].read \cup {call[w].asset}
  BY <1>1 DEF SiteInv, Own!LoneInv, Own!Held, Own!At
<1>9. Own!Held(w)' = call[w].read \cup {call[w].asset}
  BY <1>3 DEF Own!Held, Own!At
<1>10. faults' >= faults
  BY <1>1, <1>2 DEF SiteTyped, Own!Bounded
<1> QED
  BY <1>1, <1>3, <1>4, <1>5, <1>6, <1>7, <1>8, <1>9, <1>10, StepKeeps

LEMMA FillKeeps ==
    ASSUME Own!Bounded, SiteInv, NEW w \in Workers, Own!FillSitemap(w)
    PROVE  SiteInv'
<1> DEFINE merged == call[w].read \cup {call[w].asset}
<1>1. /\ call[w].pc = "fill"
      /\ call' = [call EXCEPT ![w].pc = "mark"]
      /\ UNCHANGED <<files, registry, indexing, verify, hub, faults, overlapped>>
      /\ merged \subseteq sitemap' /\ sitemap' \subseteq merged \cup sitemap
  BY DEF Own!FillSitemap, Own!At, Own!Goes, Own!MergeSitemapEntry
<1>2. SiteTyped /\ "mark" \in SiteStages /\ call \in [Workers -> CallType]
  BY TypeFields DEF SiteInv, SiteStages
<1>3. /\ call' \in [Workers -> CallType]
      /\ \A v \in Workers : /\ call'[v].pc = IF v = w THEN "mark" ELSE call[v].pc
                            /\ call'[v].asset = call[v].asset /\ call'[v].read = call[v].read
  BY <1>1, <1>2, CallGoesOn
<1>4. \A v \in Workers \ {w} : call'[v] = call[v]
  BY <1>1, <1>2
<1>6. Own!Published' = Own!Published
  BY <1>1 DEF Own!Published
<1>7. sitemap \cup Own!Published \cup call[w].read \subseteq files /\ call[w].asset \in files
  BY <1>1 DEF SiteInv, Own!WrittenInv
<1>5. Own!TypeOK'
  <2>1. sitemap' \subseteq Own!Pages
    BY <1>1, <1>2, <1>7 DEF SiteTyped
  <2> QED
    BY <1>1, <1>2, <1>3, <2>1, SiteTypes DEF SiteTyped
<1>8. faults = 0 /\ ~overlapped => files \subseteq merged
  BY <1>1 DEF SiteInv, Own!LoneInv, Own!Held, Own!At
<1>9. Own!Held(w)' = sitemap'
  BY <1>3 DEF Own!Held, Own!At
<1>10. faults' >= faults
  BY <1>1, <1>2 DEF SiteTyped, Own!Bounded
<1> QED
  BY <1>1, <1>3, <1>4, <1>5, <1>6, <1>7, <1>8, <1>9, <1>10, StepKeeps

LEMMA MarkKeeps ==
    ASSUME Own!Bounded, SiteInv, NEW w \in Workers, Own!MarkUrlRegistryPublished(w)
    PROVE  SiteInv'
<1> DEFINE a == call[w].asset
<1>1. /\ call[w].pc = "mark"
      /\ call' = [call EXCEPT ![w].pc = "enqueue"]
      /\ UNCHANGED <<files, sitemap, indexing, verify, hub, overlapped>>
      /\ \/ registry' = [registry EXCEPT ![a] = "published"] /\ faults' = faults
         \/ registry' = registry /\ faults < MaxFaults /\ faults' = faults + 1
  BY DEF Own!MarkUrlRegistryPublished, Own!At, Own!Goes, Own!Fault
<1>2. /\ SiteTyped /\ "enqueue" \in SiteStages /\ call \in [Workers -> CallType]
      /\ registry \in [Assets -> {"none", "publishing", "published", "failed"}]
  BY TypeFields DEF SiteInv, SiteStages
<1>3. /\ call' \in [Workers -> CallType]
      /\ \A v \in Workers : /\ call'[v].pc = IF v = w THEN "enqueue" ELSE call[v].pc
                            /\ call'[v].asset = call[v].asset /\ call'[v].read = call[v].read
  BY <1>1, <1>2, CallGoesOn
<1>4. \A v \in Workers \ {w} : call'[v] = call[v]
  BY <1>1, <1>2
<1>10. faults' >= faults /\ faults' \in 0..MaxFaults
  BY <1>1, <1>2 DEF SiteTyped, Own!Bounded
<1>5. Own!TypeOK'
  <2>1. registry' \in [Assets -> {"none", "publishing", "published", "failed"}]
    BY <1>1, <1>2
  <2> QED
    BY <1>1, <1>2, <1>3, <1>10, <2>1, SiteTypes DEF SiteTyped
<1>6. Own!Published' \subseteq Own!Published \cup {a}
  BY <1>1, <1>2, PublishedOnlyBy DEF Own!Published
<1>7. sitemap \cup Own!Published \cup call[w].read \subseteq files /\ a \in files
  BY <1>1 DEF SiteInv, Own!WrittenInv
<1>8. faults = 0 /\ ~overlapped => files \subseteq sitemap
  BY <1>1 DEF SiteInv, Own!LoneInv, Own!Held, Own!At
<1>9. Own!Held(w)' = sitemap
  BY <1>1, <1>3 DEF Own!Held, Own!At
<1>11. faults' = 0 => faults = 0
  BY <1>2, <1>10 DEF SiteTyped, Own!Bounded
<1> QED
  BY <1>1, <1>3, <1>4, <1>5, <1>6, <1>7, <1>8, <1>9, <1>10, <1>11, StepKeeps

\* A call ends: with its publish.verify job enqueued, by an error, or by a crash.
LEMMA EndKeeps ==
    ASSUME Own!Bounded, SiteInv, NEW w \in Workers,
           Own!EnqueueVerify(w) \/ Own!ConnectorThrows(w) \/ Own!Crash(w)
    PROVE  SiteInv'
<1> DEFINE a == call[w].asset
<1>1. /\ call[w].pc # "idle"
      /\ call' = [call EXCEPT ![w] = Own!Idle]
      /\ UNCHANGED <<files, sitemap, indexing, hub, overlapped>>
      /\ registry' = registry \/ registry' = [registry EXCEPT ![a] = "failed"]
      /\ \/ call[w].pc = "enqueue" /\ faults' = faults
         \/ faults < MaxFaults /\ faults' = faults + 1
  BY DEF Own!EnqueueVerify, Own!ConnectorThrows, Own!Crash, Own!At, Own!Stops, Own!Fault,
         Own!Writing
<1>2. /\ SiteTyped /\ call \in [Workers -> CallType]
      /\ registry \in [Assets -> {"none", "publishing", "published", "failed"}]
  BY TypeFields DEF SiteInv
<1>3. /\ call' \in [Workers -> CallType]
      /\ \A v \in Workers :
           /\ call'[v].pc = IF v = w THEN "idle" ELSE call[v].pc
           /\ call'[v].asset = IF v = w THEN NoAsset ELSE call[v].asset
           /\ call'[v].read = IF v = w THEN {} ELSE call[v].read
  BY <1>1, <1>2, CallEnds
<1>4. \A v \in Workers \ {w} : call'[v] = call[v]
  BY <1>1, <1>2
<1>5. verify' \in [Assets -> JobType]
  <2>1. verify' = verify \/ verify' = [verify EXCEPT ![a] = Own!Job("queued", RetryLimit + 1)]
    BY DEF Own!EnqueueVerify, Own!ConnectorThrows, Own!Crash
  <2>2. Own!Job("queued", RetryLimit + 1) \in JobType
    BY DEF Own!Job, JobType, Own!Bounded
  <2> QED
    BY <1>2, <2>1, <2>2 DEF SiteTyped
<1>6. faults' \in 0..MaxFaults /\ faults' >= faults
  BY <1>1, <1>2 DEF SiteTyped, Own!Bounded
<1>7. Own!TypeOK'
  <2>1. registry' \in [Assets -> {"none", "publishing", "published", "failed"}]
    BY <1>1, <1>2
  <2> QED
    BY <1>1, <1>2, <1>3, <1>5, <1>6, <2>1, SiteTypes DEF SiteTyped
<1>8. Own!Published' \subseteq Own!Published
  BY <1>1, <1>2, PublishedOnlyBy DEF Own!Published
<1>9. sitemap \cup Own!Published \subseteq files
  BY DEF SiteInv, Own!WrittenInv
<1>10. faults' = 0 /\ ~overlapped => files \subseteq sitemap
  <2> SUFFICES ASSUME faults' = 0, ~overlapped
               PROVE  files \subseteq sitemap
    OBVIOUS
  <2>1. call[w].pc = "enqueue" /\ faults = 0
    BY <1>1, <1>2 DEF SiteTyped, Own!Bounded
  <2> QED
    BY <2>1 DEF SiteInv, Own!LoneInv, Own!Held, Own!At
<1> QED
  BY <1>1, <1>3, <1>4, <1>6, <1>7, <1>8, <1>9, <1>10, StepKeeps
\* The steps that leave calls, files and sitemap alone.
LEMMA QuietKeeps ==
    ASSUME SiteInv, Own!TypeOK', UNCHANGED <<files, sitemap, call, registry, overlapped>>,
           hub'.index \cup hub'.rows \subseteq files, faults' = 0 => faults = 0
    PROVE  SiteInv'
<1>1. Own!Published' = Own!Published
  BY DEF Own!Published
<1>2. Own!WrittenInv'
  BY <1>1 DEF SiteInv, Own!WrittenInv, Own!At
<1>3. Own!LoneInv'
  BY DEF SiteInv, Own!LoneInv, Own!Held, Own!At, Own!Quiet
<1> QED
  BY <1>2, <1>3 DEF SiteInv

LEMMA VerifyKeeps ==
    ASSUME Own!Bounded, SiteInv, NEW a \in Assets, Own!HandlePublishVerify(a)
    PROVE  SiteInv'
<1>1. SiteTyped /\ verify[a].left \in 0..(RetryLimit + 1)
  BY TypeFields DEF SiteInv, SiteTyped, JobType
<1>2. PICK job : verify' = [verify EXCEPT ![a] = job] /\ job \in JobType
  <2>1. Own!Job("done", 0) \in JobType /\ Own!Job("dead", 0) \in JobType
    BY DEF Own!Job, JobType, Own!Bounded
  <2>2. verify[a].left > 1 => Own!Job("queued", verify[a].left - 1) \in JobType
    BY <1>1 DEF Own!Job, JobType, Own!Bounded
  <2>3. Own!RetryOrDie(a) => \E job \in JobType : verify' = [verify EXCEPT ![a] = job]
    BY <2>1, <2>2 DEF Own!RetryOrDie
  <2> QED
    BY <2>1, <2>3 DEF Own!HandlePublishVerify, Own!StampSubmitted
<1>3. verify' \in [Assets -> JobType]
  BY <1>1, <1>2 DEF SiteTyped
<1>4. /\ UNCHANGED <<files, sitemap, call, registry, hub, overlapped>>
      /\ indexing' = indexing \/ indexing' = [indexing EXCEPT ![a] = "submitted"]
      /\ faults' = faults \/ (faults < MaxFaults /\ faults' = faults + 1)
  BY DEF Own!HandlePublishVerify, Own!StampSubmitted, Own!Fault
<1>5. faults' \in 0..MaxFaults /\ (faults' = 0 => faults = 0)
  BY <1>1, <1>4 DEF SiteTyped, Own!Bounded
<1>6. indexing' \in [Assets -> {"unknown", "submitted"}]
  BY <1>1, <1>4 DEF SiteTyped
<1>7. Own!TypeOK'
  BY <1>1, <1>3, <1>4, <1>5, <1>6, SiteTypes DEF SiteTyped
<1>8. hub.index \cup hub.rows \subseteq files
  BY DEF SiteInv, Own!WrittenInv
<1> QED
  BY <1>4, <1>5, <1>7, <1>8, QuietKeeps

LEMMA HubKeeps ==
    ASSUME SiteInv, Own!ReadPublishedRows \/ Own!WriteHubIndex
    PROVE  SiteInv'
<1>1. /\ SiteTyped /\ hub.index \subseteq Own!Pages /\ hub.rows \subseteq Assets
      /\ files \subseteq Own!Pages /\ hub \in HubType
  BY TypeFields DEF SiteInv, SiteTyped
<1>2. UNCHANGED <<files, sitemap, call, registry, indexing, verify, faults, overlapped>>
  BY DEF Own!ReadPublishedRows, Own!WriteHubIndex
<1>3. hub.index \cup hub.rows \cup Own!Published \subseteq files
  BY DEF SiteInv, Own!WrittenInv
<1>4. hub' \in HubType /\ hub'.index \cup hub'.rows \subseteq files
  <2>1. CASE Own!ReadPublishedRows
    <3>1. hub' = [index |-> hub.index, rows |-> Own!Published, building |-> TRUE]
      BY <1>1, <2>1 DEF Own!ReadPublishedRows, Own!Published, HubType
    <3>2. Own!Published \subseteq Assets
      BY DEF Own!Published
    <3> QED
      BY <1>1, <1>3, <3>1, <3>2 DEF HubType
  <2>2. CASE Own!WriteHubIndex
    <3>1. hub' = [index |-> hub.rows \cup files, rows |-> {}, building |-> FALSE]
      BY <2>2 DEF Own!WriteHubIndex, Own!Listing
    <3> QED
      BY <1>1, <1>3, <3>1 DEF HubType, Own!Pages
  <2> QED
    BY <2>1, <2>2
<1>5. Own!TypeOK'
  BY <1>1, <1>2, <1>4, SiteTypes DEF SiteTyped
<1> QED
  BY <1>2, <1>4, <1>5, QuietKeeps

LEMMA SiteStep ==
    ASSUME Own!Bounded, SiteInv, [Own!Next]_Own!vars
    PROVE  SiteInv'
<1>1. ASSUME NEW w \in Workers, Own!Publish(w)
      PROVE  SiteInv'
  BY <1>1, WriteKeeps, ReadKeeps, TruncateKeeps, FillKeeps, MarkKeeps, EndKeeps
     DEF Own!Publish
<1>2. ASSUME NEW w \in Workers,
             Own!ClaimUrlRegistry(w) \/ Own!ConnectorThrows(w) \/ Own!Crash(w)
      PROVE  SiteInv'
  BY <1>2, ClaimKeeps, EndKeeps
<1>3. CASE UNCHANGED Own!vars
  <2>1. SiteTyped'
    BY <1>3, SiteTypes DEF SiteInv, SiteTyped, Own!vars
  <2>2. UNCHANGED <<files, sitemap, call, registry, hub, faults, overlapped>>
    BY <1>3 DEF Own!vars
  <2>3. hub.index \cup hub.rows \subseteq files
    BY DEF SiteInv, Own!WrittenInv
  <2> QED
    BY <2>1, <2>2, <2>3, SiteTypes, QuietKeeps
<1> QED
  BY <1>1, <1>2, <1>3, VerifyKeeps, HubKeeps DEF Own!Next

LEMMA SiteInvariant == Own!Bounded => (Own!Spec => []SiteInv)
<1>1. Own!Bounded => (Own!Init => SiteInv)
  BY SiteInit
<1>2. Own!Bounded => (SiteInv /\ [Own!Next]_Own!vars => SiteInv')
  BY SiteStep
<1> QED
  <2>1. CASE Own!Bounded
    BY <1>1, <1>2, <2>1, PTL DEF Own!Spec
  <2> QED
    BY <2>1

\* The sitemap, the hub's index and the published rows only ever name pages that are on
\* disk (publish() of ownedNet.ts writes the page first), whatever overlaps or fails.
THEOREM NothingEverDangles == Own!Bounded => (Own!Spec => []NothingDangles)
<1>1. SiteInv => NothingDangles
  BY DEF SiteInv, Own!WrittenInv, NothingDangles, Own!NothingDangles
<1> QED
  BY <1>1, SiteInvariant, PTL

\* As long as publish() calls do not overlap and nothing fails, every page on disk is in
\* the sitemap whenever no call is under way.
THEOREM LoneCallsAlwaysListAll == Own!Bounded => (Own!Spec => []LoneCallsListAll)
<1>1. SiteInv => LoneCallsListAll
  BY DEF SiteInv, Own!LoneInv, LoneCallsListAll, Own!LoneCallsListAll
<1> QED
  BY <1>1, SiteInvariant, PTL
-----------------------------------------------------------------------------
(* The question templates *)

OpsTyped(f) == f = [o \in Staff |-> f[o]] /\ \A o \in Staff : Tpl!IsOp(f[o])
RowsTyped(f) == f = [v \in DOMAIN f |-> f[v]] /\ \A v \in DOMAIN f : Tpl!IsRow(f[v])

\* A command goes on to its next step.
LEMMA OpGoesOn ==
    ASSUME OpsTyped(op), NEW o \in Staff, NEW p, Tpl!Goes(o, p)
    PROVE  /\ OpsTyped(op') /\ op'[o].pc = p /\ op'[o].version = op[o].version
           /\ op'[o].slug = op[o].slug /\ op'[o].todo = op[o].todo
           /\ \A q \in Staff \ {o} : op'[q] = op[q]
<1>1. op' = [op EXCEPT ![o] = [op[o] EXCEPT !.pc = p]]
  BY DEF OpsTyped, Tpl!Goes
<1>2. [op[o] EXCEPT !.pc = p] = [pc |-> p, version |-> op[o].version, slug |-> op[o].slug,
                                 todo |-> op[o].todo, core |-> op[o].core]
  BY DEF OpsTyped, Tpl!IsOp
<1> QED
  BY <1>1, <1>2 DEF OpsTyped, Tpl!IsOp

LEMMA RowStatus ==
    ASSUME NEW r, Tpl!IsRow(r), NEW s \in {"draft", "reviewed", "active"}
    PROVE  LET q == [r EXCEPT !.status = s]
           IN /\ Tpl!IsRow(q)
              /\ q.status = s /\ q.questions = r.questions /\ q.slug = r.slug
<1>1. [r EXCEPT !.status = s] = [status |-> s, questions |-> r.questions, core |-> r.core,
                                 slug |-> r.slug, edited |-> r.edited]
  BY DEF Tpl!IsRow
<1> QED
  BY <1>1 DEF Tpl!IsRow

LEMMA RowSlug ==
    ASSUME NEW r, Tpl!IsRow(r), NEW s \in Tpl!Slugs \cup {NoSlug}
    PROVE  LET q == [r EXCEPT !.slug = s]
           IN /\ Tpl!IsRow(q)
              /\ q.status = r.status /\ q.questions = r.questions /\ q.slug = s
<1>1. [r EXCEPT !.slug = s] = [status |-> r.status, questions |-> r.questions, core |-> r.core,
                               slug |-> s, edited |-> r.edited]
  BY DEF Tpl!IsRow
<1> QED
  BY <1>1 DEF Tpl!IsRow

Moving == {"write", "load", "upsert"}
TplInv == Tpl!ShapeInv /\ Tpl!ReviewInv /\ Tpl!OneActive /\ Tpl!ServedInv

GenTyped(g) == g = [pc |-> g.pc, left |-> g.left, pool |-> g.pool, spent |-> g.spent,
                    draft |-> g.draft, version |-> g.version]

LEMMA Typed ==
    ASSUME Tpl!ShapeInv
    PROVE  /\ OpsTyped(op) /\ RowsTyped(rows) /\ GenTyped(gen)
           /\ yaml = [s \in Tpl!Slugs |-> yaml[s]] /\ asked = [s \in Tpl!Slugs |-> asked[s]]
BY DEF Tpl!ShapeInv, OpsTyped, RowsTyped, GenTyped

GenAsking(l) == [Tpl!NoGen EXCEPT !.pc = "asking", !.left = l]
GenDrafted(d, v) == [Tpl!NoGen EXCEPT !.pc = "insert", !.draft = d, !.version = v]
GenAdvising(v) == [Tpl!NoGen EXCEPT !.pc = "advise", !.version = v]

\* What a step of generation leaves: a record, in its next stage.
LEMMA GenStage ==
    /\ GenTyped(Tpl!NoGen) /\ Tpl!NoGen.pc = "idle"
    /\ \A l : GenTyped(GenAsking(l)) /\ GenAsking(l).pc = "asking"
    /\ \A d, v : GenTyped(GenDrafted(d, v)) /\ GenDrafted(d, v).pc = "insert"
    /\ \A v : /\ GenTyped(GenAdvising(v)) /\ GenAdvising(v).pc = "advise"
             /\ GenAdvising(v).version = v
<1> DEFINE N == Tpl!NoGen
           G(p, l, d, v) == [pc |-> p, left |-> l, pool |-> N.pool, spent |-> N.spent,
                             draft |-> d, version |-> v]
<1>1. N = G("idle", N.left, N.draft, N.version)
  BY DEF Tpl!NoGen
<1>2. \A p : [N EXCEPT !.pc = p] = G(p, N.left, N.draft, N.version)
  BY <1>1
<1> HIDE DEF N
<1>3. ASSUME NEW l
      PROVE  [N EXCEPT !.pc = "asking", !.left = l] = G("asking", l, N.draft, N.version)
  <2>1. [N EXCEPT !.pc = "asking", !.left = l] = [[N EXCEPT !.pc = "asking"] EXCEPT !.left = l]
    OBVIOUS
  <2>2. [G("asking", N.left, N.draft, N.version) EXCEPT !.left = l]
          = G("asking", l, N.draft, N.version)
    OBVIOUS
  <2> QED
    BY <1>2, <2>1, <2>2
<1>4. ASSUME NEW d, NEW v
      PROVE  [N EXCEPT !.pc = "insert", !.draft = d, !.version = v] = G("insert", N.left, d, v)
  <2>1. [N EXCEPT !.pc = "insert", !.draft = d, !.version = v]
          = [[[N EXCEPT !.pc = "insert"] EXCEPT !.draft = d] EXCEPT !.version = v]
    OBVIOUS
  <2>2. [G("insert", N.left, N.draft, N.version) EXCEPT !.draft = d]
          = G("insert", N.left, d, N.version)
    OBVIOUS
  <2>3. [G("insert", N.left, d, N.version) EXCEPT !.version = v] = G("insert", N.left, d, v)
    OBVIOUS
  <2> QED
    BY <1>2, <2>1, <2>2, <2>3
<1>5. ASSUME NEW v
      PROVE  [N EXCEPT !.pc = "advise", !.version = v] = G("advise", N.left, N.draft, v)
  <2>1. [N EXCEPT !.pc = "advise", !.version = v]
          = [[N EXCEPT !.pc = "advise"] EXCEPT !.version = v]
    OBVIOUS
  <2>2. [G("advise", N.left, N.draft, N.version) EXCEPT !.version = v]
          = G("advise", N.left, N.draft, v)
    OBVIOUS
  <2> QED
    BY <1>2, <2>1, <2>2
<1>6. \A p, l, d, v : LET g == G(p, l, d, v) IN GenTyped(g) /\ g.pc = p /\ g.version = v
  BY DEF GenTyped
<1>7. GenTyped(N) /\ N.pc = "idle"
  BY <1>1, <1>6
<1>8. \A l : GenAsking(l) = G("asking", l, N.draft, N.version)
  BY <1>3 DEF GenAsking, N
<1>9. \A d, v : GenDrafted(d, v) = G("insert", N.left, d, v)
  BY <1>4 DEF GenDrafted, N
<1>10. \A v : GenAdvising(v) = G("advise", N.left, N.draft, v)
  BY <1>5 DEF GenAdvising, N
<1> QED
  BY <1>6, <1>7, <1>8, <1>9, <1>10 DEF N

GenAsked(g, p, x, l) == [g EXCEPT !.pool = p, !.spent = x, !.left = l]

LEMMA GenAsks ==
    ASSUME NEW g, GenTyped(g), NEW p, NEW x, NEW l
    PROVE  /\ GenTyped(GenAsked(g, p, x, l))
           /\ GenAsked(g, p, x, l).pc = g.pc /\ GenAsked(g, p, x, l).version = g.version
<1>1. [g EXCEPT !.pool = p] = [pc |-> g.pc, left |-> g.left, pool |-> p, spent |-> g.spent,
                               draft |-> g.draft, version |-> g.version]
  BY DEF GenTyped
<1>2. [g EXCEPT !.pool = p, !.spent = x]
        = [pc |-> g.pc, left |-> g.left, pool |-> p, spent |-> x,
           draft |-> g.draft, version |-> g.version]
  <2>1. [g EXCEPT !.pool = p, !.spent = x] = [[g EXCEPT !.pool = p] EXCEPT !.spent = x]
    OBVIOUS
  <2>2. [[pc |-> g.pc, left |-> g.left, pool |-> p, spent |-> g.spent, draft |-> g.draft,
          version |-> g.version] EXCEPT !.spent = x]
          = [pc |-> g.pc, left |-> g.left, pool |-> p, spent |-> x,
             draft |-> g.draft, version |-> g.version]
    OBVIOUS
  <2> QED
    BY <1>1, <2>1, <2>2
<1>3. [g EXCEPT !.pool = p, !.spent = x, !.left = l]
        = [pc |-> g.pc, left |-> l, pool |-> p, spent |-> x,
           draft |-> g.draft, version |-> g.version]
  <2>1. [g EXCEPT !.pool = p, !.spent = x, !.left = l]
          = [[g EXCEPT !.pool = p, !.spent = x] EXCEPT !.left = l]
    OBVIOUS
  <2>2. [[pc |-> g.pc, left |-> g.left, pool |-> p, spent |-> x, draft |-> g.draft,
          version |-> g.version] EXCEPT !.left = l]
          = [pc |-> g.pc, left |-> l, pool |-> p, spent |-> x,
             draft |-> g.draft, version |-> g.version]
    OBVIOUS
  <2> QED
    BY <1>2, <2>1, <2>2
<1>4. GenAsked(g, p, x, l)
        = [pc |-> g.pc, left |-> l, pool |-> p, spent |-> x,
           draft |-> g.draft, version |-> g.version]
  BY <1>3 DEF GenAsked
<1> QED
  BY <1>4 DEF GenTyped

\* A row that is there keeps its questions.
Kept == \A v \in DOMAIN rows : v \in DOMAIN rows' /\ rows'[v].questions = rows[v].questions

LEMMA ReviewedGrows ==
    ASSUME Kept, approved \subseteq approved'
    PROVE  Tpl!Reviewed \subseteq Tpl!Reviewed'
BY DEF Kept, Tpl!Reviewed

\* The steps of gen-template before it writes a row.
LEMMA GenKeeps ==
    ASSUME TplInv, GenTyped(gen'), gen'.pc # "advise",
           UNCHANGED <<rows, yaml, asked, op, approved, given, disturbed>>
    PROVE  TplInv'
<1>1. Tpl!ShapeInv' /\ Tpl!ReviewInv' /\ Tpl!OneActive'
  BY DEF TplInv, Tpl!ShapeInv, Tpl!ReviewInv, Tpl!OneActive, Tpl!IsRow, Tpl!IsOp,
         Tpl!Reviewed, Tpl!IsActive, Tpl!Activating, GenTyped
<1>2. Tpl!ServedInv'
  BY DEF TplInv, Tpl!ServedInv, Tpl!IsActive, Tpl!Carried, Tpl!Served, Tpl!SlugOf,
         Tpl!Activating
<1> QED
  BY <1>1, <1>2 DEF TplInv

LEMMA GenBeforeRow ==
    ASSUME TplInv, Tpl!Diagnose \/ Tpl!AskLanguage \/ Tpl!ReadVersion \/ Tpl!GenDies
    PROVE  TplInv'
<1>1. GenTyped(gen)
  BY Typed DEF TplInv
<1>2. CASE Tpl!Diagnose
  <2>1. PICK l : gen' = GenAsking(l)
    BY <1>2 DEF Tpl!Diagnose, GenAsking
  <2>2. GenTyped(gen') /\ gen'.pc = "asking"
    BY <2>1, GenStage
  <2> QED
    BY <1>2, <2>2, GenKeeps DEF Tpl!Diagnose
<1>3. CASE Tpl!AskLanguage
  <2>1. PICK p, x, l : gen' = GenAsked(gen, p, x, l)
    BY <1>3 DEF Tpl!AskLanguage, GenAsked
  <2>2. gen.pc = "asking"
    BY <1>3 DEF Tpl!AskLanguage
  <2>3. GenTyped(gen') /\ gen'.pc = "asking"
    BY <1>1, <2>1, <2>2, GenAsks
  <2> QED
    BY <1>3, <2>3, GenKeeps DEF Tpl!AskLanguage
<1>4. CASE Tpl!ReadVersion
  <2>1. gen' = GenDrafted(Tpl!Draft(gen.pool), Tpl!NextVersion)
    BY <1>4 DEF Tpl!ReadVersion, GenDrafted
  <2>2. GenTyped(gen') /\ gen'.pc = "insert"
    BY <2>1, GenStage
  <2> QED
    BY <1>4, <2>2, GenKeeps DEF Tpl!ReadVersion
<1>5. CASE Tpl!GenDies
  <2>1. GenTyped(gen') /\ gen'.pc = "idle"
    BY <1>5, GenStage DEF Tpl!GenDies
  <2> QED
    BY <1>5, <2>1, GenKeeps DEF Tpl!GenDies
<1> QED
  BY <1>2, <1>3, <1>4, <1>5
\* Drafts are added; a command that was not activating is idle or about to insert; nothing
\* else happens.
LEMMA PassiveKeeps ==
    ASSUME TplInv, RowsTyped(rows'), OpsTyped(op'), GenTyped(gen'),
           gen'.pc = "advise" => gen'.version \in DOMAIN rows',
           \A v \in DOMAIN rows : v \in DOMAIN rows' /\ rows'[v] = rows[v],
           \A v \in DOMAIN rows' \ DOMAIN rows : rows'[v].status = "draft",
           \A o \in Staff : \/ op'[o] = op[o]
                            \/ op[o].pc \notin Tpl!Activating /\ op'[o].pc \in {"idle", "insert"},
           UNCHANGED <<yaml, asked, approved, given, disturbed>>
    PROVE  TplInv'
<1> USE DEF TplInv, Tpl!Activating
<1>1. Tpl!Reviewed \subseteq Tpl!Reviewed'
  BY ReviewedGrows DEF Kept
<1>2. Tpl!ShapeInv'
  BY DEF Tpl!ShapeInv, RowsTyped, OpsTyped, GenTyped, Tpl!IsRow, Tpl!IsOp
<1>3. Tpl!ReviewInv'
  <2>1. ASSUME NEW v \in DOMAIN rows', rows'[v].status # "draft"
        PROVE  v \in approved'
    BY <2>1 DEF Tpl!ReviewInv
  <2>2. ASSUME NEW o \in Staff
        PROVE  /\ op'[o].pc \in {"activate", "reread"} => op'[o].version \in approved'
               /\ op'[o].pc \in {"write", "load", "upsert"} => op'[o].todo \subseteq Tpl!Reviewed'
    BY <1>1, <2>2 DEF Tpl!ReviewInv
  <2>3. \A s \in Tpl!Slugs : asked'[s] \cup yaml'[s] \subseteq Tpl!Reviewed'
    BY <1>1 DEF Tpl!ReviewInv
  <2>4. Tpl!Slugs' = Tpl!Slugs
    BY DEF Tpl!Slugs
  <2> QED
    BY <2>1, <2>2, <2>3 DEF Tpl!ReviewInv
<1>4. \A v : Tpl!IsActive(v)' <=> Tpl!IsActive(v)
  BY DEF Tpl!IsActive
<1>5. Tpl!OneActive'
  BY <1>4 DEF Tpl!OneActive, Tpl!IsActive
<1>6. Tpl!ServedInv'
  <2> SUFFICES ASSUME ~disturbed
               PROVE  /\ \A o, p \in Staff : op'[o].pc \in Tpl!Activating
                                            /\ op'[p].pc \in Tpl!Activating => o = p
                      /\ \A o \in Staff : op'[o].pc \in Tpl!Activating => Tpl!Carried(o)'
                      /\ \A v \in DOMAIN rows' : Tpl!IsActive(v)' =>
                            Tpl!Served(v)' \/ \E o \in Staff : op'[o].pc \in Tpl!Activating
    BY DEF Tpl!ServedInv
  <2>1. \A o \in Staff : op'[o].pc \in Tpl!Activating => op'[o] = op[o]
    OBVIOUS
  <2>2. \A o \in Staff : op[o].pc \in Tpl!Activating => op'[o] = op[o]
    OBVIOUS
  <2>3. ASSUME NEW o \in Staff, op'[o].pc \in Tpl!Activating
        PROVE  Tpl!Carried(o)'
    <3>1. Tpl!Carried(o) /\ op'[o] = op[o]
      BY <2>1, <2>3 DEF Tpl!ServedInv
    <3>2. op[o].version \in DOMAIN rows
      BY <3>1 DEF Tpl!Carried, Tpl!IsActive
    <3> QED
      BY <1>4, <3>1, <3>2 DEF Tpl!Carried, Tpl!SlugOf
  <2>4. ASSUME NEW v, Tpl!IsActive(v)'
        PROVE  Tpl!Served(v)' \/ \E o \in Staff : op'[o].pc \in Tpl!Activating
    <3>1. Tpl!IsActive(v) /\ v \in DOMAIN rows
      BY <1>4, <2>4 DEF Tpl!IsActive
    <3>2. CASE Tpl!Served(v)
      BY <3>1, <3>2 DEF Tpl!Served, Tpl!SlugOf
    <3> QED
      BY <2>2, <3>1, <3>2 DEF Tpl!ServedInv
  <2> QED
    BY <2>1, <2>3, <2>4 DEF Tpl!ServedInv
<1> QED
  BY <1>2, <1>3, <1>5, <1>6
LEMMA DraftRow ==
    ASSUME NEW d, NEW e
    PROVE  Tpl!IsRow(Tpl!NewRow(d, e)) /\ Tpl!NewRow(d, e).status = "draft"
BY DEF Tpl!NewRow, Tpl!IsRow

LEMMA NoOpShape ==
    Tpl!NoOp = [pc |-> "idle", version |-> 0, slug |-> NoSlug, todo |-> {}, core |-> {}]
BY DEF Tpl!NoOp, Tpl!Begun

\* A command that ends.
LEMMA OpStops ==
    ASSUME OpsTyped(op), NEW o \in Staff, Tpl!Stops(o)
    PROVE  /\ OpsTyped(op') /\ op'[o].pc = "idle"
           /\ \A q \in Staff \ {o} : op'[q] = op[q]
BY NoOpShape DEF Tpl!Stops, OpsTyped, Tpl!IsOp

LEMMA InsertDraftKeeps ==
    ASSUME TplInv, Tpl!InsertDraft
    PROVE  TplInv'
<1>1. OpsTyped(op) /\ RowsTyped(rows) /\ GenTyped(gen)
  BY Typed DEF TplInv
<1>2. UNCHANGED <<yaml, asked, op, count, approved, given, disturbed>>
  BY DEF Tpl!InsertDraft
<1>3. CASE gen.version \in DOMAIN rows
  <2>1. rows' = rows /\ GenTyped(gen') /\ gen'.pc = "idle"
    BY <1>3, GenStage DEF Tpl!InsertDraft
  <2> QED
    BY <1>1, <1>2, <2>1, GenKeeps
<1>4. CASE gen.version \notin DOMAIN rows
  <2>1. /\ rows' = Tpl!WithRow(gen.version, Tpl!NewRow(gen.draft, FALSE))
        /\ gen' = GenAdvising(gen.version)
    BY <1>4 DEF Tpl!InsertDraft, GenAdvising
  <2>2. GenTyped(gen') /\ gen'.version = gen.version
    BY <2>1, GenStage
  <2>3. PICK r : Tpl!IsRow(r) /\ r.status = "draft" /\ rows' = Tpl!WithRow(gen.version, r)
    BY <2>1, DraftRow
  <2>4. /\ RowsTyped(rows') /\ DOMAIN rows' = DOMAIN rows \cup {gen.version}
        /\ rows'[gen.version].status = "draft"
        /\ \A w \in DOMAIN rows : w \in DOMAIN rows' /\ rows'[w] = rows[w]
    BY <1>1, <1>4, <2>3 DEF RowsTyped, Tpl!WithRow
  <2> QED
    BY <1>1, <1>2, <2>2, <2>4, PassiveKeeps
<1> QED
  BY <1>3, <1>4

LEMMA PassiveOps ==
    ASSUME TplInv, NEW o \in Staff,
           Tpl!ReadForEdit(o) \/ Tpl!TransactionFails(o) \/ Tpl!ActionEdit(o)
    PROVE  TplInv'
<1>1. /\ OpsTyped(op) /\ RowsTyped(rows) /\ GenTyped(gen)
      /\ gen.pc = "advise" => gen.version \in DOMAIN rows
  BY Typed DEF TplInv, Tpl!ShapeInv
<1>2. UNCHANGED <<yaml, asked, gen, approved, given, disturbed>>
  BY DEF Tpl!ReadForEdit, Tpl!TransactionFails, Tpl!ActionEdit
<1>3. CASE Tpl!ReadForEdit(o)
  <2>1. PICK t, c : op' = [op EXCEPT ![o] = [pc |-> "insert", version |-> Tpl!NextVersion,
                                             slug |-> NoSlug, todo |-> t, core |-> c]]
    BY <1>3 DEF Tpl!ReadForEdit
  <2>2. /\ OpsTyped(op') /\ op'[o].pc = "insert"
        /\ \A q \in Staff \ {o} : op'[q] = op[q]
    BY <1>1, <2>1 DEF OpsTyped, Tpl!IsOp
  <2>3. op[o].pc = "idle" /\ rows' = rows
    BY <1>3 DEF Tpl!ReadForEdit, Tpl!At
  <2> QED
    BY <1>1, <1>2, <2>2, <2>3, PassiveKeeps DEF Tpl!Activating
<1>4. CASE Tpl!TransactionFails(o)
  <2>1. op[o].pc = "activate" /\ rows' = rows /\ Tpl!Stops(o)
    BY <1>4 DEF Tpl!TransactionFails, Tpl!At, Tpl!RowsAfterRollback
  <2>2. /\ OpsTyped(op') /\ op'[o].pc = "idle"
        /\ \A q \in Staff \ {o} : op'[q] = op[q]
    BY <1>1, <2>1, OpStops
  <2> QED
    BY <1>1, <1>2, <2>1, <2>2, PassiveKeeps DEF Tpl!Activating
<1>5. CASE Tpl!ActionEdit(o)
  <2>1. op[o].pc = "insert" /\ Tpl!Stops(o)
    BY <1>5 DEF Tpl!ActionEdit, Tpl!At
  <2>2. /\ OpsTyped(op') /\ op'[o].pc = "idle"
        /\ \A q \in Staff \ {o} : op'[q] = op[q]
    BY <1>1, <2>1, OpStops
  <2>3. PICK d : rows' = IF op[o].version \in DOMAIN rows THEN rows
                         ELSE Tpl!WithRow(op[o].version, Tpl!NewRow(d, TRUE))
    BY <1>5 DEF Tpl!ActionEdit
  <2>4. CASE op[o].version \in DOMAIN rows
    BY <1>1, <1>2, <2>1, <2>2, <2>3, <2>4, PassiveKeeps DEF Tpl!Activating
  <2>5. CASE op[o].version \notin DOMAIN rows
    <3>1. PICK r : Tpl!IsRow(r) /\ r.status = "draft" /\ rows' = Tpl!WithRow(op[o].version, r)
      BY <2>3, <2>5, DraftRow
    <3>2. /\ RowsTyped(rows') /\ DOMAIN rows' = DOMAIN rows \cup {op[o].version}
          /\ rows'[op[o].version].status = "draft"
          /\ \A w \in DOMAIN rows : w \in DOMAIN rows' /\ rows'[w] = rows[w]
      BY <1>1, <2>5, <3>1 DEF RowsTyped, Tpl!WithRow
    <3> QED
      BY <1>1, <1>2, <2>1, <2>2, <3>2, PassiveKeeps DEF Tpl!Activating
  <2> QED
    BY <2>4, <2>5
<1> QED
  BY <1>3, <1>4, <1>5
\* A command goes on without touching a row: what its version promises still holds.
LEMMA OpKeeps ==
    ASSUME TplInv, NEW o \in Staff, OpsTyped(op'), \A q \in Staff \ {o} : op'[q] = op[q],
           UNCHANGED <<rows, gen, approved, given>>, disturbed' \in BOOLEAN,
           yaml' = [s \in Tpl!Slugs |-> yaml'[s]], asked' = [s \in Tpl!Slugs |-> asked'[s]],
           \A s \in Tpl!Slugs : asked'[s] \cup yaml'[s] \subseteq Tpl!Reviewed,
           op'[o].pc \in {"review", "activate"} \cup Tpl!Activating =>
               op'[o].version \in DOMAIN rows,
           op'[o].pc \in {"activate", "reread"} =>
               op'[o].version \in approved /\ op'[o].slug \in Tpl!Slugs \cup {NoSlug},
           op'[o].pc \in Moving =>
               op'[o].slug \in Tpl!Slugs /\ op'[o].todo \subseteq Tpl!Reviewed
    PROVE  Tpl!ShapeInv' /\ Tpl!ReviewInv' /\ Tpl!OneActive'
<1> USE DEF TplInv, Tpl!Activating, Moving
<1>1. Tpl!Reviewed' = Tpl!Reviewed
  BY DEF Tpl!Reviewed
<1>2. Tpl!ShapeInv'
  <2>1. ASSUME NEW q \in Staff
        PROVE  /\ op'[q].pc \in {"review", "activate"} \cup Tpl!Activating
                    => op'[q].version \in DOMAIN rows'
               /\ op'[q].pc \in {"write", "load", "upsert"} => op'[q].slug \in Tpl!Slugs
               /\ op'[q].pc \in {"activate", "reread"}
                    => op'[q].slug \in Tpl!Slugs \cup {NoSlug}
    BY <2>1 DEF Tpl!ShapeInv
  <2> QED
    BY <2>1 DEF Tpl!ShapeInv, OpsTyped, Tpl!IsRow, Tpl!IsOp
<1>3. Tpl!ReviewInv'
  <2>1. ASSUME NEW q \in Staff
        PROVE  /\ op'[q].pc \in {"activate", "reread"} => op'[q].version \in approved'
               /\ op'[q].pc \in {"write", "load", "upsert"} => op'[q].todo \subseteq Tpl!Reviewed'
    BY <1>1, <2>1 DEF Tpl!ReviewInv
  <2> QED
    BY <1>1, <2>1 DEF Tpl!ReviewInv
<1>4. Tpl!OneActive'
  BY DEF Tpl!OneActive, Tpl!IsActive
<1> QED
  BY <1>2, <1>3, <1>4

\* A command outside an activation changes nothing that an activation relies on.
LEMMA ServedOutside ==
    ASSUME TplInv, NEW o \in Staff, \A q \in Staff \ {o} : op'[q] = op[q],
           op[o].pc \notin Tpl!Activating, op'[o].pc \notin Tpl!Activating,
           UNCHANGED <<rows, yaml, asked, given, disturbed>>
    PROVE  Tpl!ServedInv'
<1>1. \A q \in Staff : /\ (op'[q].pc \in Tpl!Activating) <=> (op[q].pc \in Tpl!Activating)
                       /\ op[q].pc \in Tpl!Activating => op'[q] = op[q]
  OBVIOUS
<1>2. \A v : (Tpl!IsActive(v)' <=> Tpl!IsActive(v)) /\ (Tpl!Served(v)' <=> Tpl!Served(v))
  BY DEF Tpl!IsActive, Tpl!Served, Tpl!SlugOf
<1>3. ASSUME NEW q \in Staff, op[q].pc \in Tpl!Activating, Tpl!Carried(q)
      PROVE  Tpl!Carried(q)'
  BY <1>1, <1>2, <1>3 DEF Tpl!Carried, Tpl!SlugOf
<1>4. Tpl!Activating' = Tpl!Activating
  BY DEF Tpl!Activating
<1> QED
  BY <1>1, <1>2, <1>3, <1>4 DEF TplInv, Tpl!ServedInv

\* The activation under way goes one step further.
LEMMA ServedGoesOn ==
    ASSUME TplInv, NEW o \in Staff, \A q \in Staff \ {o} : op'[q] = op[q],
           op[o].pc \in Tpl!Activating, op'[o].pc \in Tpl!Activating,
           UNCHANGED <<rows, given, disturbed>>, ~disturbed => Tpl!Carried(o)'
    PROVE  Tpl!ServedInv'
<1>1. \A q \in Staff : op'[q].pc \in Tpl!Activating <=> op[q].pc \in Tpl!Activating
  OBVIOUS
<1>2. Tpl!Activating' = Tpl!Activating
  BY DEF Tpl!Activating
<1> QED
  BY <1>1, <1>2 DEF TplInv, Tpl!ServedInv

\* The activation under way ends: the one active version is served, or it was disturbed.
LEMMA ServedAtEnd ==
    ASSUME TplInv, NEW o \in Staff, \A q \in Staff \ {o} : op'[q] = op[q],
           op[o].pc \in Tpl!Activating, op'[o].pc \notin Tpl!Activating,
           UNCHANGED <<rows, given>>,
           NEW v, v = op[o].version, ~disturbed' => ~disturbed /\ Tpl!Served(v)'
    PROVE  Tpl!ServedInv'
<1>1. \A q \in Staff : op'[q].pc \in Tpl!Activating => q # o /\ op[q].pc \in Tpl!Activating
  OBVIOUS
<1>2. Tpl!Activating' = Tpl!Activating
  BY DEF Tpl!Activating
<1>3. \A w \in DOMAIN rows : ~disturbed /\ Tpl!IsActive(w) => w = v
  BY DEF TplInv, Tpl!ServedInv, Tpl!Carried, Tpl!OneActive, Tpl!IsActive
<1>4. \A w : Tpl!IsActive(w)' <=> Tpl!IsActive(w)
  BY DEF Tpl!IsActive
<1>5. ASSUME ~disturbed'
      PROVE  \A q \in Staff : op'[q].pc \notin Tpl!Activating
  BY <1>1, <1>5 DEF TplInv, Tpl!ServedInv
<1>6. ASSUME ~disturbed'
      PROVE  \A w \in DOMAIN rows' : Tpl!IsActive(w)' => Tpl!Served(w)'
  BY <1>3, <1>4, <1>6
<1> QED
  BY <1>2, <1>5, <1>6 DEF Tpl!ServedInv

LEMMA DisturbedTyped == TplInv => disturbed \in BOOLEAN
BY DEF TplInv, Tpl!ShapeInv

LEMMA GivenTyped == TplInv => given \in Tpl!Slugs \cup {NoSlug}
BY DEF TplInv, Tpl!ShapeInv

LEMMA CommandKeeps ==
    ASSUME TplInv, NEW o \in Staff, Tpl!Command(o)
    PROVE  TplInv'
<1>1. OpsTyped(op) /\ RowsTyped(rows) /\ yaml = [s \in Tpl!Slugs |-> yaml[s]]
      /\ asked = [s \in Tpl!Slugs |-> asked[s]]
  BY Typed DEF TplInv
<1>2. UNCHANGED <<rows, yaml, asked, gen, approved, given, disturbed>> /\ op[o].pc = "idle"
  BY DEF Tpl!Command, Tpl!At
<1>3. PICK v \in DOMAIN rows, p \in {"review", "activate"}, s \in Tpl!Slugs \cup {NoSlug} :
        /\ p = "activate" => rows[v].status = "reviewed"
        /\ op' = [op EXCEPT ![o] = [pc |-> p, version |-> v, slug |-> s, todo |-> {},
                                    core |-> {}]]
  <2>1. PICK v \in DOMAIN rows :
          \/ op' = [op EXCEPT ![o] = Tpl!Begun("review", v)]
          \/ /\ rows[v].status = "reviewed"
             /\ \E s \in SlugArgs \cup {NoSlug, Tpl!DefaultSlug(rows[v])} :
                  op' = [op EXCEPT ![o] = [Tpl!Begun("activate", v) EXCEPT !.slug = s]]
    BY DEF Tpl!Command, Tpl!Activatable
  <2>2. Tpl!DefaultSlug(rows[v]) \in Tpl!Slugs
    BY <1>1 DEF Tpl!DefaultSlug, RowsTyped, Tpl!IsRow, Tpl!Slugs
  <2>3. CASE op' = [op EXCEPT ![o] = Tpl!Begun("review", v)]
    <3>1. op' = [op EXCEPT ![o] = [pc |-> "review", version |-> v, slug |-> NoSlug,
                                   todo |-> {}, core |-> {}]]
      BY <2>3, Zenon DEF Tpl!Begun
    <3> QED
      BY <3>1
  <2>4. ASSUME NEW s \in SlugArgs \cup {NoSlug, Tpl!DefaultSlug(rows[v])},
               rows[v].status = "reviewed",
               op' = [op EXCEPT ![o] = [Tpl!Begun("activate", v) EXCEPT !.slug = s]]
        PROVE  /\ s \in Tpl!Slugs \cup {NoSlug} /\ rows[v].status = "reviewed"
               /\ op' = [op EXCEPT ![o] = [pc |-> "activate", version |-> v, slug |-> s,
                                            todo |-> {}, core |-> {}]]
    <3>1. s \in Tpl!Slugs \cup {NoSlug}
      BY <2>2, <2>4, SlugsAssumption DEF Tpl!Slugs
    <3>2. [Tpl!Begun("activate", v) EXCEPT !.slug = s]
            = [pc |-> "activate", version |-> v, slug |-> s, todo |-> {}, core |-> {}]
      BY DEF Tpl!Begun
    <3> QED
      BY <2>4, <3>1, <3>2
  <2> QED
    BY <2>1, <2>3, <2>4
<1>5. /\ OpsTyped(op') /\ op'[o].pc = p /\ op'[o].version = v /\ op'[o].slug = s
      /\ \A q \in Staff \ {o} : op'[q] = op[q]
  BY <1>1, <1>3 DEF OpsTyped, Tpl!IsOp
<1>6. p = "activate" => v \in approved
  BY <1>3 DEF TplInv, Tpl!ReviewInv
<1>7. \A u \in Tpl!Slugs : asked'[u] \cup yaml'[u] \subseteq Tpl!Reviewed
  BY <1>2 DEF TplInv, Tpl!ReviewInv
<1>8. Tpl!ShapeInv' /\ Tpl!ReviewInv' /\ Tpl!OneActive'
  BY <1>1, <1>2, <1>5, <1>6, <1>7, OpKeeps, DisturbedTyped DEF Moving
<1>9. Tpl!ServedInv'
  BY <1>2, <1>5, ServedOutside DEF Tpl!Activating
<1> QED
  BY <1>8, <1>9 DEF TplInv

\* A command carries on with a file's slug and questions.
LEMMA OpCarries ==
    ASSUME OpsTyped(op), NEW o \in Staff, NEW p, NEW s, NEW t, Tpl!Carries(o, p, s, t)
    PROVE  /\ OpsTyped(op') /\ op'[o].pc = p /\ op'[o].version = op[o].version
           /\ op'[o].slug = s /\ op'[o].todo = t
           /\ \A q \in Staff \ {o} : op'[q] = op[q]
BY DEF Tpl!Carries, OpsTyped, Tpl!IsOp

LEMMA RereadKeeps ==
    ASSUME TplInv, NEW o \in Staff, Tpl!Reread(o)
    PROVE  TplInv'
<1> DEFINE v == op[o].version
<1>1. /\ OpsTyped(op) /\ RowsTyped(rows) /\ yaml = [s \in Tpl!Slugs |-> yaml[s]]
      /\ asked = [s \in Tpl!Slugs |-> asked[s]]
  BY Typed DEF TplInv
<1>2. UNCHANGED <<rows, yaml, asked, gen, approved, given, disturbed>> /\ op[o].pc = "reread"
  BY DEF Tpl!Reread, Tpl!At
<1>3. v \in DOMAIN rows /\ v \in approved
  BY <1>2 DEF TplInv, Tpl!ShapeInv, Tpl!ReviewInv, Tpl!Activating
<1>4. \A s \in Tpl!Slugs : asked'[s] \cup yaml'[s] \subseteq Tpl!Reviewed
  BY <1>2 DEF TplInv, Tpl!ReviewInv
<1>5. CASE rows[v].status = "active"
  <2>0. PICK u : u = Tpl!ContextSlug(o, rows[v])
    OBVIOUS
  <2>1. Tpl!Carries(o, "write", u, rows[v].questions)
    BY <1>5, <2>0 DEF Tpl!Reread
  <2>2. /\ OpsTyped(op') /\ op'[o].pc = "write" /\ op'[o].version = v
        /\ op'[o].slug = u /\ op'[o].todo = rows[v].questions
        /\ \A q \in Staff \ {o} : op'[q] = op[q]
    BY <1>1, <2>1, OpCarries
  <2>3. u \in Tpl!Slugs /\ rows[v].questions \subseteq Tpl!Reviewed
    <3>1. op[o].slug \in Tpl!Slugs \cup {NoSlug}
      BY <1>2 DEF TplInv, Tpl!ShapeInv
    <3> QED
      BY <1>1, <1>3, <2>0, <3>1
         DEF RowsTyped, Tpl!IsRow, Tpl!ContextSlug, Tpl!DefaultSlug, Tpl!Slugs, Tpl!Reviewed
  <2>4. Tpl!ShapeInv' /\ Tpl!ReviewInv' /\ Tpl!OneActive'
    BY <1>1, <1>2, <1>3, <1>4, <2>2, <2>3, OpKeeps, DisturbedTyped DEF Moving
  <2>5. ASSUME ~disturbed
        PROVE  Tpl!Carried(o)'
    <3>1. op[o].slug = given
      BY <1>2, <2>5 DEF TplInv, Tpl!ServedInv, Tpl!Carried, Tpl!Activating
    <3>2. u = Tpl!SlugOf(v)
      BY <2>0, <3>1 DEF Tpl!ContextSlug, Tpl!DefaultSlug, Tpl!SlugOf
    <3> QED
      BY <1>2, <1>3, <1>5, <2>2, <3>2 DEF Tpl!Carried, Tpl!IsActive, Tpl!SlugOf
  <2>6. Tpl!ServedInv'
    BY <1>2, <2>2, <2>5, ServedGoesOn DEF Tpl!Activating
  <2> QED
    BY <2>4, <2>6 DEF TplInv
<1>6. CASE rows[v].status # "active"
  <2>1. Tpl!Stops(o)
    BY <1>6 DEF Tpl!Reread
  <2>2. /\ OpsTyped(op') /\ op'[o].pc = "idle"
        /\ \A q \in Staff \ {o} : op'[q] = op[q]
    BY <1>1, <2>1, OpStops
  <2>3. Tpl!ShapeInv' /\ Tpl!ReviewInv' /\ Tpl!OneActive'
    BY <1>1, <1>2, <1>4, <2>2, OpKeeps, DisturbedTyped DEF Moving, Tpl!Activating
  <2>4. disturbed
    BY <1>2, <1>6 DEF TplInv, Tpl!ServedInv, Tpl!Activating, Tpl!Carried, Tpl!IsActive
  <2>5. Tpl!ServedInv'
    BY <1>2, <2>4 DEF Tpl!ServedInv
  <2> QED
    BY <2>3, <2>5 DEF TplInv
<1> QED
  BY <1>5, <1>6

LEMMA WriteYamlKeeps ==
    ASSUME TplInv, NEW o \in Staff, Tpl!WriteYaml(o)
    PROVE  TplInv'
<1> DEFINE v == op[o].version
           s == op[o].slug
<1>1. /\ OpsTyped(op) /\ RowsTyped(rows) /\ yaml = [u \in Tpl!Slugs |-> yaml[u]]
      /\ asked = [u \in Tpl!Slugs |-> asked[u]]
  BY Typed DEF TplInv
<1>2. /\ UNCHANGED <<rows, asked, gen, approved, given, disturbed>> /\ op[o].pc = "write"
      /\ yaml' = [yaml EXCEPT ![s] = op[o].todo] /\ Tpl!Goes(o, "load")
  BY DEF Tpl!WriteYaml, Tpl!At
<1>3. v \in DOMAIN rows /\ s \in Tpl!Slugs /\ op[o].todo \subseteq Tpl!Reviewed
  BY <1>2 DEF TplInv, Tpl!ShapeInv, Tpl!ReviewInv, Tpl!Activating
<1>4. /\ OpsTyped(op') /\ op'[o].pc = "load" /\ op'[o].version = v
      /\ op'[o].slug = s /\ op'[o].todo = op[o].todo
      /\ \A q \in Staff \ {o} : op'[q] = op[q]
  BY <1>1, <1>2, OpGoesOn
<1>5. yaml' = [u \in Tpl!Slugs |-> yaml'[u]] /\ yaml'[s] = op[o].todo
      /\ \A u \in Tpl!Slugs \ {s} : yaml'[u] = yaml[u]
  BY <1>1, <1>2, <1>3
<1>6. \A u \in Tpl!Slugs : asked'[u] \cup yaml'[u] \subseteq Tpl!Reviewed
  BY <1>2, <1>3, <1>5 DEF TplInv, Tpl!ReviewInv
<1>7. Tpl!ShapeInv' /\ Tpl!ReviewInv' /\ Tpl!OneActive'
  BY <1>1, <1>2, <1>3, <1>4, <1>5, <1>6, OpKeeps, DisturbedTyped DEF Moving
<1>8. ASSUME ~disturbed
      PROVE  Tpl!Carried(o)'
  <2>1. Tpl!IsActive(v) /\ s = Tpl!SlugOf(v) /\ op[o].todo = rows[v].questions
    BY <1>2, <1>8 DEF TplInv, Tpl!ServedInv, Tpl!Carried, Tpl!Activating
  <2> QED
    BY <1>2, <1>4, <1>5, <2>1 DEF Tpl!Carried, Tpl!IsActive, Tpl!SlugOf
<1>9. Tpl!ServedInv'
  BY <1>2, <1>4, <1>8, ServedGoesOn DEF Tpl!Activating
<1> QED
  BY <1>7, <1>9 DEF TplInv

LEMMA LoadYamlKeeps ==
    ASSUME TplInv, NEW o \in Staff, Tpl!LoadYaml(o)
    PROVE  TplInv'
<1> DEFINE v == op[o].version
           s == op[o].slug
<1>1. /\ OpsTyped(op) /\ RowsTyped(rows) /\ yaml = [u \in Tpl!Slugs |-> yaml[u]]
      /\ asked = [u \in Tpl!Slugs |-> asked[u]]
  BY Typed DEF TplInv
<1>2. /\ UNCHANGED <<rows, yaml, asked, gen, approved, given, disturbed>> /\ op[o].pc = "load"
      /\ Tpl!Carries(o, "upsert", s, yaml[s])
  BY DEF Tpl!LoadYaml, Tpl!At
<1>3. v \in DOMAIN rows /\ s \in Tpl!Slugs /\ yaml[s] \subseteq Tpl!Reviewed
  BY <1>2 DEF TplInv, Tpl!ShapeInv, Tpl!ReviewInv, Tpl!Activating
<1>4. /\ OpsTyped(op') /\ op'[o].pc = "upsert" /\ op'[o].version = v
      /\ op'[o].slug = s /\ op'[o].todo = yaml[s]
      /\ \A q \in Staff \ {o} : op'[q] = op[q]
  BY <1>1, <1>2, OpCarries
<1>6. \A u \in Tpl!Slugs : asked'[u] \cup yaml'[u] \subseteq Tpl!Reviewed
  BY <1>2 DEF TplInv, Tpl!ReviewInv
<1>7. Tpl!ShapeInv' /\ Tpl!ReviewInv' /\ Tpl!OneActive'
  BY <1>1, <1>2, <1>3, <1>4, <1>6, OpKeeps, DisturbedTyped DEF Moving
<1>8. ASSUME ~disturbed
      PROVE  Tpl!Carried(o)'
  <2>1. Tpl!IsActive(v) /\ s = Tpl!SlugOf(v) /\ yaml[s] = rows[v].questions
    BY <1>2, <1>8 DEF TplInv, Tpl!ServedInv, Tpl!Carried, Tpl!Activating
  <2> QED
    BY <1>2, <1>4, <2>1 DEF Tpl!Carried, Tpl!IsActive, Tpl!SlugOf
<1>9. Tpl!ServedInv'
  BY <1>2, <1>4, <1>8, ServedGoesOn DEF Tpl!Activating
<1> QED
  BY <1>7, <1>9 DEF TplInv

LEMMA UpsertKeeps ==
    ASSUME TplInv, NEW o \in Staff, Tpl!UpsertQuestions(o)
    PROVE  TplInv'
<1>0. PICK v, s : v = op[o].version /\ s = op[o].slug
  OBVIOUS
<1>1. /\ OpsTyped(op) /\ yaml = [u \in Tpl!Slugs |-> yaml[u]]
      /\ asked = [u \in Tpl!Slugs |-> asked[u]]
  BY Typed DEF TplInv
<1>2. /\ UNCHANGED <<rows, yaml, gen, approved, given, disturbed>> /\ op[o].pc = "upsert"
      /\ asked' = [asked EXCEPT ![s] = asked[s] \cup op[o].todo] /\ Tpl!Stops(o)
  BY <1>0, <1>1 DEF Tpl!UpsertQuestions, Tpl!At, Tpl!Upserted
<1>3. v \in DOMAIN rows /\ s \in Tpl!Slugs /\ op[o].todo \subseteq Tpl!Reviewed
  BY <1>0, <1>2 DEF TplInv, Tpl!ShapeInv, Tpl!ReviewInv, Tpl!Activating
<1>4. /\ OpsTyped(op') /\ op'[o].pc = "idle"
      /\ \A q \in Staff \ {o} : op'[q] = op[q]
  BY <1>1, <1>2, OpStops
<1>5. /\ asked' = [u \in Tpl!Slugs |-> asked'[u]] /\ op[o].todo \subseteq asked'[s]
      /\ \A u \in Tpl!Slugs : asked'[u] \subseteq asked[u] \cup op[o].todo
  BY <1>1, <1>2, <1>3
<1>6. \A u \in Tpl!Slugs : asked'[u] \cup yaml'[u] \subseteq Tpl!Reviewed
  BY <1>2, <1>3, <1>5 DEF TplInv, Tpl!ReviewInv
<1>7. Tpl!ShapeInv' /\ Tpl!ReviewInv' /\ Tpl!OneActive'
  BY <1>1, <1>2, <1>4, <1>5, <1>6, OpKeeps, DisturbedTyped DEF Moving, Tpl!Activating
<1>8. ASSUME ~disturbed
      PROVE  Tpl!Served(v)'
  <2>1. /\ s = Tpl!SlugOf(v) /\ op[o].todo = rows[v].questions
        /\ yaml[s] = rows[v].questions
    BY <1>0, <1>2, <1>8 DEF TplInv, Tpl!ServedInv, Tpl!Carried, Tpl!Activating
  <2>2. yaml'[s] = rows'[v].questions /\ rows'[v].questions \subseteq asked'[s]
    BY <1>2, <1>5, <2>1
  <2>3. s = Tpl!SlugOf(v)'
    BY <1>2, <2>1 DEF Tpl!SlugOf
  <2> QED
    BY <2>2, <2>3 DEF Tpl!Served
<1>9. Tpl!ServedInv'
  BY <1>0, <1>2, <1>4, <1>8, ServedAtEnd DEF Tpl!Activating
<1> QED
  BY <1>7, <1>9 DEF TplInv

LEMMA StaffDiesKeeps ==
    ASSUME TplInv, NEW o \in Staff, Tpl!StaffDies(o)
    PROVE  TplInv'
<1> DEFINE s == op[o].slug
<1>1. /\ OpsTyped(op) /\ yaml = [u \in Tpl!Slugs |-> yaml[u]]
      /\ asked = [u \in Tpl!Slugs |-> asked[u]]
  BY Typed DEF TplInv
<1>2. /\ UNCHANGED <<rows, yaml, gen, approved, given>> /\ Tpl!Stops(o)
      /\ disturbed' = (disturbed \/ op[o].pc \in Tpl!Activating)
  BY DEF Tpl!StaffDies
<1>3. PICK made : /\ asked' = IF made = {} THEN asked
                               ELSE [asked EXCEPT ![s] = asked[s] \cup made]
                  /\ IF op[o].pc = "upsert" THEN made \subseteq op[o].todo ELSE made = {}
  BY <1>1 DEF Tpl!StaffDies, Tpl!At
<1>4. /\ OpsTyped(op') /\ op'[o].pc = "idle"
      /\ \A q \in Staff \ {o} : op'[q] = op[q]
  BY <1>1, <1>2, OpStops
<1>5. asked' = [u \in Tpl!Slugs |-> asked'[u]]
      /\ \A u \in Tpl!Slugs : asked'[u] \subseteq Tpl!Reviewed
  <2>1. CASE made = {}
    BY <1>1, <1>3, <2>1 DEF TplInv, Tpl!ReviewInv
  <2>2. CASE made # {}
    <3>1. op[o].pc = "upsert" /\ made \subseteq op[o].todo
      BY <1>3, <2>2
    <3>2. s \in Tpl!Slugs /\ op[o].todo \subseteq Tpl!Reviewed
      BY <3>1 DEF TplInv, Tpl!ShapeInv, Tpl!ReviewInv
    <3>3. \A u \in Tpl!Slugs : asked[u] \subseteq Tpl!Reviewed
      BY DEF TplInv, Tpl!ReviewInv
    <3> QED
      BY <1>1, <1>3, <2>2, <3>1, <3>2, <3>3
  <2> QED
    BY <2>1, <2>2
<1>6. \A u \in Tpl!Slugs : asked'[u] \cup yaml'[u] \subseteq Tpl!Reviewed
  BY <1>2, <1>5 DEF TplInv, Tpl!ReviewInv
<1>7. Tpl!ShapeInv' /\ Tpl!ReviewInv' /\ Tpl!OneActive'
  BY <1>1, <1>2, <1>4, <1>5, <1>6, OpKeeps, DisturbedTyped DEF Moving, Tpl!Activating
<1>8. Tpl!ServedInv'
  <2>1. CASE op[o].pc \in Tpl!Activating
    BY <1>2, <2>1 DEF Tpl!ServedInv
  <2>2. CASE op[o].pc \notin Tpl!Activating
    <3>1. asked' = asked /\ disturbed' = disturbed
      <4>1. made = {}
        BY <1>3, <2>2 DEF Tpl!Activating
      <4>2. disturbed' = disturbed
        <5>1. disturbed \in BOOLEAN
          BY DEF TplInv, Tpl!ShapeInv
        <5> QED
          BY <1>2, <2>2, <5>1, Zenon
      <4> QED
        BY <1>3, <4>1, <4>2
    <3> QED
      BY <1>2, <1>4, <2>2, <3>1, ServedOutside DEF Tpl!Activating
  <2> QED
    BY <2>1, <2>2
<1> QED
  BY <1>7, <1>8 DEF TplInv

\* A row's status or customer is written: its questions stay, and so does what they allow.
LEMMA RowsKeep ==
    ASSUME TplInv, RowsTyped(rows'), OpsTyped(op'), GenTyped(gen'),
           gen'.pc = "advise" => gen'.version \in DOMAIN rows',
           disturbed' \in BOOLEAN, given' \in Tpl!Slugs \cup {NoSlug},
           DOMAIN rows' = DOMAIN rows, Kept,
           approved \subseteq approved',
           \A v \in DOMAIN rows' : rows'[v].status = "draft" \/ v \in approved',
           \A q \in Staff : \/ op'[q] = op[q] \/ op'[q].pc = "idle"
                            \/ /\ op[q].pc = "activate" /\ op'[q].pc = "reread"
                               /\ op'[q].version = op[q].version /\ op'[q].slug = op[q].slug,
           UNCHANGED <<yaml, asked>>
    PROVE  Tpl!ShapeInv' /\ Tpl!ReviewInv'
<1> USE DEF TplInv, Tpl!Activating
<1>1. Tpl!Reviewed \subseteq Tpl!Reviewed'
  BY ReviewedGrows
<1>2. Tpl!Slugs' = Tpl!Slugs
  BY DEF Tpl!Slugs
<1>3. Tpl!ShapeInv'
  <2>1. ASSUME NEW q \in Staff
        PROVE  /\ op'[q].pc \in {"review", "activate"} \cup Tpl!Activating
                    => op'[q].version \in DOMAIN rows'
               /\ op'[q].pc \in {"write", "load", "upsert"} => op'[q].slug \in Tpl!Slugs
               /\ op'[q].pc \in {"activate", "reread"}
                    => op'[q].slug \in Tpl!Slugs \cup {NoSlug}
    BY <2>1 DEF Tpl!ShapeInv
  <2> QED
    BY <1>2, <2>1 DEF Tpl!ShapeInv, RowsTyped, OpsTyped, GenTyped, Tpl!IsRow, Tpl!IsOp
<1>4. Tpl!ReviewInv'
  <2>1. ASSUME NEW q \in Staff
        PROVE  /\ op'[q].pc \in {"activate", "reread"} => op'[q].version \in approved'
               /\ op'[q].pc \in {"write", "load", "upsert"} => op'[q].todo \subseteq Tpl!Reviewed'
    BY <1>1, <2>1 DEF Tpl!ReviewInv
  <2>2. \A s \in Tpl!Slugs : asked'[s] \cup yaml'[s] \subseteq Tpl!Reviewed'
    BY <1>1 DEF Tpl!ReviewInv
  <2> QED
    BY <1>2, <2>1, <2>2 DEF Tpl!ReviewInv
<1> QED
  BY <1>3, <1>4

\* A row that is not active before or after is written outside any activation.
LEMMA ServedElsewhere ==
    ASSUME TplInv, DOMAIN rows' = DOMAIN rows, Kept, NEW v,
           \A w \in DOMAIN rows \ {v} : rows'[w] = rows[w],
           \A q \in Staff : \/ op'[q] = op[q]
                            \/ op[q].pc \notin Tpl!Activating /\ op'[q].pc = "idle",
           UNCHANGED <<yaml, asked, given>>,
           rows'[v].status # "active",
           ~disturbed' => ~disturbed /\ rows[v].status # "active"
    PROVE  Tpl!OneActive' /\ Tpl!ServedInv'
<1>1. \A w : Tpl!IsActive(w)' => w # v /\ Tpl!IsActive(w) /\ rows'[w] = rows[w]
  BY DEF Tpl!IsActive
<1>2. Tpl!OneActive'
  BY <1>1 DEF TplInv, Tpl!OneActive, Tpl!IsActive
<1>3. Tpl!Activating' = Tpl!Activating
  BY DEF Tpl!Activating
<1>4. \A q \in Staff : /\ op'[q].pc \in Tpl!Activating => op'[q] = op[q]
                       /\ op[q].pc \in Tpl!Activating => op'[q] = op[q]
  BY DEF Tpl!Activating
<1>5. ASSUME ~disturbed', NEW q \in Staff, op'[q].pc \in Tpl!Activating
      PROVE  Tpl!Carried(q)'
  <2>1. Tpl!Carried(q) /\ op'[q] = op[q]
    BY <1>4, <1>5 DEF TplInv, Tpl!ServedInv
  <2>2. PICK w : w = op[q].version
    OBVIOUS
  <2>3. w # v /\ w \in DOMAIN rows
    BY <1>5, <2>1, <2>2 DEF Tpl!Carried, Tpl!IsActive
  <2>4. rows'[w] = rows[w]
    BY <2>3
  <2> QED
    BY <2>1, <2>2, <2>3, <2>4 DEF Tpl!Carried, Tpl!IsActive, Tpl!SlugOf
<1>6. ASSUME ~disturbed', NEW w \in DOMAIN rows', Tpl!IsActive(w)'
      PROVE  Tpl!Served(w)' \/ \E q \in Staff : op'[q].pc \in Tpl!Activating
  <2>1. Tpl!IsActive(w) /\ rows'[w] = rows[w] /\ ~disturbed
    BY <1>1, <1>6
  <2>2. Tpl!Served(w) \/ \E q \in Staff : op[q].pc \in Tpl!Activating
    BY <1>6, <2>1 DEF TplInv, Tpl!ServedInv
  <2>3. Tpl!Served(w) => Tpl!Served(w)'
    BY <2>1 DEF Tpl!Served, Tpl!SlugOf
  <2> QED
    BY <1>4, <2>2, <2>3
<1>7. ASSUME ~disturbed', NEW q \in Staff, NEW r \in Staff,
             op'[q].pc \in Tpl!Activating, op'[r].pc \in Tpl!Activating
      PROVE  q = r
  BY <1>4, <1>7 DEF TplInv, Tpl!ServedInv
<1> QED
  BY <1>2, <1>3, <1>5, <1>6, <1>7 DEF Tpl!ServedInv

LEMMA ReviewedKeeps ==
    ASSUME TplInv, NEW o \in Staff, Tpl!ActionReviewed(o)
    PROVE  TplInv'
<1>0. PICK v : v = op[o].version
  OBVIOUS
<1>1. /\ OpsTyped(op) /\ RowsTyped(rows) /\ GenTyped(gen) /\ disturbed \in BOOLEAN
      /\ gen.pc = "advise" => gen.version \in DOMAIN rows
  BY Typed, DisturbedTyped DEF TplInv, Tpl!ShapeInv
<1>2. /\ UNCHANGED <<yaml, asked, gen, given>> /\ op[o].pc = "review" /\ Tpl!Stops(o)
      /\ approved' = approved \cup {v}
      /\ rows' = [rows EXCEPT ![v].status = "reviewed"]
      /\ disturbed' = (disturbed \/ rows[v].status = "active")
  BY <1>0 DEF Tpl!ActionReviewed, Tpl!At
<1>3. v \in DOMAIN rows
  BY <1>0, <1>2 DEF TplInv, Tpl!ShapeInv
<1>4. /\ OpsTyped(op') /\ op'[o].pc = "idle"
      /\ \A q \in Staff \ {o} : op'[q] = op[q]
  BY <1>1, <1>2, OpStops
<1>5. /\ RowsTyped(rows') /\ DOMAIN rows' = DOMAIN rows /\ Kept
      /\ rows'[v].status = "reviewed"
      /\ \A w \in DOMAIN rows \ {v} : rows'[w] = rows[w]
  <2>1. PICK r : r = [rows[v] EXCEPT !.status = "reviewed"]
    OBVIOUS
  <2>2. Tpl!IsRow(r) /\ r.status = "reviewed" /\ r.questions = rows[v].questions
    BY <1>1, <1>3, <2>1, RowStatus DEF RowsTyped
  <2>3. rows' = [rows EXCEPT ![v] = r]
    BY <1>1, <1>2, <1>3, <2>1 DEF RowsTyped
  <2> QED
    BY <1>1, <1>3, <2>2, <2>3 DEF RowsTyped, Kept
<1>6. disturbed' \in BOOLEAN /\ (~disturbed' => ~disturbed /\ rows[v].status # "active")
  BY <1>1, <1>2, Zenon
<1>7. \A w \in DOMAIN rows' : rows'[w].status = "draft" \/ w \in approved'
  BY <1>2, <1>5 DEF TplInv, Tpl!ReviewInv
<1>8. Tpl!ShapeInv' /\ Tpl!ReviewInv'
  BY <1>1, <1>2, <1>4, <1>5, <1>6, <1>7, GivenTyped, RowsKeep
<1>9. Tpl!OneActive' /\ Tpl!ServedInv'
  BY <1>2, <1>4, <1>5, <1>6, ServedElsewhere DEF Tpl!Activating
<1> QED
  BY <1>8, <1>9 DEF TplInv

LEMMA AdvisoryKeeps ==
    ASSUME TplInv, Tpl!UpdateAdvisoryCols
    PROVE  TplInv'
<1>0. PICK v : v = gen.version
  OBVIOUS
<1>1. OpsTyped(op) /\ RowsTyped(rows) /\ disturbed \in BOOLEAN
  BY Typed, DisturbedTyped DEF TplInv
<1>2. /\ UNCHANGED <<yaml, asked, op, approved, given>> /\ gen.pc = "advise" /\ gen' = Tpl!NoGen
      /\ disturbed' = (disturbed \/ rows[v].status = "active")
  BY <1>0 DEF Tpl!UpdateAdvisoryCols
<1>3. PICK s \in {NoSlug, Customer} : rows' = [rows EXCEPT ![v].slug = s]
  BY <1>0 DEF Tpl!UpdateAdvisoryCols
<1>4. v \in DOMAIN rows
  BY <1>0, <1>2 DEF TplInv, Tpl!ShapeInv
<1>5. /\ RowsTyped(rows') /\ DOMAIN rows' = DOMAIN rows /\ Kept
      /\ \A w \in DOMAIN rows : rows'[w].status = rows[w].status
      /\ \A w \in DOMAIN rows \ {v} : rows'[w] = rows[w]
  <2>1. PICK r : r = [rows[v] EXCEPT !.slug = s]
    OBVIOUS
  <2>2. Tpl!IsRow(r) /\ r.status = rows[v].status /\ r.questions = rows[v].questions
    BY <1>1, <1>4, <2>1, RowSlug DEF RowsTyped, Tpl!Slugs
  <2>3. rows' = [rows EXCEPT ![v] = r]
    BY <1>1, <1>3, <1>4, <2>1 DEF RowsTyped
  <2> QED
    BY <1>1, <1>4, <2>2, <2>3 DEF RowsTyped, Kept
<1>6. disturbed' \in BOOLEAN /\ (~disturbed' => ~disturbed /\ rows[v].status # "active")
  BY <1>1, <1>2, Zenon
<1>7. \A w \in DOMAIN rows' : rows'[w].status = "draft" \/ w \in approved'
  BY <1>2, <1>5 DEF TplInv, Tpl!ReviewInv
<1>8. GenTyped(gen') /\ gen'.pc = "idle"
  BY <1>2, GenStage
<1>9. OpsTyped(op')
  BY <1>1, <1>2
<1>10. Tpl!ShapeInv' /\ Tpl!ReviewInv'
  BY <1>2, <1>5, <1>6, <1>7, <1>8, <1>9, GivenTyped, RowsKeep
<1>11. CASE rows[v].status # "active"
  <2>1. Tpl!OneActive' /\ Tpl!ServedInv'
    BY <1>2, <1>4, <1>5, <1>6, <1>11, ServedElsewhere
  <2> QED
    BY <1>10, <2>1 DEF TplInv
<1>12. CASE rows[v].status = "active"
  <2>1. disturbed'
    BY <1>6, <1>12
  <2>2. Tpl!OneActive'
    BY <1>5 DEF TplInv, Tpl!OneActive, Tpl!IsActive
  <2>3. Tpl!ServedInv'
    BY <2>1 DEF Tpl!ServedInv
  <2> QED
    BY <1>10, <2>2, <2>3 DEF TplInv
<1> QED
  BY <1>11, <1>12

LEMMA ActivateKeeps ==
    ASSUME TplInv, NEW o \in Staff, Tpl!ActionActive(o)
    PROVE  TplInv'
<1>0. PICK v : v = op[o].version
  OBVIOUS
<1>1. /\ OpsTyped(op) /\ RowsTyped(rows) /\ GenTyped(gen) /\ disturbed \in BOOLEAN
      /\ gen.pc = "advise" => gen.version \in DOMAIN rows
  BY Typed, DisturbedTyped DEF TplInv, Tpl!ShapeInv
<1>2. /\ UNCHANGED <<yaml, asked, gen, approved>> /\ op[o].pc = "activate"
      /\ given' = op[o].slug
      /\ Tpl!Goes(o, "reread") /\ rows' = [Tpl!Demoted EXCEPT ![v].status = "active"]
  BY <1>0 DEF Tpl!ActionActive, Tpl!At
<1>3. /\ disturbed' \in BOOLEAN
      /\ ~disturbed' => ~disturbed /\ \A p \in Staff \ {o} : op[p].pc \notin Tpl!Activating
  <2>1. disturbed' = (disturbed \/ \E p \in Staff \ {o} : op[p].pc \in Tpl!Activating)
    BY DEF Tpl!ActionActive
  <2> QED
    BY <1>1, <2>1, Zenon
<1>4. v \in DOMAIN rows /\ v \in approved
  BY <1>0, <1>2 DEF TplInv, Tpl!ShapeInv, Tpl!ReviewInv
<1>5. /\ OpsTyped(op') /\ op'[o].pc = "reread" /\ op'[o].version = v
      /\ op'[o].slug = op[o].slug
      /\ \A q \in Staff \ {o} : op'[q] = op[q]
  BY <1>0, <1>1, <1>2, OpGoesOn
<1>6. PICK d : d = Tpl!Demoted
  OBVIOUS
<1>7. /\ RowsTyped(d) /\ DOMAIN d = DOMAIN rows
      /\ \A w \in DOMAIN rows : /\ d[w].questions = rows[w].questions
                                /\ d[w].status # "active"
                                /\ d[w].status = "draft" \/ rows[w].status # "draft"
  <2>1. d = [w \in DOMAIN rows |-> IF rows[w].status = "active"
                                   THEN [rows[w] EXCEPT !.status = "reviewed"] ELSE rows[w]]
    BY <1>6 DEF Tpl!Demoted
  <2>2. ASSUME NEW w \in DOMAIN rows
        PROVE  /\ Tpl!IsRow(d[w]) /\ d[w].questions = rows[w].questions
               /\ d[w].status # "active"
               /\ d[w].status = "draft" \/ rows[w].status # "draft"
    <3>1. Tpl!IsRow(rows[w])
      BY <1>1 DEF RowsTyped
    <3>2. CASE rows[w].status = "active"
      <4>1. PICK r : r = [rows[w] EXCEPT !.status = "reviewed"]
        OBVIOUS
      <4>2. Tpl!IsRow(r) /\ r.status = "reviewed" /\ r.questions = rows[w].questions
        BY <3>1, <4>1, RowStatus
      <4>3. d[w] = r
        BY <2>1, <3>2, <4>1
      <4> QED
        BY <3>2, <4>2, <4>3
    <3>3. CASE rows[w].status # "active"
      BY <2>1, <3>1, <3>3
    <3> QED
      BY <3>2, <3>3
  <2>3. DOMAIN d = DOMAIN rows
    BY <2>1
  <2> QED
    BY <2>1, <2>2, <2>3 DEF RowsTyped
<1>8. /\ RowsTyped(rows') /\ DOMAIN rows' = DOMAIN rows /\ Kept
      /\ rows'[v].status = "active"
      /\ \A w \in DOMAIN rows \ {v} : /\ rows'[w].status # "active"
                                      /\ rows'[w].status = "draft" \/ rows[w].status # "draft"
  <2>1. PICK r : r = [d[v] EXCEPT !.status = "active"]
    OBVIOUS
  <2>2. Tpl!IsRow(r) /\ r.status = "active" /\ r.questions = rows[v].questions
    BY <1>4, <1>7, <2>1, RowStatus DEF RowsTyped
  <2>3. rows' = [d EXCEPT ![v].status = "active"]
    BY <1>2, <1>6
  <2>4. rows' = [d EXCEPT ![v] = r]
    BY <1>4, <1>7, <2>1, <2>3 DEF RowsTyped
  <2> QED
    BY <1>4, <1>7, <2>2, <2>4 DEF RowsTyped, Kept
<1>9. \A w \in DOMAIN rows' : rows'[w].status = "draft" \/ w \in approved'
  BY <1>2, <1>4, <1>8 DEF TplInv, Tpl!ReviewInv
<1>10. Tpl!ShapeInv' /\ Tpl!ReviewInv'
  <2>1. \A q \in Staff : \/ op'[q] = op[q]
                         \/ /\ op[q].pc = "activate" /\ op'[q].pc = "reread"
                            /\ op'[q].version = op[q].version /\ op'[q].slug = op[q].slug
    BY <1>0, <1>2, <1>5
  <2>2. given' \in Tpl!Slugs \cup {NoSlug}
    BY <1>2 DEF TplInv, Tpl!ShapeInv
  <2> QED
    BY <1>1, <1>2, <1>3, <1>5, <1>8, <1>9, <2>1, <2>2, RowsKeep
<1>11. Tpl!OneActive'
  BY <1>8 DEF Tpl!OneActive, Tpl!IsActive
<1>12. Tpl!ServedInv'
  <2>1. Tpl!IsActive(v)'
    BY <1>4, <1>8 DEF Tpl!IsActive
  <2>2. Tpl!Carried(o)'
    BY <1>2, <1>5, <2>1 DEF Tpl!Carried
  <2>3. Tpl!Activating' = Tpl!Activating /\ "reread" \in Tpl!Activating
    BY DEF Tpl!Activating
  <2>4. ~disturbed' => \A q \in Staff : op'[q].pc \in Tpl!Activating => q = o
    BY <1>3, <1>5
  <2> QED
    BY <1>5, <2>2, <2>3, <2>4 DEF Tpl!ServedInv
<1> QED
  BY <1>10, <1>11, <1>12 DEF TplInv

LEMMA TemplatesInit ==
    ASSUME Tpl!Init
    PROVE  TplInv
<1>1. /\ rows = <<>> /\ yaml = [s \in Tpl!Slugs |-> {}] /\ asked = [s \in Tpl!Slugs |-> {}]
      /\ gen = Tpl!NoGen /\ op = [o \in Staff |-> Tpl!NoOp] /\ ~disturbed /\ disturbed \in BOOLEAN
      /\ given = NoSlug
  BY DEF Tpl!Init
<1>2. DOMAIN rows = {} /\ rows = [v \in DOMAIN rows |-> rows[v]]
  BY <1>1
<1>3. GenTyped(gen) /\ gen.pc = "idle"
  BY <1>1, GenStage
<1>4. \A o \in Staff : Tpl!IsOp(op[o]) /\ op[o].pc = "idle"
  BY <1>1, NoOpShape DEF Tpl!IsOp
<1>5. Tpl!ShapeInv
  BY <1>1, <1>2, <1>3, <1>4 DEF Tpl!ShapeInv, GenTyped, Tpl!Activating
<1>6. Tpl!ReviewInv
  BY <1>1, <1>2, <1>4 DEF Tpl!ReviewInv, Tpl!Reviewed
<1>7. Tpl!OneActive /\ Tpl!ServedInv
  BY <1>2, <1>4 DEF Tpl!OneActive, Tpl!ServedInv, Tpl!Activating
<1> QED
  BY <1>5, <1>6, <1>7 DEF TplInv

LEMMA TemplatesStep ==
    ASSUME TplInv, [Tpl!Next]_Tpl!vars
    PROVE  TplInv'
<1>1. CASE Tpl!GenTemplate \/ Tpl!GenDies
  BY <1>1, GenBeforeRow, InsertDraftKeeps, AdvisoryKeeps DEF Tpl!GenTemplate
<1>2. ASSUME NEW o \in Staff, Tpl!Starts(o) \/ Tpl!Continue(o) \/ Tpl!StaffDies(o)
      PROVE  TplInv'
  BY <1>2, CommandKeeps, PassiveOps, ReviewedKeeps, ActivateKeeps, RereadKeeps,
     WriteYamlKeeps, LoadYamlKeeps, UpsertKeeps, StaffDiesKeeps
     DEF Tpl!Starts, Tpl!Continue
<1>3. CASE UNCHANGED Tpl!vars
  <2>1. UNCHANGED <<rows, yaml, asked, op, approved, given, disturbed>> /\ gen' = gen
    BY <1>3 DEF Tpl!vars
  <2>2. Tpl!ShapeInv' /\ Tpl!ReviewInv' /\ Tpl!OneActive'
    BY <2>1 DEF TplInv, Tpl!ShapeInv, Tpl!ReviewInv, Tpl!OneActive, Tpl!IsRow, Tpl!IsOp,
                Tpl!Reviewed, Tpl!IsActive, Tpl!Activating
  <2>3. Tpl!ServedInv'
    BY <2>1 DEF TplInv, Tpl!ServedInv, Tpl!IsActive, Tpl!Carried, Tpl!Served, Tpl!SlugOf,
                Tpl!Activating
  <2> QED
    BY <2>2, <2>3 DEF TplInv
<1> QED
  BY <1>1, <1>2, <1>3 DEF Tpl!Next

LEMMA TemplatesInvariant == Tpl!Spec => []TplInv
<1>1. Tpl!Init => TplInv
  BY TemplatesInit
<1>2. TplInv /\ [Tpl!Next]_Tpl!vars => TplInv'
  BY TemplatesStep
<1> QED
  BY <1>1, <1>2, PTL DEF Tpl!Spec

\* Whatever the staff's commands, the generations and the crashes interleave to, every
\* question in a customer's file or among those that are asked belongs to a version that
\* somebody has marked reviewed (actionActive and materialize of industry-template.ts).
THEOREM OnlyReviewedIsEverAsked == Tpl!Spec => []OnlyReviewedIsAsked
<1>1. TplInv => OnlyReviewedIsAsked
  BY DEF TplInv, Tpl!ReviewInv, Tpl!Reviewed, OnlyReviewedIsAsked, Tpl!OnlyReviewedIsAsked
<1> QED
  BY <1>1, TemplatesInvariant, PTL

\* With no activation under way, none cut off, overlapped or undone by a late review, the
\* active version is in the file its last activation was for, which is that of the slug the
\* command was given, else of the row's customer, else of the industry, and all of it is
\* asked there (reviewTemplate.ts:327).
THEOREM ActiveIsAlwaysServed == Tpl!Spec => []ActiveIsServed
<1>1. TplInv => ActiveIsServed
  BY DEF TplInv, Tpl!ServedInv, ActiveIsServed, Tpl!ActiveIsServed, Tpl!IsActive
<1> QED
  BY <1>1, TemplatesInvariant, PTL

\* A version is only ever demoted by the transaction that promotes another, or by a review
\* command that read it while it was a draft.
THEOREM ActiveIsOnlyReplaced == Tpl!Spec => ActiveIsReplaced
<1> DEFINE Step == \A v \in DOMAIN rows :
                      rows[v].status = "active" /\ rows'[v].status # "active"
                        => \/ \E w \in DOMAIN rows :
                                rows[w].status # "active" /\ rows'[w].status = "active"
                           \/ \E o \in Staff : Tpl!At(o, "review") /\ op[o].version = v
<1>1. TplInv /\ [Tpl!Next]_Tpl!vars => [Step]_Tpl!vars
  <2> SUFFICES ASSUME TplInv, Tpl!Next,
                      NEW v \in DOMAIN rows, rows[v].status = "active",
                      rows'[v].status # "active"
               PROVE  \/ \E w \in DOMAIN rows : /\ rows[w].status # "active"
                                                /\ rows'[w].status = "active"
                      \/ \E o \in Staff : Tpl!At(o, "review") /\ op[o].version = v
    OBVIOUS
  <2>1. RowsTyped(rows)
    BY Typed DEF TplInv
  <2>2. ~Tpl!GenDies /\ ~Tpl!GenTemplate
    <3>1. Tpl!Diagnose \/ Tpl!AskLanguage \/ Tpl!ReadVersion \/ Tpl!GenDies => rows' = rows
      BY DEF Tpl!Diagnose, Tpl!AskLanguage, Tpl!ReadVersion, Tpl!GenDies
    <3>2. Tpl!InsertDraft => rows'[v] = rows[v]
      BY DEF Tpl!InsertDraft, Tpl!WithRow
    <3>3. Tpl!UpdateAdvisoryCols => rows'[v].status = rows[v].status
      <4> SUFFICES ASSUME NEW s, rows' = [rows EXCEPT ![gen.version].slug = s]
                   PROVE  rows'[v].status = rows[v].status
        BY DEF Tpl!UpdateAdvisoryCols
      <4> QED
        BY <2>1 DEF RowsTyped, Tpl!IsRow
    <3> QED
      BY <3>1, <3>2, <3>3 DEF Tpl!GenTemplate
  <2>3. PICK o \in Staff : Tpl!Starts(o) \/ Tpl!Continue(o) \/ Tpl!StaffDies(o)
    BY <2>2 DEF Tpl!Next
  <2>4. Tpl!ActionReviewed(o) \/ Tpl!ActionActive(o)
    <3>1. Tpl!Command(o) \/ Tpl!ReadForEdit(o) \/ Tpl!TransactionFails(o) \/ Tpl!Reread(o)
            \/ Tpl!WriteYaml(o) \/ Tpl!LoadYaml(o) \/ Tpl!UpsertQuestions(o)
            \/ Tpl!StaffDies(o) => rows' = rows
      BY DEF Tpl!Command, Tpl!ReadForEdit, Tpl!TransactionFails, Tpl!RowsAfterRollback,
             Tpl!Reread, Tpl!WriteYaml, Tpl!LoadYaml, Tpl!UpsertQuestions, Tpl!StaffDies
    <3>2. Tpl!ActionEdit(o) => rows'[v] = rows[v]
      BY DEF Tpl!ActionEdit, Tpl!WithRow
    <3> QED
      BY <2>3, <3>1, <3>2 DEF Tpl!Starts, Tpl!Continue
  <2>5. CASE Tpl!ActionReviewed(o)
    <3>1. Tpl!At(o, "review") /\ rows' = [rows EXCEPT ![op[o].version].status = "reviewed"]
      BY <2>5 DEF Tpl!ActionReviewed
    <3>2. op[o].version = v
      BY <2>1, <3>1 DEF RowsTyped
    <3> QED
      BY <3>1, <3>2
  <2>6. CASE Tpl!ActionActive(o)
    <3>1. PICK w : w = op[o].version
      OBVIOUS
    <3>2. rows' = [Tpl!Demoted EXCEPT ![w].status = "active"]
      BY <2>6, <3>1 DEF Tpl!ActionActive
    <3>3. w \in DOMAIN rows
      BY <2>6, <3>1 DEF Tpl!ActionActive, Tpl!At, TplInv, Tpl!ShapeInv
    <3>4. rows'[w].status = "active"
      <4>1. Tpl!IsRow(rows[w])
        BY <2>1, <3>3 DEF RowsTyped
      <4>2. Tpl!IsRow(Tpl!Demoted[w])
        BY <3>3, <4>1, RowStatus DEF Tpl!Demoted
      <4>3. DOMAIN Tpl!Demoted = DOMAIN rows
        BY DEF Tpl!Demoted
      <4>4. rows'[w] = [Tpl!Demoted[w] EXCEPT !.status = "active"]
        BY <3>2, <3>3, <4>3
      <4> QED
        BY <4>2, <4>4, RowStatus
    <3>5. rows[w].status # "active"
      BY <3>3, <3>4 DEF TplInv, Tpl!OneActive, Tpl!IsActive
    <3> QED
      BY <3>3, <3>4, <3>5
  <2> QED
    BY <2>4, <2>5, <2>6
<1> QED
  BY <1>1, TemplatesInvariant, PTL DEF Tpl!Spec, ActiveIsReplaced, Tpl!ActiveIsReplaced

-----------------------------------------------------------------------------
(* The rotation of the questions *)

\* The periods and the rounds of the three tiers.
LEMMA Periods ==
    ASSUME NEW t \in Tiers
    PROVE  /\ CYCLE_PERIOD[t] \in {1, 2, 4} /\ DEFAULT_NUM_SLICES[t] = CYCLE_PERIOD[t]
           /\ Round(t) = CYCLE_PERIOD[t] * CYCLE_PERIOD[t]
BY DEF Tiers, CYCLE_PERIOD, DEFAULT_NUM_SLICES, Round

\* One slice more, unless the slices are through.
LEMMA NextSlice ==
    ASSUME NEW s \in 1..4, NEW m \in Int
    PROVE  /\ m % s \in 0..(s - 1)
           /\ (m + 1) % s # 0 => (m + 1) % s = (m % s) + 1
<1>1. s = 1 \/ s = 2 \/ s = 3 \/ s = 4
  OBVIOUS
<1> QED
  BY <1>1

LEMMA QuestionOf ==
    ASSUME NEW q \in Questions
    PROVE  q[1] \in Tiers /\ q[2] \in 0..(Count[q[1]] - 1)
BY RotationAssumption DEF Questions

LEMMA SlicesOf ==
    ASSUME NEW t \in Tiers, Count[t] > 0
    PROVE  /\ NumSlices(t) \in 1..4 /\ NumSlices(t) <= CYCLE_PERIOD[t]
           /\ SliceSize(t) \in Nat /\ NumSlices(t) * SliceSize(t) >= Count[t]
<1>1. Count[t] \in Nat /\ CYCLE_PERIOD[t] \in {1, 2, 4}
      /\ DEFAULT_NUM_SLICES[t] = CYCLE_PERIOD[t]
  BY Periods, RotationAssumption
<1>2. NumSlices(t) \in 1..4 /\ NumSlices(t) <= CYCLE_PERIOD[t]
  BY <1>1 DEF NumSlices, Least
<1>3. PICK s \in 1..4 : s = NumSlices(t)
  BY <1>2
<1>4. SliceSize(t) = (Count[t] + s - 1) \div s
  BY <1>3 DEF SliceSize
<1>5. ((Count[t] + s - 1) \div s) \in Nat /\ s * ((Count[t] + s - 1) \div s) >= Count[t]
  <2>1. s = 1 \/ s = 2 \/ s = 3 \/ s = 4
    OBVIOUS
  <2> QED
    BY <1>1, <2>1
<1> QED
  BY <1>2, <1>3, <1>4, <1>5

\* Every question lies in one of the slices of its tier.
LEMMA SliceCovers ==
    ASSUME NEW q \in Questions
    PROVE  \E j \in 0..(NumSlices(q[1]) - 1) : InSlice(q, j)
<1>1. q[1] \in Tiers /\ q[2] \in Nat /\ q[2] < Count[q[1]] /\ Count[q[1]] > 0
  BY QuestionOf, RotationAssumption
<1>2. PICK s \in 1..4 : s = NumSlices(q[1])
  BY <1>1, SlicesOf
<1>3. PICK z \in Nat : z = SliceSize(q[1])
  BY <1>1, SlicesOf
<1>4. q[2] < s * z
  BY <1>1, <1>2, <1>3, SlicesOf, RotationAssumption
<1>5. \E j \in 0..(s - 1) : j * z <= q[2] /\ q[2] < (j + 1) * z
  <2>1. s = 1 \/ s = 2 \/ s = 3 \/ s = 4
    OBVIOUS
  <2>2. PICK k \in Nat : k = q[2]
    BY <1>1
  <2>3. \/ k < z
        \/ s > 1 /\ z <= k /\ k < 2 * z
        \/ s > 2 /\ 2 * z <= k /\ k < 3 * z
        \/ s > 3 /\ 3 * z <= k /\ k < 4 * z
    BY <1>4, <2>1, <2>2
  <2>4. k < z => 0 * z <= k /\ k < (0 + 1) * z
    OBVIOUS
  <2>5. z <= k /\ k < 2 * z => 1 * z <= k /\ k < (1 + 1) * z
    OBVIOUS
  <2>6. 2 * z <= k /\ k < 3 * z => 2 * z <= k /\ k < (2 + 1) * z
    OBVIOUS
  <2>7. 3 * z <= k /\ k < 4 * z => 3 * z <= k /\ k < (3 + 1) * z
    OBVIOUS
  <2>8. \E j \in 0..(s - 1) : j * z <= k /\ k < (j + 1) * z
    <3>1. CASE k < z
      <4>1. 0 \in 0..(s - 1)
        OBVIOUS
      <4> QED
        BY <2>4, <3>1, <4>1, Zenon
    <3>2. CASE s > 1 /\ z <= k /\ k < 2 * z
      <4>1. 1 \in 0..(s - 1)
        BY <3>2
      <4> QED
        BY <2>5, <3>2, <4>1, Zenon
    <3>3. CASE s > 2 /\ 2 * z <= k /\ k < 3 * z
      <4>1. 2 \in 0..(s - 1)
        BY <3>3
      <4> QED
        BY <2>6, <3>3, <4>1, Zenon
    <3>4. CASE s > 3 /\ 3 * z <= k /\ k < 4 * z
      <4>1. 3 \in 0..(s - 1)
        BY <3>4
      <4> QED
        BY <2>7, <3>4, <4>1, Zenon
    <3> QED
      BY <2>3, <3>1, <3>2, <3>3, <3>4
  <2> QED
    BY <2>2, <2>8
<1> QED
  BY <1>2, <1>3, <1>5 DEF InSlice

TurnTyped ==
    /\ cycles \in Nat /\ failures \in Nat
    /\ cursor \in [Tiers -> Nat] /\ waiting \in [Questions -> Nat]

\* What is left of a turn of a tier of period p and s slices, at distance d of its cursor.
TurnLeft(p, s, d, u, j) == IF d >= p THEN p - 1 ELSE d + p * ((u - j) % s)

\* One cycle: nothing is due, or the next slice is measured, or a failure pays a round.
LEMMA TurnGoesOn ==
    ASSUME NEW p \in {1, 2, 4}, NEW s \in 1..4, s <= p, NEW c \in Nat, NEW k \in Nat, k <= c,
           NEW j \in 0..(s - 1), NEW w \in Nat, NEW r \in Nat,
           w <= r + TurnLeft(p, s, c - k, k \div p, j)
    PROVE  /\ c + 1 - k < p => w + 1 <= r + TurnLeft(p, s, c + 1 - k, k \div p, j)
           /\ c + 1 - k >= p /\ ((c + 1) \div p) % s # j
                => w + 1 <= r + TurnLeft(p, s, 0, (c + 1) \div p, j)
           /\ w + 1 <= r + p * p + TurnLeft(p, s, c + 1 - k, k \div p, j)
           /\ w + 1 <= r + p * p + TurnLeft(p, s, 0, (c + 1) \div p, j)
           /\ w < r + p * p
<1>1. (p = 1 \/ p = 2 \/ p = 4) /\ (s = 1 \/ s = 2 \/ s = 3 \/ s = 4)
  OBVIOUS
<1>2. CASE p = 1
  BY <1>1, <1>2 DEF TurnLeft
<1>3. CASE p = 2
  BY <1>1, <1>3 DEF TurnLeft
<1>4. CASE p = 4
  BY <1>1, <1>4 DEF TurnLeft
<1> QED
  BY <1>1, <1>2, <1>3, <1>4

RotationInv == TurnTyped /\ TurnInv

\* What the invariant says of one question, and of one after the cycle.
LEMMA TurnOf ==
    ASSUME RotationInv, NEW q \in Questions, NEW j \in 0..(NumSlices(q[1]) - 1), InSlice(q, j)
    PROVE  waiting[q] <= failures * Round(q[1])
             + TurnLeft(CYCLE_PERIOD[q[1]], NumSlices(q[1]), cycles - cursor[q[1]],
                        cursor[q[1]] \div CYCLE_PERIOD[q[1]], j)
BY DEF RotationInv, TurnInv, TurnLeft, Late, SlicesSince

LEMMA TurnPrimed ==
    ASSUME NEW q \in Questions, NEW j,
           waiting'[q] <= failures' * Round(q[1])
             + TurnLeft(CYCLE_PERIOD[q[1]], NumSlices(q[1]), cycles' - cursor'[q[1]],
                        cursor'[q[1]] \div CYCLE_PERIOD[q[1]], j)
    PROVE  waiting'[q] <= failures' * Round(q[1])
                            + IF Late(q[1])' THEN CYCLE_PERIOD[q[1]] - 1
                              ELSE cycles' - cursor'[q[1]]
                                     + CYCLE_PERIOD[q[1]] * SlicesSince(q[1], j)'
BY DEF TurnLeft, Late, SlicesSince

LEMMA CycleKeeps ==
    ASSUME IndexSupplied, RotationInv, Cycle
    PROVE  RotationInv'
<1>1. /\ TurnTyped /\ cycles' = cycles + 1 /\ failures' = failures
      /\ \A t \in Tiers : cursor[t] <= cycles
      /\ \A q \in Questions : waiting[q] <= cycles
      /\ CurrentCycleIndex = cycles + 1
  BY DEF RotationInv, TurnInv, Cycle, CurrentCycleIndex
<1>2. /\ cursor' = [t \in Tiers |-> IF t \in Scheduled THEN cycles + 1 ELSE cursor[t]]
      /\ waiting' = [q \in Questions |-> IF q \in Planned THEN 0 ELSE waiting[q] + 1]
  BY <1>1 DEF Cycle, Advanced, Measured
<1>3. TurnTyped'
  BY <1>1, <1>2 DEF TurnTyped
<1>4. /\ \A t \in Tiers : cursor'[t] <= cycles'
      /\ \A q \in Questions : waiting'[q] <= cycles'
  BY <1>1, <1>2 DEF TurnTyped
<1>5. ASSUME NEW q \in Questions, NEW j \in 0..(NumSlices(q[1]) - 1), InSlice(q, j)
      PROVE  waiting'[q] <= failures' * Round(q[1])
               + TurnLeft(CYCLE_PERIOD[q[1]], NumSlices(q[1]), cycles' - cursor'[q[1]],
                          cursor'[q[1]] \div CYCLE_PERIOD[q[1]], j)
  <2>1. PICK t \in Tiers : t = q[1] /\ Count[t] > 0
    BY QuestionOf, RotationAssumption
  <2>2. PICK p \in {1, 2, 4} : p = CYCLE_PERIOD[t] /\ Round(t) = p * p
    BY Periods
  <2>3. PICK s \in 1..4 : s = NumSlices(t) /\ s <= p /\ j \in 0..(s - 1)
    BY <1>5, <2>1, <2>2, SlicesOf
  <2>4. PICK r \in Nat : r = failures * Round(t)
    BY <1>1, <2>2 DEF TurnTyped
  <2>5. cycles \in Nat /\ cursor[t] \in Nat /\ waiting[q] \in Nat /\ cursor[t] <= cycles
    BY <1>1 DEF TurnTyped
  <2>6. waiting[q] <= r + TurnLeft(p, s, cycles - cursor[t], cursor[t] \div p, j)
    BY <1>5, <2>1, <2>2, <2>3, <2>4, TurnOf
  <2>7. /\ cycles + 1 - cursor[t] < p
             => waiting[q] + 1 <= r + TurnLeft(p, s, cycles + 1 - cursor[t], cursor[t] \div p, j)
        /\ cycles + 1 - cursor[t] >= p /\ ((cycles + 1) \div p) % s # j
             => waiting[q] + 1 <= r + TurnLeft(p, s, 0, (cycles + 1) \div p, j)
    BY <2>3, <2>5, <2>6, TurnGoesOn
  <2>8. t \in Scheduled <=> cycles + 1 - cursor[t] >= p
    <3>1. Due(t) <=> cycles + 1 - cursor[t] >= p
      BY <1>1, <2>2, <2>5 DEF Due
    <3>2. t \in Scheduled <=> Due(t)
      BY <2>1 DEF Scheduled
    <3> QED
      BY <3>1, <3>2
  <2>9. CASE t \notin Scheduled
    <3>1. cursor'[t] = cursor[t] /\ waiting'[q] = waiting[q] + 1
      <4>1. q \notin Planned
        BY <2>1, <2>9 DEF Planned, Slice
      <4> QED
        BY <1>2, <2>9, <4>1
    <3>2. cycles + 1 - cursor[t] < p
      BY <2>2, <2>5, <2>8, <2>9
    <3>3. waiting'[q] <= r + TurnLeft(p, s, cycles + 1 - cursor[t], cursor[t] \div p, j)
      BY <2>7, <3>1, <3>2
    <3>4. cycles' - cursor'[t] = cycles + 1 - cursor[t]
      BY <1>1, <2>5, <3>1
    <3>5. cursor'[t] \div p = cursor[t] \div p
      BY <3>1
    <3>6. failures' * Round(t) = r
      BY <1>1, <2>4
    <3> QED
      BY <2>1, <2>2, <2>3, <3>3, <3>4, <3>5, <3>6
  <2>10. CASE t \in Scheduled /\ ((cycles + 1) \div p) % s # j
    <3>1. waiting'[q] <= waiting[q] + 1 /\ cursor'[t] = cycles + 1
      BY <1>2, <2>5, <2>10
    <3>2. waiting[q] + 1 <= r + TurnLeft(p, s, 0, (cycles + 1) \div p, j)
      BY <2>7, <2>8, <2>10
    <3>3. TurnLeft(p, s, 0, (cycles + 1) \div p, j) \in Int
      BY <2>5 DEF TurnLeft
    <3>4. waiting'[q] <= r + TurnLeft(p, s, 0, (cycles + 1) \div p, j)
      BY <1>2, <2>5, <3>1, <3>2, <3>3
    <3>5. cycles' - cursor'[t] = 0 /\ cursor'[t] = cycles + 1
      BY <1>1, <2>5, <3>1
    <3> QED
      BY <1>1, <2>1, <2>2, <2>3, <2>4, <3>4, <3>5
  <2>11. CASE t \in Scheduled /\ ((cycles + 1) \div p) % s = j
    <3>1. SliceIndex(t) = j
      BY <1>1, <2>2, <2>3, <2>11 DEF SliceIndex
    <3>2. q \in Planned
      BY <1>5, <2>1, <2>11, <3>1 DEF Planned, Slice, InSlice
    <3>3. waiting'[q] = 0 /\ cursor'[t] = cycles + 1
      BY <1>2, <2>11, <3>2
    <3>4. TurnLeft(p, s, 0, (cycles + 1) \div p, j) \in Nat
      BY <2>5, NextSlice DEF TurnLeft
    <3>5. 0 <= r + TurnLeft(p, s, 0, (cycles + 1) \div p, j)
      BY <3>4
    <3>6. cycles' - cursor'[t] = 0
      BY <1>1, <2>5, <3>3
    <3> QED
      BY <1>1, <2>1, <2>2, <2>3, <2>4, <3>3, <3>5, <3>6
  <2> QED
    BY <2>9, <2>10, <2>11
<1>6. TurnInv'
  BY <1>4, <1>5, TurnPrimed DEF TurnInv, NumSlices, InSlice, SliceSize, Least, Round, Questions
<1> QED
  BY <1>3, <1>6 DEF RotationInv

LEMMA FailedCycleKeeps ==
    ASSUME IndexSupplied, RotationInv, FailedCycle
    PROVE  RotationInv'
<1>1. /\ TurnTyped /\ cycles' = cycles + 1 /\ failures' = failures + 1
      /\ \A t \in Tiers : cursor[t] <= cycles
      /\ \A q \in Questions : waiting[q] <= cycles
      /\ CurrentCycleIndex = cycles + 1
  BY DEF RotationInv, TurnInv, FailedCycle, CurrentCycleIndex
<1>2. PICK tiers \in SUBSET Scheduled :
        cursor' = [t \in Tiers |-> IF t \in tiers THEN cycles + 1 ELSE cursor[t]]
  BY <1>1 DEF FailedCycle, Advanced
<1>3. waiting' = [q \in Questions |-> waiting[q] + 1]
  BY DEF FailedCycle, Measured
<1>4. TurnTyped'
  BY <1>1, <1>2, <1>3 DEF TurnTyped
<1>5. /\ \A t \in Tiers : cursor'[t] <= cycles'
      /\ \A q \in Questions : waiting'[q] <= cycles'
  BY <1>1, <1>2, <1>3 DEF TurnTyped
<1>6. ASSUME NEW q \in Questions, NEW j \in 0..(NumSlices(q[1]) - 1), InSlice(q, j)
      PROVE  waiting'[q] <= failures' * Round(q[1])
               + TurnLeft(CYCLE_PERIOD[q[1]], NumSlices(q[1]), cycles' - cursor'[q[1]],
                          cursor'[q[1]] \div CYCLE_PERIOD[q[1]], j)
  <2>1. PICK t \in Tiers : t = q[1] /\ Count[t] > 0
    BY QuestionOf, RotationAssumption
  <2>2. PICK p \in {1, 2, 4} : p = CYCLE_PERIOD[t] /\ Round(t) = p * p
    BY Periods
  <2>3. PICK s \in 1..4 : s = NumSlices(t) /\ s <= p /\ j \in 0..(s - 1)
    BY <1>6, <2>1, <2>2, SlicesOf
  <2>4. PICK r \in Nat : r = failures * Round(t)
    BY <1>1, <2>2 DEF TurnTyped
  <2>5. cycles \in Nat /\ cursor[t] \in Nat /\ waiting[q] \in Nat /\ cursor[t] <= cycles
    BY <1>1 DEF TurnTyped
  <2>6. waiting[q] <= r + TurnLeft(p, s, cycles - cursor[t], cursor[t] \div p, j)
    BY <1>6, <2>1, <2>2, <2>3, <2>4, TurnOf
  <2>7. /\ waiting[q] + 1
             <= r + p * p + TurnLeft(p, s, cycles + 1 - cursor[t], cursor[t] \div p, j)
        /\ waiting[q] + 1 <= r + p * p + TurnLeft(p, s, 0, (cycles + 1) \div p, j)
    BY <2>3, <2>5, <2>6, TurnGoesOn
  <2>8. failures' * Round(t) = r + p * p
    <3>1. PICK f \in Nat : f = failures
      BY <1>1 DEF TurnTyped
    <3>2. PICK z \in Nat : z = p * p
      OBVIOUS
    <3>3. (f + 1) * z = f * z + z
      OBVIOUS
    <3> QED
      BY <1>1, <2>2, <2>4, <3>1, <3>2, <3>3
  <2>9. waiting'[q] = waiting[q] + 1
    BY <1>3
  <2>10. CASE t \notin tiers
    <3>1. cursor'[t] = cursor[t]
      BY <1>2, <2>10
    <3>2. cycles' - cursor'[t] = cycles + 1 - cursor[t]
      BY <1>1, <2>5, <3>1
    <3>3. cursor'[t] \div p = cursor[t] \div p
      BY <3>1
    <3> QED
      BY <2>1, <2>2, <2>3, <2>7, <2>8, <2>9, <3>2, <3>3
  <2>11. CASE t \in tiers
    <3>1. cursor'[t] = cycles + 1
      BY <1>2, <2>11
    <3>2. cycles' - cursor'[t] = 0
      BY <1>1, <2>5, <3>1
    <3>3. cursor'[t] \div p = (cycles + 1) \div p
      BY <3>1
    <3> QED
      BY <2>1, <2>2, <2>3, <2>7, <2>8, <2>9, <3>2, <3>3
  <2> QED
    BY <2>10, <2>11
<1>7. TurnInv'
  BY <1>5, <1>6, TurnPrimed DEF TurnInv, NumSlices, InSlice, SliceSize, Least, Round, Questions
<1> QED
  BY <1>4, <1>7 DEF RotationInv

LEMMA RotationStarts ==
    ASSUME Init
    PROVE  RotationInv
<1>1. TurnTyped
  BY DEF Init, TurnTyped
<1>2. ASSUME NEW q \in Questions, NEW j \in 0..(NumSlices(q[1]) - 1)
      PROVE  waiting[q] <= failures * Round(q[1])
                            + IF Late(q[1]) THEN CYCLE_PERIOD[q[1]] - 1
                              ELSE cycles - cursor[q[1]]
                                     + CYCLE_PERIOD[q[1]] * SlicesSince(q[1], j)
  <2>1. PICK t \in Tiers : t = q[1] /\ Count[t] > 0
    BY QuestionOf, RotationAssumption
  <2>2. PICK p \in {1, 2, 4} : p = CYCLE_PERIOD[t] /\ Round(t) = p * p
    BY Periods
  <2>3. PICK s \in 1..4 : s = NumSlices(t)
    BY <2>1, SlicesOf
  <2>4. waiting[q] = 0 /\ cycles = 0 /\ cursor[t] = 0 /\ failures = 0
    BY DEF Init
  <2>5. (0 \div p) \in Int /\ (((0 \div p) - j) % s) \in 0..(s - 1)
    BY NextSlice
  <2>6. SlicesSince(t, j) \in Nat
    BY <2>2, <2>3, <2>4, <2>5 DEF SlicesSince
  <2>7. p * SlicesSince(t, j) \in Nat
    BY <2>6
  <2>8. failures * Round(t) = 0
    BY <2>2, <2>4
  <2> QED
    BY <2>1, <2>2, <2>4, <2>7, <2>8
<1>3. TurnInv
  BY <1>1, <1>2 DEF TurnInv, TurnTyped, Init
<1> QED
  BY <1>1, <1>3 DEF RotationInv

LEMMA RotationStays ==
    ASSUME IndexSupplied, RotationInv, [Next]_vars
    PROVE  RotationInv'
<1>1. CASE UNCHANGED vars
  BY <1>1 DEF vars, RotationInv, TurnTyped, TurnInv, Late, SlicesSince, InSlice, NumSlices,
              SliceSize, Least, Round, Questions
<1> QED
  BY <1>1, CycleKeeps, FailedCycleKeeps DEF Next

LEMMA RotationGivesItsBounds ==
    ASSUME IndexSupplied, RotationInv
    PROVE  CoveredEachRound /\ FailureCostsOneRound
<1>1. ASSUME NEW q \in Questions
      PROVE  waiting[q] < failures * Round(q[1]) + Round(q[1])
  <2>1. PICK j \in 0..(NumSlices(q[1]) - 1) : InSlice(q, j)
    BY SliceCovers
  <2>2. PICK t \in Tiers : t = q[1] /\ Count[t] > 0
    BY QuestionOf, RotationAssumption
  <2>3. PICK p \in {1, 2, 4} : p = CYCLE_PERIOD[t] /\ Round(t) = p * p
    BY Periods
  <2>4. PICK s \in 1..4 : s = NumSlices(t) /\ s <= p /\ j \in 0..(s - 1)
    BY <2>1, <2>2, <2>3, SlicesOf
  <2>5. PICK r \in Nat : r = failures * Round(t)
    BY <2>3 DEF RotationInv, TurnTyped
  <2>6. cycles \in Nat /\ cursor[t] \in Nat /\ waiting[q] \in Nat /\ cursor[t] <= cycles
    BY DEF RotationInv, TurnTyped, TurnInv
  <2>7. waiting[q] <= r + TurnLeft(p, s, cycles - cursor[t], cursor[t] \div p, j)
    BY <2>1, <2>2, <2>3, <2>4, <2>5, TurnOf
  <2>8. waiting[q] < r + p * p
    BY <2>4, <2>6, <2>7, TurnGoesOn
  <2> QED
    BY <2>2, <2>3, <2>5, <2>8
<1>2. ASSUME NEW q \in Questions
      PROVE  /\ waiting[q] < (1 + failures) * Round(q[1])
             /\ failures = 0 => waiting[q] < Round(q[1])
  <2>1. q[1] \in Tiers /\ failures \in Nat /\ waiting[q] \in Nat
    BY QuestionOf DEF RotationInv, TurnTyped
  <2>2. PICK p \in {1, 2, 4} : Round(q[1]) = p * p
    BY <2>1, Periods
  <2>3. PICK f \in Nat : f = failures
    BY <2>1
  <2>4. PICK z \in Nat : z = p * p
    OBVIOUS
  <2>5. (1 + f) * z = f * z + z /\ (f = 0 => f * z = 0)
    OBVIOUS
  <2> QED
    BY <1>1, <2>1, <2>2, <2>3, <2>4, <2>5
<1> QED
  BY <1>2 DEF CoveredEachRound, FailureCostsOneRound

\* What plan.ts and rotation.ts promise a caller that supplies the run count, which none
\* does: no question waits longer than a round of its tier, for any number of questions in
\* it and any number of cycles.
LEMMA EveryQuestionIsCovered == IndexSupplied => (Spec => []CoveredEachRound)
<1>1. CASE IndexSupplied
  <2>1. Init => RotationInv
    BY RotationStarts
  <2>2. RotationInv /\ [Next]_vars => RotationInv'
    BY <1>1, RotationStays
  <2>3. RotationInv => CoveredEachRound
    BY <1>1, RotationGivesItsBounds
  <2>4. Spec => []CoveredEachRound
    BY <2>1, <2>2, <2>3, PTL DEF Spec
  <2> QED
    BY <2>4
<1> QED
  BY <1>1

\* For such a caller: however many cycles fail, and whichever cursors the failing ones had
\* moved, each costs a question one round at most.
LEMMA FailuresCostOneRound == IndexSupplied => (Spec => []FailureCostsOneRound)
<1>1. CASE IndexSupplied
  <2>1. Init => RotationInv
    BY RotationStarts
  <2>2. RotationInv /\ [Next]_vars => RotationInv'
    BY <1>1, RotationStays
  <2>3. RotationInv => FailureCostsOneRound
    BY <1>1, RotationGivesItsBounds
  <2>4. Spec => []FailureCostsOneRound
    BY <2>1, <2>2, <2>3, PTL DEF Spec
  <2> QED
    BY <2>4
<1> QED
  BY <1>1

\* What the callers there are get: nothing is due, and every question waits as long as the
\* customer has had cycles.
NothingIsMeasured == Scheduled = {} /\ \A q \in Questions : waiting[q] = cycles

\* No caller of runCycle passes the run count, so the index is 0 (runCycle.ts:327) and no
\* cursor is ever a period behind it (plan.ts:263): with any questions, over any number of
\* cycles, whether they fail or not, no operating cycle measures a question.
THEOREM UncountedCyclesMeasureNothing == ~IndexSupplied => (Spec => []NothingIsMeasured)
<1> DEFINE Stuck == /\ cycles \in Nat /\ cursor = [t \in Tiers |-> 0]
                    /\ waiting = [q \in Questions |-> cycles]
<1>1. CASE ~IndexSupplied
  <2>1. Init => Stuck
    BY DEF Init
  <2>2. cursor = [t \in Tiers |-> 0] => Scheduled = {}
    BY <1>1, RotationAssumption DEF Scheduled, Due, CurrentCycleIndex, CYCLE_PERIOD, Tiers
  <2>3. Stuck /\ [Next]_vars => Stuck'
    <3> SUFFICES ASSUME Stuck, [Next]_vars
                 PROVE  Stuck'
      OBVIOUS
    <3>1. CASE UNCHANGED vars
      BY <3>1 DEF vars, Questions
    <3>2. CASE Next
      <4>1. Scheduled = {} /\ Planned = {}
        BY <2>2 DEF Planned
      <4>2. cycles' = cycles + 1 /\ waiting' = Measured({})
        BY <3>2, <4>1 DEF Next, Cycle, FailedCycle
      <4>3. cursor' = Advanced({})
        BY <3>2, <4>1 DEF Next, Cycle, FailedCycle
      <4>4. Questions' = Questions
        BY DEF Questions
      <4>5. cursor' = [t \in Tiers |-> 0]
        BY <4>3 DEF Advanced
      <4>6. waiting' = [q \in Questions |-> cycles']
        BY <4>2 DEF Measured
      <4> QED
        BY <4>2, <4>4, <4>5, <4>6
    <3> QED
      BY <3>1, <3>2
  <2>4. Stuck => NothingIsMeasured
    BY <2>2 DEF NothingIsMeasured
  <2>5. Spec => []NothingIsMeasured
    BY <2>1, <2>3, <2>4, PTL DEF Spec
  <2> QED
    BY <2>5
<1> QED
  BY <1>1

-----------------------------------------------------------------------------
(* The audit chain *)

Entry == INSTANCE Access

\* The rows of a log over some events. A hash is the list of the events it covers.
AuditRows(E) == [event: E, prev: Seq(E), hash: Seq(E)]

Earlier == {ss \in Nat \X Nat : ss[1] < ss[2]}

LEMMA LeastOf ==
    ASSUME NEW S \in SUBSET Nat, S # {}
    PROVE  \E n \in S : \A m \in S : n <= m
<1>1. IsWellFoundedOn(Earlier, Nat)
  BY NatLessThanWellFounded DEF OpToRel, Earlier
<1>2. PICK n \in S : \A m \in S : ~(<<m, n>> \in Earlier)
  BY <1>1, WFMin
<1>3. \A m \in S : ~(m < n)
  BY <1>2 DEF Earlier
<1> QED
  BY <1>3

\* verifyAuditChain finds nothing just when every row follows the one before it.
LEMMA InOrder ==
    ASSUME NEW E, NEW trail \in Seq(AuditRows(E))
    PROVE  Entry!VerifyAuditChain(trail) = 0
             <=> \A i \in 1..Len(trail) :
                    /\ trail[i].prev = Entry!LastHash(SubSeq(trail, 1, i - 1))
                    /\ trail[i].hash = Append(trail[i].prev, trail[i].event)
<1> DEFINE fails == {j \in DOMAIN trail :
                        \/ trail[j].prev # Entry!LastHash(SubSeq(trail, 1, j - 1))
                        \/ trail[j].hash # Entry!ComputeAuditRowHash(trail[j].prev, trail[j].event)}
<1>1. DOMAIN trail = 1..Len(trail)
  OBVIOUS
<1>2. fails = {} <=> \A i \in 1..Len(trail) :
                        /\ trail[i].prev = Entry!LastHash(SubSeq(trail, 1, i - 1))
                        /\ trail[i].hash = Append(trail[i].prev, trail[i].event)
  BY <1>1 DEF Entry!ComputeAuditRowHash
<1>3. Entry!VerifyAuditChain(trail) = IF fails = {} THEN 0 ELSE Entry!Min(fails)
  BY DEF Entry!VerifyAuditChain
<1>4. ASSUME fails # {} PROVE Entry!Min(fails) \in 1..Len(trail)
  <2>1. fails \subseteq 1..Len(trail)
    BY <1>1
  <2> HIDE DEF fails
  <2>2. \E n \in fails : \A m \in fails : n <= m
    BY <1>4, <2>1, LeastOf
  <2> QED
    BY <2>1, <2>2 DEF Entry!Min
<1> HIDE DEF fails
<1> QED
  BY <1>2, <1>3, <1>4

\* The hash before a row, and that of the row.
LEMMA HashesFollow ==
    ASSUME NEW E, NEW trail \in Seq(AuditRows(E)), Entry!VerifyAuditChain(trail) = 0,
           NEW i \in 1..Len(trail)
    PROVE  /\ trail[i].hash = Append(trail[i].prev, trail[i].event)
           /\ i = 1 => trail[i].prev = <<>>
           /\ i > 1 => trail[i].prev = trail[i - 1].hash
<1>1. /\ trail[i].prev = Entry!LastHash(SubSeq(trail, 1, i - 1))
      /\ trail[i].hash = Append(trail[i].prev, trail[i].event)
  BY InOrder
<1>2. CASE i = 1
  BY <1>1, <1>2 DEF Entry!LastHash, Entry!GENESIS
<1>3. CASE i > 1
  <2> DEFINE before == SubSeq(trail, 1, i - 1)
  <2>1. before \in Seq(AuditRows(E)) /\ Len(before) = i - 1 /\ before[i - 1] = trail[i - 1]
    BY <1>3
  <2>2. before # <<>> /\ Entry!Last(before) = trail[i - 1]
    BY <1>3, <2>1 DEF Entry!Last
  <2> QED
    BY <1>1, <1>3, <2>2 DEF Entry!LastHash
<1> QED
  BY <1>1, <1>2, <1>3

\* So a row's hash spells the events up to it.
LEMMA HashSpells ==
    ASSUME NEW E, NEW trail \in Seq(AuditRows(E)), Entry!VerifyAuditChain(trail) = 0
    PROVE  \A i \in 1..Len(trail) :
              /\ Len(trail[i].hash) = i /\ Len(trail[i].prev) = i - 1
              /\ \A j \in 1..i : trail[i].hash[j] = trail[j].event
<1> DEFINE Spelt(i) == /\ Len(trail[i].hash) = i /\ Len(trail[i].prev) = i - 1
                       /\ \A j \in 1..i : trail[i].hash[j] = trail[j].event
           odd == {i \in 1..Len(trail) : ~Spelt(i)}
<1>1. SUFFICES ASSUME odd # {} PROVE FALSE
  OBVIOUS
<1>2. PICK i \in odd : \A m \in odd : i <= m
  <2> HIDE DEF odd
  <2>1. odd \in SUBSET Nat
    BY DEF odd
  <2> QED
    BY <1>1, <2>1, LeastOf
<1>3. i \in 1..Len(trail) /\ ~Spelt(i)
  OBVIOUS
<1>4. /\ trail[i].hash = Append(trail[i].prev, trail[i].event)
      /\ i = 1 => trail[i].prev = <<>>
      /\ i > 1 => trail[i].prev = trail[i - 1].hash
  BY <1>3, HashesFollow
<1>5. trail[i].prev \in Seq(E) /\ trail[i].event \in E
  <2>1. trail[i] \in AuditRows(E)
    BY <1>3, ElementOfSeq
  <2> QED
    BY <2>1 DEF AuditRows
<1>6. /\ Len(trail[i].hash) = Len(trail[i].prev) + 1
      /\ trail[i].hash[Len(trail[i].prev) + 1] = trail[i].event
      /\ \A j \in 1..Len(trail[i].prev) : trail[i].hash[j] = trail[i].prev[j]
  BY <1>4, <1>5, AppendProperties
<1>7. Len(trail[i].prev) = i - 1 /\ \A j \in 1..(i - 1) : trail[i].prev[j] = trail[j].event
  <2>1. CASE i = 1
    BY <1>4, <2>1
  <2>2. CASE i > 1
    <3>1. i - 1 \in 1..Len(trail) /\ i - 1 \notin odd
      <4>1. i - 1 \in odd => i <= i - 1
        <5> HIDE DEF odd
        <5> QED
          BY <1>2
      <4> QED
        BY <1>3, <2>2, <4>1
    <3>2. Spelt(i - 1)
      BY <3>1
    <3> QED
      BY <1>4, <2>2, <3>2
  <2> QED
    BY <1>3, <2>1, <2>2
<1>8. Spelt(i)
  BY <1>3, <1>6, <1>7
<1> QED
  BY <1>3, <1>8

LEMMA SameCells ==
    ASSUME NEW E, NEW a \in AuditRows(E), NEW b \in AuditRows(E),
           a.event = b.event, a.prev = b.prev, a.hash = b.hash
    PROVE  a = b
BY DEF AuditRows

\* A writer that is alone between its two statements leaves a log in order that it found in
\* order (recordSecurityAudit: the last hash is read, then the row inserted).
THEOREM LoneWritersKeepOrder ==
    ASSUME NEW E, NEW trail \in Seq(AuditRows(E)), Entry!VerifyAuditChain(trail) = 0,
           NEW event \in E
    PROVE  /\ Entry!RecordSecurityAudit(trail, event) \in Seq(AuditRows(E))
           /\ Entry!VerifyAuditChain(Entry!RecordSecurityAudit(trail, event)) = 0
<1> DEFINE last == Entry!LastHash(trail)
           row == [event |-> event, prev |-> last, hash |-> Append(last, event)]
           longer == Append(trail, row)
<1>1. Entry!RecordSecurityAudit(trail, event) = longer
  BY DEF Entry!RecordSecurityAudit, Entry!Recorded, Entry!BuildAuditRecord,
         Entry!ComputeAuditRowHash
<1>0. last \in Seq(E)
  <2>1. CASE trail = <<>>
    BY <2>1 DEF Entry!LastHash, Entry!GENESIS
  <2>2. CASE trail # <<>>
    <3>1. trail[Len(trail)] \in AuditRows(E)
      BY <2>2, ElementOfSeq
    <3>2. last = trail[Len(trail)].hash
      BY <2>2 DEF Entry!LastHash, Entry!Last
    <3> QED
      BY <3>1, <3>2 DEF AuditRows
  <2> QED
    BY <2>1, <2>2
<1>2. row \in AuditRows(E)
  <2> HIDE DEF last
  <2> QED
    BY <1>0 DEF AuditRows
<1>3. /\ row.prev = last /\ row.hash = Append(last, event) /\ row.event = event
  OBVIOUS
<1> HIDE DEF row
<1>4. /\ longer \in Seq(AuditRows(E)) /\ Len(longer) = Len(trail) + 1
      /\ longer[Len(trail) + 1] = row
      /\ \A i \in 1..Len(trail) : longer[i] = trail[i]
  BY <1>2, AppendProperties
<1> HIDE DEF longer
<1>5. ASSUME NEW i \in 1..(Len(trail) + 1)
      PROVE  SubSeq(longer, 1, i - 1) = SubSeq(trail, 1, i - 1)
  <2>1. \A n \in 1..(i - 1) : longer[n] = trail[n] /\ trail[n] \in AuditRows(E)
    BY <1>4, ElementOfSeq
  <2>2. /\ SubSeq(longer, 1, i - 1) \in Seq(AuditRows(E))
        /\ SubSeq(trail, 1, i - 1) \in Seq(AuditRows(E))
        /\ Len(SubSeq(longer, 1, i - 1)) = i - 1 /\ Len(SubSeq(trail, 1, i - 1)) = i - 1
        /\ \A n \in 1..(i - 1) : /\ SubSeq(longer, 1, i - 1)[n] = longer[n]
                                 /\ SubSeq(trail, 1, i - 1)[n] = trail[n]
    BY <1>4, <2>1
  <2> QED
    BY <2>1, <2>2, SeqEqual
<1>6. SubSeq(trail, 1, Len(trail)) = trail
  OBVIOUS
<1>7. ASSUME NEW i \in 1..Len(longer)
      PROVE  /\ longer[i].prev = Entry!LastHash(SubSeq(longer, 1, i - 1))
             /\ longer[i].hash = Append(longer[i].prev, longer[i].event)
  <2>1. CASE i = Len(trail) + 1
    <3>1. SubSeq(longer, 1, i - 1) = trail
      BY <1>5, <1>6, <2>1
    <3> QED
      BY <1>3, <1>4, <2>1, <3>1
  <2>2. CASE i # Len(trail) + 1
    <3>1. i \in 1..Len(trail)
      BY <1>4, <2>2
    <3>2. /\ trail[i].prev = Entry!LastHash(SubSeq(trail, 1, i - 1))
          /\ trail[i].hash = Append(trail[i].prev, trail[i].event)
      BY <3>1, InOrder
    <3>3. SubSeq(longer, 1, i - 1) = SubSeq(trail, 1, i - 1)
      BY <1>5, <3>1
    <3> QED
      BY <1>4, <3>1, <3>2, <3>3
  <2> QED
    BY <2>1, <2>2
<1> QED
  BY <1>1, <1>4, <1>7, InOrder

\* The last hash stands for the whole log: of two logs in order that end with the same
\* hash no row differs, is missing or is elsewhere (securityAudit.ts: "Each row commits
\* to the entire history before it").
THEOREM HeadFixesTheLog ==
    ASSUME NEW E, NEW log \in Seq(AuditRows(E)), NEW other \in Seq(AuditRows(E)),
           Entry!VerifyAuditChain(log) = 0, Entry!VerifyAuditChain(other) = 0,
           Entry!LastHash(log) = Entry!LastHash(other)
    PROVE  log = other
<1> DEFINE Spells(trail) == \A i \in 1..Len(trail) :
                /\ Len(trail[i].hash) = i /\ Len(trail[i].prev) = i - 1
                /\ \A j \in 1..i : trail[i].hash[j] = trail[j].event
<1>1. Spells(log) /\ Spells(other)
  BY HashSpells
<1>2. ASSUME NEW trail \in Seq(AuditRows(E)), Spells(trail)
      PROVE  /\ Len(Entry!LastHash(trail)) = Len(trail)
             /\ \A j \in 1..Len(trail) : Entry!LastHash(trail)[j] = trail[j].event
  <2>1. CASE trail = <<>>
    BY <2>1 DEF Entry!LastHash, Entry!GENESIS
  <2>2. CASE trail # <<>>
    <3>1. Len(trail) \in 1..Len(trail)
      BY <2>2
    <3>2. Entry!LastHash(trail) = trail[Len(trail)].hash
      BY <2>2 DEF Entry!LastHash, Entry!Last
    <3> QED
      BY <1>2, <3>1, <3>2
  <2> QED
    BY <2>1, <2>2
<1>3. Len(log) = Len(other)
  BY <1>1, <1>2
<1>4. \A j \in 1..Len(log) : log[j].event = other[j].event
  BY <1>1, <1>2, <1>3
<1>5. ASSUME NEW i \in 1..Len(log)
      PROVE  log[i] = other[i]
  <2>1. i \in 1..Len(other) /\ log[i] \in AuditRows(E) /\ other[i] \in AuditRows(E)
    BY <1>3
  <2>2. /\ log[i].hash \in Seq(E) /\ other[i].hash \in Seq(E)
        /\ log[i].prev \in Seq(E) /\ other[i].prev \in Seq(E)
        /\ log[i].event \in E /\ other[i].event \in E
    BY <2>1 DEF AuditRows
  <2>3. /\ Len(log[i].hash) = i /\ Len(other[i].hash) = i
        /\ Len(log[i].prev) = i - 1 /\ Len(other[i].prev) = i - 1
    BY <1>1, <2>1
  <2>4. \A n \in 1..i : log[i].hash[n] = other[i].hash[n]
    BY <1>1, <1>3, <1>4
  <2>5. log[i].hash = other[i].hash
    BY <2>2, <2>3, <2>4, SeqEqual
  <2>6. /\ log[i].hash = Append(log[i].prev, log[i].event)
        /\ other[i].hash = Append(other[i].prev, other[i].event)
    BY <2>1, HashesFollow
  <2>7. ASSUME NEW n \in 1..(i - 1)
        PROVE  log[i].prev[n] = other[i].prev[n]
    <3>1. /\ log[i].hash[n] = log[i].prev[n]
          /\ other[i].hash[n] = other[i].prev[n]
      BY <2>2, <2>3, <2>6, AppendProperties
    <3> QED
      BY <2>5, <3>1
  <2>8. log[i].prev = other[i].prev
    BY <2>2, <2>3, <2>7, SeqEqual
  <2>9. log[i].event = other[i].event
    BY <1>4
  <2> QED
    BY <2>1, <2>5, <2>8, <2>9, SameCells
<1> QED
  BY <1>3, <1>5, SeqEqual

\* Two rows written after one and the same row, as two writers that overlap leave them,
\* put a log out of order for good, whatever is written later: the verifier does not
\* tolerate them (recordSecurityAudit, "a true fork would surface as a broken link").
THEOREM ForksNeverVerify ==
    ASSUME NEW E, NEW trail \in Seq(AuditRows(E)),
           NEW i \in 1..Len(trail), NEW j \in 1..Len(trail), i # j,
           trail[i].prev = trail[j].prev
    PROVE  Entry!VerifyAuditChain(trail) # 0
<1>1. SUFFICES ASSUME Entry!VerifyAuditChain(trail) = 0 PROVE FALSE
  OBVIOUS
<1>2. Len(trail[i].prev) = i - 1
  BY <1>1, HashSpells
<1>3. Len(trail[j].prev) = j - 1
  BY <1>1, HashSpells
<1> QED
  BY <1>2, <1>3

\* The entries that the second verifier reads, and the list's beginning (seq 0, prevHash "").
Spelling(P) == [seq: Nat, payload: P]
AuditEntries(P) == [seq: Nat, prev: Seq(Spelling(P)), payload: P, hash: Seq(Spelling(P))]
FromGenesis(entries) == entries # <<>> => entries[1].seq = 0 /\ entries[1].prev = <<>>

\* An entry's hash spells the numbers and payloads up to it.
LEMMA EntrySpells ==
    ASSUME NEW P, NEW entries \in Seq(AuditEntries(P)), FromGenesis(entries),
           Entry!VerifyChain(entries)
    PROVE  \A i \in 1..Len(entries) :
              /\ entries[i].seq = i - 1
              /\ Len(entries[i].hash) = i /\ Len(entries[i].prev) = i - 1
              /\ \A j \in 1..i :
                    entries[i].hash[j] = [seq |-> j - 1, payload |-> entries[j].payload]
              /\ entries[i].hash = Append(entries[i].prev,
                                          [seq |-> i - 1, payload |-> entries[i].payload])
<1> DEFINE Spelt(i) ==
              /\ Len(entries[i].hash) = i /\ Len(entries[i].prev) = i - 1
              /\ \A j \in 1..i :
                    entries[i].hash[j] = [seq |-> j - 1, payload |-> entries[j].payload]
           odd == {i \in 1..Len(entries) : ~Spelt(i)}
<1>1. ASSUME NEW i \in 1..Len(entries)
      PROVE  /\ entries[i].seq = i - 1
             /\ i = 1 => entries[i].prev = <<>>
             /\ i > 1 => entries[i].prev = entries[i - 1].hash
             /\ entries[i].hash = Append(entries[i].prev,
                                         [seq |-> i - 1, payload |-> entries[i].payload])
  <2>1. entries # <<>> /\ entries[1].seq = 0 /\ entries[1].prev = <<>>
    BY DEF FromGenesis
  <2>2. /\ entries[i].seq = entries[1].seq + i - 1
        /\ i > 1 => entries[i].prev = entries[i - 1].hash
        /\ entries[i].hash = Append(entries[i].prev,
                                    [seq |-> entries[i].seq, payload |-> entries[i].payload])
    <3>1. DOMAIN entries = 1..Len(entries)
      OBVIOUS
    <3> QED
      BY <3>1 DEF Entry!VerifyChain, Entry!ComputeEntryHash
  <2>3. entries[i].seq = i - 1
    BY <2>1, <2>2
  <2> QED
    BY <2>1, <2>2, <2>3
<1>2. ASSUME odd # {} PROVE FALSE
  <2>1. odd \in SUBSET Nat
    OBVIOUS
  <2>2. PICK i \in odd : \A m \in odd : i <= m
    <3> HIDE DEF odd
    <3> QED
      BY <1>2, <2>1, LeastOf
  <2>3. i \in 1..Len(entries) /\ ~Spelt(i)
    OBVIOUS
  <2>4. entries[i].prev \in Seq(Spelling(P)) /\ entries[i].payload \in P
    <3>1. entries[i] \in AuditEntries(P)
      BY <2>3, ElementOfSeq
    <3> QED
      BY <3>1 DEF AuditEntries
  <2> DEFINE own == [seq |-> i - 1, payload |-> entries[i].payload]
  <2>5. own \in Spelling(P) /\ entries[i].hash = Append(entries[i].prev, own)
    BY <1>1, <2>3, <2>4 DEF Spelling
  <2>6. /\ Len(entries[i].hash) = Len(entries[i].prev) + 1
        /\ entries[i].hash[Len(entries[i].prev) + 1] = own
        /\ \A j \in 1..Len(entries[i].prev) : entries[i].hash[j] = entries[i].prev[j]
    <3> HIDE DEF own
    <3> QED
      BY <2>4, <2>5, AppendProperties
  <2>7. /\ Len(entries[i].prev) = i - 1
        /\ \A j \in 1..(i - 1) :
              entries[i].prev[j] = [seq |-> j - 1, payload |-> entries[j].payload]
    <3>1. CASE i = 1
      <4>1. entries[i].prev = <<>>
        BY <1>1, <2>3, <3>1
      <4>2. 1..(i - 1) = {}
        BY <3>1
      <4> QED
        BY <3>1, <4>1, <4>2
    <3>2. CASE i > 1
      <4>1. i - 1 \in odd => i <= i - 1
        <5> HIDE DEF odd
        <5> QED
          BY <2>2
      <4>2. i - 1 \in 1..Len(entries) /\ i - 1 \notin odd
        BY <2>3, <3>2, <4>1
      <4>3. Spelt(i - 1)
        BY <4>2
      <4> QED
        BY <1>1, <2>3, <3>2, <4>3
    <3> QED
      BY <2>3, <3>1, <3>2
  <2>8. ASSUME NEW j \in 1..i
        PROVE  entries[i].hash[j] = [seq |-> j - 1, payload |-> entries[j].payload]
    <3>1. CASE j = i
      BY <2>6, <2>7, <3>1
    <3>2. CASE j < i
      <4>1. j \in 1..(i - 1)
        BY <2>3, <3>2
      <4> QED
        BY <2>6, <2>7, <4>1
    <3> QED
      BY <2>3, <3>1, <3>2
  <2>9. Len(entries[i].hash) = i
    BY <2>3, <2>6, <2>7
  <2> QED
    BY <2>3, <2>7, <2>8, <2>9
<1>3. ASSUME NEW i \in 1..Len(entries) PROVE Spelt(i)
  BY <1>2
<1> QED
  BY <1>1, <1>3

LEMMA SameEntryCells ==
    ASSUME NEW P, NEW a \in AuditEntries(P), NEW b \in AuditEntries(P),
           a.seq = b.seq, a.prev = b.prev, a.payload = b.payload, a.hash = b.hash
    PROVE  a = b
BY DEF AuditEntries

\* A head that was noted elsewhere tells a list that goes on from it from every other:
\* against a list that is in order, detectTruncation says ok just when nothing before the
\* head has changed, and truncated just when the list ends before it
\* (auditChainVerify.ts, "closes that gap").
THEOREM AnchorsSeeEveryChange ==
    ASSUME NEW P, NEW then \in Seq(AuditEntries(P)), NEW now \in Seq(AuditEntries(P)),
           then # <<>>, FromGenesis(then), FromGenesis(now),
           Entry!VerifyChain(then), Entry!VerifyChain(now),
           NEW verdict, verdict = Entry!DetectTruncation(now, Entry!ComputeHeadAnchor(then))
    PROVE  /\ verdict = "truncated" <=> Len(now) < Len(then)
           /\ verdict = "ok" <=> /\ Len(then) <= Len(now)
                                 /\ \A i \in 1..Len(then) : now[i] = then[i]
<1> DEFINE n == Len(then)
           anchor == Entry!ComputeHeadAnchor(then)
           at == {i \in DOMAIN now : now[i].seq = anchor.seq}
           Spells(entries) == \A i \in 1..Len(entries) :
              /\ entries[i].seq = i - 1
              /\ Len(entries[i].hash) = i /\ Len(entries[i].prev) = i - 1
              /\ \A j \in 1..i :
                    entries[i].hash[j] = [seq |-> j - 1, payload |-> entries[j].payload]
              /\ entries[i].hash = Append(entries[i].prev,
                                          [seq |-> i - 1, payload |-> entries[i].payload])
<1>1. Spells(then) /\ Spells(now)
  BY EntrySpells
<1>2. n \in 1..n
  OBVIOUS
<1>3. anchor.seq = n - 1 /\ anchor.hash = then[n].hash
  BY <1>1, <1>2 DEF Entry!ComputeHeadAnchor, Entry!Last
<1>4. at = IF n <= Len(now) THEN {n} ELSE {}
  <2>1. \A i \in 1..Len(now) : now[i].seq = i - 1
    BY <1>1
  <2>2. at = {i \in 1..Len(now) : now[i].seq = n - 1}
    BY <1>3
  <2> QED
    BY <1>2, <2>1, <2>2
<1>5. n <= Len(now) => Entry!Min(at) = n
  BY <1>4 DEF Entry!Min
<1>6. verdict = IF n > Len(now) THEN "truncated"
                ELSE IF now[n].hash # then[n].hash THEN "rewritten" ELSE "ok"
  <2>1. verdict = IF at = {} THEN "truncated"
                  ELSE IF now[Entry!Min(at)].hash # anchor.hash THEN "rewritten" ELSE "ok"
    BY DEF Entry!DetectTruncation
  <2> HIDE DEF at, anchor
  <2> QED
    BY <1>2, <1>3, <1>4, <1>5, <2>1
<1>7. ASSUME n <= Len(now), now[n].hash = then[n].hash, NEW i \in 1..n
      PROVE  now[i] = then[i]
  <2>1. ASSUME NEW j \in 1..n
        PROVE  now[j].payload = then[j].payload
    <3>1. n \in 1..Len(now)
      BY <1>2, <1>7
    <3>2. now[n].hash[j] = [seq |-> j - 1, payload |-> now[j].payload]
      BY <1>1, <3>1
    <3>3. then[n].hash[j] = [seq |-> j - 1, payload |-> then[j].payload]
      BY <1>1, <1>2
    <3>4. [seq |-> j - 1, payload |-> now[j].payload]
             = [seq |-> j - 1, payload |-> then[j].payload]
      BY <1>7, <3>2, <3>3
    <3> QED
      BY <3>4
  <2>2. then[i] \in AuditEntries(P) /\ now[i] \in AuditEntries(P) /\ i \in 1..Len(now)
    BY <1>7, ElementOfSeq
  <2>3. /\ now[i].prev \in Seq(Spelling(P)) /\ then[i].prev \in Seq(Spelling(P))
        /\ now[i].hash \in Seq(Spelling(P)) /\ then[i].hash \in Seq(Spelling(P))
        /\ now[i].payload \in P /\ then[i].payload \in P
    BY <2>2 DEF AuditEntries
  <2>4. now[i].hash = then[i].hash
    <3>1. Len(now[i].hash) = i /\ Len(then[i].hash) = i
      BY <1>1, <2>2
    <3>2. ASSUME NEW j \in 1..i PROVE now[i].hash[j] = then[i].hash[j]
      <4>1. now[i].hash[j] = [seq |-> j - 1, payload |-> now[j].payload]
        BY <1>1, <2>2
      <4>2. then[i].hash[j] = [seq |-> j - 1, payload |-> then[j].payload]
        BY <1>1
      <4>3. now[j].payload = then[j].payload
        BY <2>1
      <4> QED
        BY <4>1, <4>2, <4>3
    <3> QED
      BY <2>3, <3>1, <3>2, SeqEqual
  <2>5. now[i].prev = then[i].prev
    <3> DEFINE mine == [seq |-> i - 1, payload |-> now[i].payload]
               theirs == [seq |-> i - 1, payload |-> then[i].payload]
    <3>1. /\ Len(now[i].prev) = i - 1 /\ Len(then[i].prev) = i - 1
          /\ now[i].hash = Append(now[i].prev, mine)
          /\ then[i].hash = Append(then[i].prev, theirs)
      BY <1>1, <2>2
    <3>2. mine \in Spelling(P) /\ theirs \in Spelling(P)
      BY <2>3 DEF Spelling
    <3> HIDE DEF mine, theirs
    <3>3. \A j \in 1..(i - 1) : now[i].prev[j] = then[i].prev[j]
      <4> SUFFICES ASSUME NEW j \in 1..(i - 1) PROVE now[i].prev[j] = then[i].prev[j]
        OBVIOUS
      <4>1. now[i].hash[j] = now[i].prev[j]
        BY <2>3, <3>1, <3>2, AppendProperties
      <4>2. then[i].hash[j] = then[i].prev[j]
        BY <2>3, <3>1, <3>2, AppendProperties
      <4> QED
        BY <2>4, <4>1, <4>2
    <3> QED
      BY <2>3, <3>1, <3>3, SeqEqual
  <2>6. now[i].seq = then[i].seq
    BY <1>1, <2>2
  <2> QED
    BY <2>1, <2>2, <2>4, <2>5, <2>6, SameEntryCells
<1>8. Len(now) \in Nat /\ n \in Nat
  OBVIOUS
<1>9. (\A i \in 1..n : now[i] = then[i]) => now[n].hash = then[n].hash
  BY <1>2
<1> QED
  BY <1>6, <1>7, <1>8, <1>9

-----------------------------------------------------------------------------
(* The statements of the tables *)

CONSTANTS Customers, Words, Dates
Record == INSTANCE Records

\* The other rows are those a key does not name.
Others(table, key) == table \ Record!Where(table, key)

\* Setting cells that agree with the key names the same rows.
LEMMA SameRowsNamed ==
    ASSUME NEW r, NEW key, NEW cells, DOMAIN key \subseteq DOMAIN r,
           \A column \in DOMAIN key \cap DOMAIN cells : cells[column] = key[column],
           \A column \in DOMAIN key : r[column] = key[column]
    PROVE  \A column \in DOMAIN key : Record!With(r, cells)[column] = key[column]
BY DEF Record!With

\* INSERT ... ON CONFLICT DO UPDATE, whatever the table: it keeps the unique index on the
\* columns of its key, leaves one row that the key names and all the others as they were,
\* and done again it changes nothing (repo.ts, onConflict ... doUpdateSet).
THEOREM UpsertsSettle ==
    ASSUME NEW table, NEW key, NEW row, NEW cells,
           \A r \in table : DOMAIN key \subseteq DOMAIN r,
           DOMAIN key \subseteq DOMAIN row,
           row = [column \in DOMAIN row |-> row[column]],
           \A column \in DOMAIN key : row[column] = key[column],
           \A column \in DOMAIN cells : column \in DOMAIN row /\ cells[column] = row[column],
           Record!OneRowPer(table, DOMAIN key),
           NEW written, written = Record!Upsert(table, key, row, cells)
    PROVE  /\ Record!OneRowPer(written, DOMAIN key)
           /\ \E r \in written : Record!Where(written, key) = {r}
           /\ Others(written, key) = Others(table, key)
           /\ Record!Upsert(written, key, row, cells) = written
<1> DEFINE named == Record!Where(table, key)
           Set(r) == Record!With(r, cells)
<1>0. \A column \in DOMAIN key \cap DOMAIN cells : cells[column] = key[column]
  OBVIOUS
<1>1. ASSUME named = {}
      PROVE  /\ written = table \cup {row} /\ Record!Where(written, key) = {row}
             /\ Others(written, key) = table
  BY <1>1 DEF Record!Upsert, Record!Where, Others
<1>2. Set(row) = row
  BY DEF Record!With
<1>3. CASE named = {}
  <2>1. Record!OneRowPer(written, DOMAIN key)
    BY <1>1, <1>3 DEF Record!OneRowPer, Record!Where
  <2>2. Record!Upsert(written, key, row, cells) =
           {IF r \in {row} THEN Set(r) ELSE r : r \in written}
    BY <1>1, <1>3 DEF Record!Upsert, Record!Update
  <2>3. \A r \in written : (IF r \in {row} THEN Set(r) ELSE r) = r
    BY <1>2
  <2>4. Others(table, key) = table
    BY <1>3 DEF Others
  <2>5. {IF r \in {row} THEN Set(r) ELSE r : r \in written} = written
    <3> HIDE DEF Set
    <3> QED
      BY <2>3
  <2> QED
    BY <1>1, <1>3, <2>1, <2>2, <2>4, <2>5
<1>4. CASE named # {}
  <2>1. PICK r \in table : named = {r} /\ \A column \in DOMAIN key : r[column] = key[column]
    BY <1>4 DEF Record!OneRowPer, Record!Where
  <2>2. written = Others(table, key) \cup {Set(r)}
    <3>1. written = {IF t \in {r} THEN Set(t) ELSE t : t \in table}
      BY <1>4, <2>1 DEF Record!Upsert, Record!Update
    <3>2. Others(table, key) = table \ {r}
      BY <2>1 DEF Others
    <3> HIDE DEF Set
    <3> QED
      BY <2>1, <3>1, <3>2
  <2>3. \A column \in DOMAIN key : Set(r)[column] = key[column]
    BY <1>0, <2>1, SameRowsNamed
  <2>4. \A t \in Others(table, key) :
           t \in table /\ ~(\A column \in DOMAIN key : t[column] = key[column])
    BY DEF Others, Record!Where
  <2>5. Record!Where(written, key) = {Set(r)} /\ Others(written, key) = Others(table, key)
    <3> HIDE DEF Set
    <3> QED
      BY <2>2, <2>3, <2>4 DEF Record!Where, Others
  <2>6. Record!OneRowPer(written, DOMAIN key)
    <3> SUFFICES ASSUME NEW s \in written, NEW t \in written,
                        \A column \in DOMAIN key : s[column] = t[column]
                 PROVE  s = t
      BY DEF Record!OneRowPer
    <3>1. CASE s = Set(r) \/ t = Set(r)
      <4> HIDE DEF Set
      <4> QED
        BY <2>2, <2>3, <2>4, <3>1
    <3>2. CASE s # Set(r) /\ t # Set(r)
      <4> HIDE DEF Set
      <4>1. s \in table /\ t \in table
        BY <2>2, <2>4, <3>2
      <4> QED
        BY <4>1 DEF Record!OneRowPer
    <3> QED
      BY <3>1, <3>2
  <2>7. Set(Set(r)) = Set(r)
    BY DEF Record!With
  <2>8. Record!Upsert(written, key, row, cells)
           = {IF t \in {Set(r)} THEN Set(t) ELSE t : t \in written}
    <3> HIDE DEF Set
    <3>1. Record!Where(written, key) # {}
      BY <2>5
    <3> QED
      BY <2>5, <3>1 DEF Record!Upsert, Record!Update, Set
  <2>9. {IF t \in {Set(r)} THEN Set(t) ELSE t : t \in written} = written
    <3>1. \A t \in written : (IF t \in {Set(r)} THEN Set(t) ELSE t) = t
      BY <2>7
    <3> HIDE DEF Set
    <3> QED
      BY <3>1
  <2>10. Set(r) \in written
    <3> HIDE DEF Set
    <3> QED
      BY <2>2
  <2> QED
    BY <2>5, <2>6, <2>8, <2>9, <2>10
<1> QED
  BY <1>3, <1>4, <1>1

\* A customer that signs or approves by an id changes what is its own and nothing else,
\* however the id was come by: the check of the owner and the statement, which is keyed by
\* the id alone, speak of one row, since an id is that of one row
\* (signClaimSourceForCustomer, approveDeployRowForCustomer).
THEOREM TenantsAreApart ==
    ASSUME NEW claims, NEW queue, NEW assets, NEW id, NEW c, NEW by, NEW at,
           Record!OneRowPer(claims, {"id"}), Record!OneRowPer(assets, {"id"}),
           NEW signed, signed = Record!SignClaimSourceForCustomer(claims, id, c, by, at),
           NEW after, after = Record!ApproveDeployRowForCustomer(queue, assets, id, c, by)
    PROVE  /\ {r \in claims : r.customer # c} \subseteq signed.claims
           /\ signed.ok => \E r \in claims : r.id = id /\ r.customer = c
           /\ ~signed.ok => signed.claims = claims
           /\ \A q \in queue : q \notin after
                 => \A a \in assets : a.id = q.asset => a.customer = c
<1>1. {r \in claims : r.customer # c} \subseteq signed.claims
  <2>1. CASE Record!Owned(claims, id, c)
    <3>1. PICK own \in claims : own.id = id /\ own.customer = c
      BY <2>1 DEF Record!Owned, Record!Where
    <3>2. \A r \in claims : r.id = id => r = own
      BY <3>1 DEF Record!OneRowPer
    <3> DEFINE cells == [signedBy |-> by, signedAt |-> at]
    <3>3. signed.claims = Record!Update(claims, [id |-> id], cells)
      BY <2>1 DEF Record!SignClaimSourceForCustomer, Record!SignClaimSource
    <3>4. \A r \in claims : r.customer # c => r \notin Record!Where(claims, [id |-> id])
      BY <3>1, <3>2 DEF Record!Where
    <3> HIDE DEF cells
    <3> QED
      BY <3>3, <3>4 DEF Record!Update
  <2>2. CASE ~Record!Owned(claims, id, c)
    BY <2>2 DEF Record!SignClaimSourceForCustomer
  <2> QED
    BY <2>1, <2>2
<1>2. signed.ok => \E r \in claims : r.id = id /\ r.customer = c
  BY DEF Record!SignClaimSourceForCustomer, Record!Owned, Record!Where
<1>3. ~signed.ok => signed.claims = claims
  <2>1. Record!Owned(claims, id, c) => Record!Where(claims, [id |-> id]) # {}
    BY DEF Record!Owned
  <2> QED
    BY <2>1 DEF Record!SignClaimSourceForCustomer, Record!SignClaimSource
<1>4. ASSUME NEW q \in queue, q \notin after, NEW a \in assets, a.id = q.asset
      PROVE  a.customer = c
  <2>1. Record!Owned(assets, id, c)
    BY <1>4 DEF Record!ApproveDeployRowForCustomer
  <2>2. PICK own \in assets : own.id = id /\ own.customer = c
    BY <2>1 DEF Record!Owned, Record!Where
  <2>3. q.asset = id
    BY <1>4, <2>1 DEF Record!ApproveDeployRowForCustomer, Record!ApproveDeployRow
  <2> QED
    BY <1>4, <2>2, <2>3 DEF Record!OneRowPer
<1> QED
  BY <1>1, <1>2, <1>3, <1>4

=============================================================================
