--------------------------- MODULE IndependentParts ---------------------------
(***************************************************************************)
(* Four parts that share no state, explored by one run: a behaviour is one *)
(* of RotationPlan, OwnedSite, Templates or KeyRotation, and `part` says   *)
(* which. A step of one part leaves the others in their initial states,    *)
(* where none of their fair actions is enabled.                            *)
(***************************************************************************)
EXTENDS RotationPlan, QuestionPlan

CONSTANTS Assets, Legacy, NoAsset, Workers, RetryLimit, MaxFaults
CONSTANTS Staff, Industry, Customer, NoSlug, SlugArgs, Requests, Answers, Prices, RunCeiling, Edits,
          MaxVersion, MaxGenerations, MaxCrashes
CONSTANTS Calls, NumKeys, RL_MAX_RETRIES

ASSUME SlugsAssumption == SlugArgs \subseteq {Industry, Customer}

VARIABLES part
VARIABLES files, sitemap, call, registry, indexing, verify, hub, faults, overlapped
VARIABLES rows, yaml, asked, gen, op, count, approved, given, disturbed
VARIABLES _cursor, pc, round, attempt, idx, tried, overtaken

Own == INSTANCE OwnedSite
Tpl == INSTANCE Templates
Key == INSTANCE KeyRotation

-----------------------------------------------------------------------------
(* A behaviour of one part *)

siteVars == <<files, sitemap, call, registry, indexing, verify, hub, faults, overlapped>>
templateVars == <<rows, yaml, asked, gen, op, count, approved, given, disturbed>>
keyVars == <<_cursor, pc, round, attempt, idx, tried, overtaken>>
allVars == <<part, cycles, failures, cursor, waiting, files, sitemap, call, registry, indexing,
             verify, hub, faults, overlapped, templateVars, keyVars>>

PartsInit ==
    /\ Init /\ Own!Init /\ Tpl!Init /\ Key!Init
    /\ part \in {"rotation", "site", "templates", "keys"}

Rotation(A) == part = "rotation"  /\ A /\ UNCHANGED <<part, siteVars, templateVars, keyVars>>
Site(A)     == part = "site"      /\ A /\ UNCHANGED <<part, vars, templateVars, keyVars>>
Template(A) == part = "templates" /\ A /\ UNCHANGED <<part, vars, siteVars, keyVars>>
Rotating(A) == part = "keys"      /\ A /\ UNCHANGED <<part, vars, siteVars, templateVars>>

PartsNext ==
    \/ Rotation(Cycle)
    \/ Rotation(FailedCycle)
    \/ \E w \in Workers :
         \/ Site(Own!ClaimUrlRegistry(w))
         \/ Site(Own!WritePage(w))
         \/ Site(Own!ReadSitemapEntries(w))
         \/ Site(Own!TruncateSitemap(w))
         \/ Site(Own!FillSitemap(w))
         \/ Site(Own!MarkUrlRegistryPublished(w))
         \/ Site(Own!EnqueueVerify(w))
         \/ Site(Own!ConnectorThrows(w))
         \/ Site(Own!Crash(w))
    \/ \E a \in Assets : Site(Own!HandlePublishVerify(a))
    \/ Site(Own!ReadPublishedRows)
    \/ Site(Own!WriteHubIndex)
    \/ Template(Tpl!Diagnose)
    \/ Template(Tpl!AskLanguage)
    \/ Template(Tpl!ReadVersion)
    \/ Template(Tpl!InsertDraft)
    \/ Template(Tpl!UpdateAdvisoryCols)
    \/ Template(Tpl!GenDies)
    \/ \E o \in Staff :
         \/ Template(Tpl!Command(o))
         \/ Template(Tpl!ReadForEdit(o))
         \/ Template(Tpl!ActionReviewed(o))
         \/ Template(Tpl!ActionActive(o))
         \/ Template(Tpl!TransactionFails(o))
         \/ Template(Tpl!Reread(o))
         \/ Template(Tpl!WriteYaml(o))
         \/ Template(Tpl!LoadYaml(o))
         \/ Template(Tpl!UpsertQuestions(o))
         \/ Template(Tpl!ActionEdit(o))
         \/ Template(Tpl!StaffDies(o))
    \/ \E c \in Calls :
         \/ Rotating(Key!AskFirst(c))
         \/ Rotating(Key!Answered(c))
         \/ Rotating(Key!Throws(c))
         \/ Rotating(Key!RateLimited(c))

\* The fairness of OwnedSite.
PartsSpec ==
    /\ PartsInit /\ [][PartsNext]_allVars
    /\ \A w \in Workers : WF_allVars(Site(Own!Publish(w)))
    /\ \A a \in Assets : WF_allVars(Site(Own!HandlePublishVerify(a)))

-----------------------------------------------------------------------------
(* The properties of the instances under names of this module               *)

\* The sitemap, the hub's index and the published rows point at pages that are there.
NothingDangles == Own!NothingDangles

\* Without overlap or failure, every page is in the sitemap.
LoneCallsListAll == Own!LoneCallsListAll

\* Every verification ends: stamped, dead-lettered, or passed over.
VerifyEnds == Own!VerifyEnds

\* Only questions of a reviewed version are in a file or asked.
OnlyReviewedIsAsked == Tpl!OnlyReviewedIsAsked

\* A call waits once every key was limited, unless another call moved the cursor.
WaitsWhenAllAreLimited == Key!WaitsWhenAllAreLimited

\* A version stops being active only when another takes its place, or by a late review.
ActiveIsReplaced == Tpl!ActiveIsReplaced

\* When nothing disturbed its activation, the active version is in its file and asked.
ActiveIsServed == Tpl!ActiveIsServed
===============================================================================
