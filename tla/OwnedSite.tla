------------------------------ MODULE OwnedSite ------------------------------
(* The owned hub on disk: what the owned_net connector writes for each asset, *)
(* the sitemap that concurrent calls read, merge and write back without a     *)
(* lock, the hub's index page, and the publish.verify job of each publish.    *)
(* A page is its asset: path and loc are derived from the asset alone.        *)
EXTENDS Naturals, FiniteSets

CONSTANTS
    Assets,        \* assets queued for the owned net
    Legacy,        \* pages the hub had before, listed and without a registry row
    NoAsset,
    Workers,       \* publish.unit handlers that may run at once
    RetryLimit,    \* retries pg-boss gives a publish.verify job
    MaxFaults      \* bound on crashes, file errors and failed updates

VARIABLES
    files,      \* pages on disk
    sitemap,    \* entries of sitemap.xml
    call,       \* worker -> its connector call
    registry,   \* asset -> publish_status of its newest url_registry row
    indexing,   \* asset -> indexing_status of that row
    verify,     \* asset -> its publish.verify job
    hub,        \* the index page and the rebuild that is under way
    faults,     \* faults so far
    overlapped  \* history: two calls have been under way at once
vars == <<files, sitemap, call, registry, indexing, verify, hub, faults, overlapped>>

Pages == Assets \cup Legacy
Idle == [pc |-> "idle", asset |-> NoAsset, read |-> {}]
Job(state, left) == [state |-> state, left |-> left]    \* deliveries left
Writing == {"page", "read", "truncate", "fill"}

TypeOK ==
    /\ files \subseteq Pages /\ sitemap \subseteq Pages
    /\ call \in [Workers -> [pc: {"idle", "mark", "enqueue"} \cup Writing,
                             asset: Assets \cup {NoAsset}, read: SUBSET Pages]]
    /\ registry \in [Assets -> {"none", "publishing", "published", "failed"}]
    /\ indexing \in [Assets -> {"unknown", "submitted"}]
    /\ verify \in [Assets -> [state: {"none", "queued", "done", "dead"},
                            left: 0..(RetryLimit + 1)]]
    /\ hub \in [index: SUBSET Pages, rows: SUBSET Assets, building: BOOLEAN]
    /\ faults \in 0..MaxFaults /\ overlapped \in BOOLEAN

Init ==
    /\ files = Legacy /\ sitemap = Legacy
    /\ call = [w \in Workers |-> Idle]
    /\ registry = [a \in Assets |-> "none"] /\ indexing = [a \in Assets |-> "unknown"]
    /\ verify = [a \in Assets |-> Job("none", 0)]
    /\ hub = [index |-> Legacy, rows |-> {}, building |-> FALSE]
    /\ faults = 0 /\ overlapped = FALSE

At(w, pc) == call[w].pc = pc
Goes(w, pc) == call' = [call EXCEPT ![w].pc = pc]
Stops(w) == call' = [call EXCEPT ![w] = Idle]
Fault == faults < MaxFaults /\ faults' = faults + 1

-----------------------------------------------------------------------------
(* One publish.unit: claim, page, sitemap, registry, publish.verify.         *)

\* The unique index admits one live row for each asset.
ClaimUrlRegistry(w) ==
    /\ At(w, "idle")
    /\ \E a \in Assets :
         /\ registry[a] \in {"none", "failed"}
         /\ registry' = [registry EXCEPT ![a] = "publishing"]
         /\ indexing' = [indexing EXCEPT ![a] = "unknown"]
         /\ call' = [call EXCEPT ![w] = [Idle EXCEPT !.pc = "page", !.asset = a]]
    /\ overlapped' = (overlapped \/ \E v \in Workers : ~At(v, "idle"))
    /\ UNCHANGED <<files, sitemap, verify, hub, faults>>

\* Mutation: a page that cannot be written is passed over.
WriteFails(w) ==
    /\ At(w, "page") /\ Fault
    /\ Goes(w, "read")
    /\ UNCHANGED <<files, sitemap, registry, indexing, verify, hub, overlapped>>

WritePage(w) ==
    /\ At(w, "page")
    /\ files' = files \cup {call[w].asset}
    /\ Goes(w, "read")
    /\ UNCHANGED <<sitemap, registry, indexing, verify, hub, faults, overlapped>>

ReadSitemapEntries(w) ==
    /\ At(w, "read")
    /\ call' = [call EXCEPT ![w] = [pc |-> "truncate", asset |-> @.asset, read |-> sitemap]]
    /\ UNCHANGED <<files, sitemap, registry, indexing, verify, hub, faults, overlapped>>

\* writeFile empties the file before it fills it.
TruncateSitemap(w) ==
    /\ At(w, "truncate")
    /\ sitemap' = {}
    /\ Goes(w, "fill")
    /\ UNCHANGED <<files, registry, indexing, verify, hub, faults, overlapped>>

\* Mutation: the entries that were read are not written back.
MergeNone(read, a) == {a}

MergeSitemapEntry(read, a) == read \cup {a}

\* Over a longer text that another call wrote meanwhile, its tail may be left.
FillSitemap(w) ==
    /\ At(w, "fill")
    /\ \E tail \in SUBSET sitemap :
         sitemap' = MergeSitemapEntry(call[w].read, call[w].asset) \cup tail
    /\ Goes(w, "mark")
    /\ UNCHANGED <<files, registry, indexing, verify, hub, faults, overlapped>>

\* A failed update is logged: the row stays 'publishing'.
MarkUrlRegistryPublished(w) ==
    /\ At(w, "mark")
    /\ \/ registry' = [registry EXCEPT ![call[w].asset] = "published"] /\ faults' = faults
       \/ registry' = registry /\ Fault
    /\ Goes(w, "enqueue")
    /\ UNCHANGED <<files, sitemap, indexing, verify, hub, overlapped>>

\* A failed enqueue is logged: nobody verifies the page.
EnqueueVerify(w) ==
    /\ At(w, "enqueue")
    /\ \/ verify' = [verify EXCEPT ![call[w].asset] = Job("queued", RetryLimit + 1)] /\ faults' = faults
       \/ verify' = verify /\ Fault
    /\ Stops(w)
    /\ UNCHANGED <<files, sitemap, registry, indexing, hub, overlapped>>

\* A file error is thrown through the connector: the claim is given back.
ConnectorThrows(w) ==
    /\ call[w].pc \in Writing /\ Fault
    /\ registry' = [registry EXCEPT ![call[w].asset] = "failed"]
    /\ Stops(w)
    /\ UNCHANGED <<files, sitemap, indexing, verify, hub, overlapped>>

\* A crash leaves the claim, whatever was written, and a sitemap that may be empty.
Crash(w) ==
    /\ ~At(w, "idle") /\ Fault /\ Stops(w)
    /\ UNCHANGED <<files, sitemap, registry, indexing, verify, hub, overlapped>>

Publish(w) ==
    \/ WritePage(w) \/ ReadSitemapEntries(w) \/ TruncateSitemap(w) \/ FillSitemap(w)
    \/ MarkUrlRegistryPublished(w) \/ EnqueueVerify(w)

-----------------------------------------------------------------------------
(* publish.verify, and the script that rebuilds the hub's index.             *)

\* Mutation: the failed update is logged and the job is done.
SwallowError(a) == verify' = [verify EXCEPT ![a] = Job("done", 0)]

\* A retry: the handler is told attempt 1 each time, so it never settles, and
\* the last delivery that fails goes to the dead letters.
RetryOrDie(a) ==
    verify' = [verify EXCEPT ![a] = IF @.left > 1 THEN Job("queued", @.left - 1)
                                    ELSE Job("dead", 0)]

\* The local file is never indexed: 'submitted' is all that can be stamped.
StampSubmitted(a) ==
    \/ /\ indexing' = [indexing EXCEPT ![a] = "submitted"]
       /\ verify' = [verify EXCEPT ![a] = Job("done", 0)] /\ faults' = faults
    \/ RetryOrDie(a) /\ Fault /\ indexing' = indexing

HandlePublishVerify(a) ==
    /\ verify[a].state = "queued"
    /\ IF registry[a] = "published" THEN StampSubmitted(a)
       ELSE verify' = [verify EXCEPT ![a] = Job("done", 0)] /\ UNCHANGED <<indexing, faults>>
    /\ UNCHANGED <<files, sitemap, call, registry, hub, overlapped>>

\* Pages the database does not know are found on disk.
Listing(rows) == rows \cup files

ReadPublishedRows ==
    /\ ~hub.building
    /\ hub' = [hub EXCEPT !.building = TRUE, !.rows = {a \in Assets : registry[a] = "published"}]
    /\ UNCHANGED <<files, sitemap, call, registry, indexing, verify, faults, overlapped>>

WriteHubIndex ==
    /\ hub.building
    /\ hub' = [index |-> Listing(hub.rows), rows |-> {}, building |-> FALSE]
    /\ UNCHANGED <<files, sitemap, call, registry, indexing, verify, faults, overlapped>>

Next ==
    \/ \E w \in Workers : ClaimUrlRegistry(w) \/ Publish(w) \/ ConnectorThrows(w) \/ Crash(w)
    \/ \E a \in Assets : HandlePublishVerify(a)
    \/ ReadPublishedRows \/ WriteHubIndex

Spec == Init /\ [][Next]_vars

\* A handler runs to its end, and a queued job is delivered while it is left.
FairSpec ==
    /\ Spec
    /\ \A w \in Workers : WF_vars(Publish(w))
    /\ \A a \in Assets : WF_vars(HandlePublishVerify(a))

-----------------------------------------------------------------------------
(* Properties                                                                *)

Quiet == \A w \in Workers : At(w, "idle")
Published == {a \in Assets : registry[a] = "published"}

\* Nothing points at a page that is not there: not the sitemap, not the index,
\* not a published row (publish() writes the page first), whatever fails.
NothingDangles == sitemap \cup hub.index \cup Published \subseteq files

\* While calls never overlap and nothing fails, every page of the hub is in the
\* sitemap (the read, merge and write of publish()).
LoneCallsListAll == ~overlapped /\ faults = 0 /\ Quiet => files \subseteq sitemap

\* Every verification that was enqueued ends: stamped, dead-lettered, or passed
\* over because the row is not published (handlePublishVerify, pg-boss retries).
VerifyEnds ==
    \A a \in Assets : verify[a].state = "queued" ~>
        \/ indexing[a] = "submitted" \/ verify[a].state = "dead"
        \/ verify[a].state = "done" /\ registry[a] # "published"

\* Every published page is listed (violated: two calls that overlap read the
\* same entries, and a call that dies after the truncation leaves none).
PublishedIsListed == Quiet => Published \subseteq sitemap

\* A verification that runs out of attempts settles 'unknown' and is not
\* dead-lettered (violated: the handler is told attempt 1 every time).
ExhaustedIsSettled == \A a \in Assets : verify[a].state # "dead"

-----------------------------------------------------------------------------
(* Why nothing dangles and lone calls list all: what is written anywhere was *)
(* read from there, or is the page of a call that has written it; and while  *)
(* one call is at work, what the sitemap lacks is what that call holds.      *)

Bounded == RetryLimit \in Nat /\ MaxFaults \in Nat

WrittenInv ==
    /\ sitemap \cup hub.index \cup hub.rows \cup Published \subseteq files
    /\ \A w \in Workers :
         /\ call[w].read \subseteq files
         /\ ~At(w, "idle") => call[w].asset \in Assets
         /\ call[w].pc \notin {"idle", "page"} => call[w].asset \in files

Held(w) ==
    CASE At(w, "read") -> sitemap \cup {call[w].asset}
      [] call[w].pc \in {"truncate", "fill"} -> call[w].read \cup {call[w].asset}
      [] OTHER -> sitemap

LoneInv ==
    ~overlapped /\ faults = 0 =>
        /\ \A v, w \in Workers : At(v, "idle") \/ At(w, "idle") \/ v = w
        /\ \A w \in Workers : At(w, "idle") \/ files \subseteq Held(w)
        /\ Quiet => files \subseteq sitemap

=============================================================================
