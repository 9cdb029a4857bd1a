-------------------------------- MODULE Access --------------------------------
(***************************************************************************)
(* Who gets in and what they are answered: the audit chain                 *)
(* (src/security), sessions and scopes (src/auth, apps/web/lib), report    *)
(* links, the routes (src/api, apps/web/app/api), and what a run is given  *)
(* by the three places that start one. A digest is what was digested: two  *)
(* digests are equal when their inputs are.                                *)
(***************************************************************************)
EXTENDS Naturals, Sequences, FiniteSets, FiniteSetsExt, SequencesExt

NULL == "null"

-----------------------------------------------------------------------------
(* The audit chain: the writer's, of src/security/securityAudit.ts. *)

GENESIS == <<>>

ComputeAuditRowHash(prev, event) == Append(prev, event)

BuildAuditRecord(prev, event) ==
    [event |-> event, prev |-> prev, hash |-> ComputeAuditRowHash(prev, event)]

\* The last hash is read and the row inserted in two statements.
LastHash(log) == IF log = <<>> THEN GENESIS ELSE Last(log).hash
Recorded(log, prev, event) == Append(log, BuildAuditRecord(prev, event))
RecordSecurityAudit(log, event) == Recorded(log, LastHash(log), event)

\* The first row that fails, or 0.
VerifyAuditChain(rows) ==
    LET fails == {i \in DOMAIN rows :
                     \/ rows[i].prev # LastHash(SubSeq(rows, 1, i - 1))
                     \/ rows[i].hash # ComputeAuditRowHash(rows[i].prev, rows[i].event)}
    IN IF fails = {} THEN 0 ELSE Min(fails)

(* The verifier's of src/security/auditChainVerify.ts, with numbered entries. *)

ComputeEntryHash(seq, prev, payload) == Append(prev, [seq |-> seq, payload |-> payload])

VerifyChain(entries) ==
    \A i \in DOMAIN entries :
        LET e == entries[i] IN
        /\ e.seq = entries[1].seq + i - 1
        /\ i > 1 => e.prev = entries[i - 1].hash
        /\ e.hash = ComputeEntryHash(e.seq, e.prev, e.payload)

ComputeHeadAnchor(entries) == [seq |-> Last(entries).seq, hash |-> Last(entries).hash]

DetectTruncation(entries, anchor) ==
    LET at == {i \in DOMAIN entries : entries[i].seq = anchor.seq}
    IN IF at = {} THEN "truncated"
       ELSE IF entries[Min(at)].hash # anchor.hash THEN "rewritten" ELSE "ok"

-----------------------------------------------------------------------------
(* Users and sessions *)

Roles == {"owner", "member", "staff"}

\* The e-mail address is unique and only staff may be nobody's.
CanCreateAppUser(users, user) ==
    /\ \A u \in users : u.email # user.email
    /\ user.role = "staff" \/ user.customer # NULL

FindSession(sessions, cookie, now) == {s \in sessions : s.token = cookie /\ s.expires > now}

\* The user of the session a cookie names: none or one.
GetServerSession(users, sessions, cookie, now) ==
    {u \in users : \E s \in FindSession(sessions, cookie, now) : s.user = u.email}

\* A customer's name, or where the request goes instead.
RequireCustomerScope(session) ==
    IF session = {} THEN "/login"
    ELSE LET user == CHOOSE u \in session : TRUE
         IN IF user.customer = NULL THEN "403" ELSE user.customer

RequireStaff(session) ==
    IF session = {} THEN "/login"
    ELSE IF \A u \in session : u.role = "staff" THEN "staff" ELSE "403"

\* A statement that fails, a wrong password and an unknown address set no cookie.
Login(users, sessions, email, password, token, now, ttl, fails) ==
    LET user == {u \in users : u.email = email}
    IN IF \/ email = NULL \/ password = NULL \/ user = {} \/ fails # {}
          \/ \E u \in user : u.password # password
       THEN [to |-> "error", cookie |-> NULL, sessions |-> sessions]
       ELSE [to |-> "/overview", cookie |-> token,
             sessions |-> sessions \cup
                             {[user |-> email, token |-> token, expires |-> now + ttl]}]

\* The cookie is cleared in the browser whether or not the row could be deleted.
Logout(sessions, cookie, fails) ==
    IF fails THEN sessions ELSE {s \in sessions : s.token # cookie}

-----------------------------------------------------------------------------
(* Report links *)

\* The secret a process signs with. One that is too short stops it, and so does none at
\* all unless the fallback is allowed.
GetSecret(env) ==
    IF env.secret # NULL THEN IF env.long THEN env.secret ELSE "throws"
    ELSE IF env.allowDev \/ env.test THEN "dev-fallback" ELSE "throws"

Mac(snapshot, customer, secret) == <<snapshot, customer, secret>>

GenerateReportToken(snapshot, customer, env) ==
    [shaped |-> TRUE, snapshot |-> snapshot, mac |-> Mac(snapshot, customer, GetSecret(env))]

\* Why a link is answered as it is; the secret is read once the snapshot was found.
VerifyReportToken(token, snapshots, env, fails) ==
    LET found == {s \in snapshots : s.id = token.snapshot}
    IN CASE ~token.shaped -> "malformed"
         [] token.shaped /\ (fails \/ found = {}) -> "snapshot_missing"
         [] OTHER ->
              IF GetSecret(env) = "throws" THEN "throws"
              ELSE IF \E s \in found : token.mac = Mac(s.id, s.customer, GetSecret(env))
              THEN "ok" ELSE "mac_mismatch"

\* The page writes down who came in and who failed to, and answers.
AuditedAs(reason) ==
    CASE reason = "mac_mismatch" -> "report_token_forgery"
      [] reason = "ok" -> "report_token_verify"
      [] OTHER -> NULL
ReportPermalinkPage(reason) ==
    CASE reason = "ok" -> 200 [] reason = "throws" -> 500 [] OTHER -> 404

-----------------------------------------------------------------------------
(* The routes. A request without a session goes to the login page, as 307. *)

Scoped(scope, answer) ==
    CASE scope = "/login" -> 307 [] scope = "403" -> 403 [] OTHER -> answer

\* A row of another customer is answered as one that is not there.
OwnedRow(scope, rows, id) ==
    Scoped(scope, IF \E r \in rows : r.id = id /\ r.customer = scope THEN 200 ELSE 404)
GetReport(scope, snapshots, id) == OwnedRow(scope, snapshots, id)
GetEvidence(scope, responses, id) == OwnedRow(scope, responses, id)

\* The newest report of the customer; the ids of those that can be it.
GetOverview(scope, snapshots) ==
    LET own == {s \in snapshots : s.customer = scope}
    IN {s.id : s \in {s \in own : \A t \in own : t.week <= s.week}}

SignClaim(scope, claims, id) ==
    IF scope \in {"/login", "403"} THEN "no session"
    ELSE IF \E c \in claims : c.id = id /\ c.customer = scope THEN "ok" ELSE "not found"

\* No token in the environment is nobody's entry.
IsValidOpsRequest(configured, supplied) == configured # NULL /\ supplied = configured

GetSmr(ops, runExists, assembled) ==
    IF ~ops THEN 403 ELSE IF ~runExists THEN 404 ELSE IF ~assembled THEN 500 ELSE 200

\* What is missing, in the order it is asked for.
PostDiagnose(ops, s) ==
    IF ~ops THEN 403
    ELSE IF ~s.template THEN 400
    ELSE IF ~s.customer THEN 404
    ELSE IF ~s.brand \/ ~s.budget THEN 400
    ELSE IF ~s.judge THEN 503
    ELSE CASE s.run = "throws" -> 500 [] s.run = "no report" -> 422 [] OTHER -> 200

\* With a name of an industry and no key the diagnosis is still made.
PostDiagnoseUrl(s) ==
    IF ~s.url /\ ~s.industry THEN 400
    ELSE IF ~s.key /\ ~s.industry THEN 503
    ELSE IF s.capped THEN 429
    ELSE CASE s.diagnosis = "not configured" -> 503 [] s.diagnosis = "failed" -> 502
           [] OTHER -> 200

\* What reviewing and activating a template may throw.
PatchReview(outcome) ==
    CASE outcome = "wrong status" -> 409 [] outcome = "wrong payload" -> 422
      [] outcome = "not found" -> 404 [] outcome = "throws" -> 500 [] OTHER -> 200
PostActivate(named, rowExists, outcome) ==
    IF named /\ ~rowExists THEN 404 ELSE PatchReview(outcome)

-----------------------------------------------------------------------------
(* The free diagnosis of the marketing page *)

\* The visit is counted before anything else is asked.
CheckIpCap(hits, cap) ==
    [allowed |-> hits < cap, hits |-> IF hits < cap THEN hits + 1 ELSE hits]

\* Where a visitor is sent; "runs" is a whole baseline of the demo customer.
RunDiagnose(hits, cap, s) ==
    IF ~CheckIpCap(hits, cap).allowed \/ ~s.customer THEN "error"
    ELSE IF s.baseline THEN "/diagnose"
    ELSE IF ~s.brand \/ ~s.budget \/ ~s.judge THEN "error" ELSE "runs"

-----------------------------------------------------------------------------
(* What a run is given, by the worker (index.ts), the route and the page. *)

\* An adapter is [provider, modality, status], surfaces among them, a model a row
\* [id, provider, enabled] of the table. Its modality is not asked for.
ChatModels(models, adapters) ==
    {[id |-> m.id, modality |-> "chat"] :
        m \in {m \in models : m.enabled /\ \E a \in adapters :
                                  a.provider = m.provider /\ a.status = "ready"}}

\* What the plan is made from: the rows and the surfaces that were wired.
ModelsOfRun(models, adapters, surfaces) ==
    ChatModels(models, adapters)
        \cup {[id |-> s.id, modality |-> s.modality] : s \in surfaces}

\* The worker looks a unit's model up among the rows; with no adapter the job throws.
AdapterOfUnit(models, adapters, id) ==
    {a \in adapters : \E m \in models : m.enabled /\ m.id = id /\ m.provider = a.provider}

\* A cached answer counts for the worker when it is older than the run, else always.
FindByHash(rows, hash, cutoff) ==
    {r \in rows : r.hash = hash /\ (cutoff = 0 \/ r.createdAt < cutoff)}

\* The queues: those made on start, those a handler is registered for, and those named
\* for what could not be done.
Created == {"cycle.cron", "cycle.plan", "response.run", "cycle.aggregate",
            "response.run.dlq", "cycle.aggregate.dlq", "publish.dispatch", "publish.unit",
            "publish.verify", "publish.unit.dlq", "publish.verify.dlq", "report.deliver",
            "report.deliver.dlq"}
JOB_NAMES == {"cycle.plan", "response.run", "cycle.aggregate", "publish.dispatch",
              "publish.unit", "publish.verify", "report.deliver", "billing.close"}
DeadLetters == {"response.run.dlq", "cycle.aggregate.dlq", "report.deliver.dlq",
                "publish.unit.dlq", "publish.verify.dlq"}
DLQ_BILLING_CLOSE == "billing.close.dlq"
=============================================================================
