--------------------------- MODULE PoolSurfacing ---------------------------
(***************************************************************************)
(* The surfacing worker, which shows new postings of the pool to the       *)
(* personas they fit, and the submission of a posting by hand: directly,   *)
(* or by confirming a preview.                                             *)
(*                                                                         *)
(* A pass reads the postings created since its watermark in one step and   *)
(* writes the links, commits and moves the watermark in another; polls and *)
(* submissions commit in between.  The watermark is kept in memory.        *)
(***************************************************************************)
EXTENDS PollScheduler

CONSTANTS
    MaxJobs,        \* postings in one surfacing pass
    MaxEvaluated,   \* personas evaluated for one posting in one pass
    Submissions,    \* ads a persona's user may submit by hand
    PreviewTime,    \* lifetime of a preview token
    MaxRequests     \* previews and direct submissions, at most

ASSUME SurfacingAssumption == /\ {MaxJobs, MaxEvaluated} \subseteq Nat \ {0}
                                /\ {PreviewTime, MaxRequests} \subseteq Nat
ASSUME SubmissionsAssumption == /\ Submissions \subseteq Personas \X Ads
                                /\ \A s \in Submissions : KeyOf[s[2]] = NoKey

VARIABLES
    watermark,      \* _last_run_at, or None
    pass,           \* the postings a running pass has read and released
    preview,        \* the preview token of each persona's user: when it expires
    form,           \* the open transaction of a submission
    requests,
    seen,           \* history: postings a pass has evaluated
    unlucky,        \* history: postings a pass had a reason to leave out, see below
    sighted         \* history: postings whose quarantine a scouter's sighting has ended

worker == <<watermark, pass>>
forms == <<preview, form, requests>>
history == <<seen, unlucky, sighted>>

NoPass == [running |-> FALSE, jobs |-> {}, released |-> {}, left |-> {}]
NoForm == [ad |-> None, at |-> 0, hit |-> None]
NoPreview == [ad |-> None, until |-> 0]

SurfacingTypeOK ==
    /\ watermark \in (0..MaxTime) \cup {None}
    /\ pass \in [running : BOOLEAN, jobs : SUBSET Ads, released : SUBSET Ads, left : SUBSET Ads]
    /\ preview \in [Personas -> [ad : Ads \cup {None}, until : 0..(MaxTime + PreviewTime)]]
    /\ form \in [Personas -> [ad : Ads \cup {None}, at : 0..MaxTime, hit : Ads \cup {None}]]
    /\ requests \in 0..MaxRequests
    /\ seen \subseteq Ads /\ unlucky \subseteq Ads /\ sighted \subseteq Ads

SurfacingInit ==
    /\ watermark = None /\ pass = NoPass
    /\ preview = [p \in Personas |-> NoPreview] /\ form = [p \in Personas |-> NoForm] /\ requests = 0
    /\ seen = {} /\ unlucky = {} /\ sighted = {}

-----------------------------------------------------------------------------
(* run_surfacing_pass *)

Since == IF watermark # None THEN watermark ELSE IF now >= Lookback THEN now - Lookback ELSE 0

SinceAfter(x, since) == posting[x].at > since
SinceFrom(x, since) == posting[x].at >= since

\* Postings the query returns before its limit: those whose quarantine the pass
\* has just ended count, if they are young enough.
Fresh == {x \in Rows(posting) : SinceFrom(x, Since) /\ (~posting[x].held \/ x \in Expired)}
Newest(js, of) == \A j \in js, k \in of \ js : posting[j].at >= posting[k].at

\* What a pass that reads now leaves out for a reason: postings over its limit,
\* in quarantine, or older than the lookback of the first pass after a start.
KeptBack == {x \in Rows(posting) : posting[x].held} \ Expired
Stale == {x \in Rows(posting) : watermark = None /\ ~SinceFrom(x, Since)}

\* Nothing to surface, or nobody to surface it to: the session is closed without a
\* commit, which also takes back the release, and the watermark moves on.
EmptyPass ==
    /\ ~pass.running /\ (Fresh = {} \/ Onboarded = {})
    /\ watermark' = now
    /\ unlucky' = unlucky \cup Fresh \cup KeptBack \cup Expired \cup Stale
    /\ UNCHANGED <<now, pool, sched, work, failures, pass, forms, seen, sighted>>

\* The release waits for a row an open poll has written.
StartPass ==
    /\ ~pass.running /\ Fresh # {} /\ Onboarded # {}
    /\ \A x \in Expired, p \in Personas : work[p].rows[x] = None
    /\ \E js \in SUBSET Fresh :
         /\ js = Fresh \/ Cardinality(js) = MaxJobs
         /\ Cardinality(js) <= MaxJobs /\ Newest(js, Fresh)
         /\ pass' = [running |-> TRUE, jobs |-> js, released |-> Expired,
                     left |-> (Fresh \ js) \cup KeptBack \cup Stale]
    /\ UNCHANGED <<now, pool, sched, work, failures, watermark, forms, history>>

\* surface_job_to_personas: up to MaxEvaluated personas without a link.
Unlinked(x) == {p \in Onboarded : link[<<p, x>>] = "none"}
Evaluated(e) == \A x \in pass.jobs :
    LET ps == {p \in Personas : <<p, x>> \in e} IN
    /\ ps \subseteq Unlinked(x) /\ Cardinality(ps) <= MaxEvaluated
    /\ ps = Unlinked(x) \/ Cardinality(ps) = MaxEvaluated
Shown(e) == e \cap Fits

\* The insert of a link waits for an open poll that has inserted the same one.
LinksFree(e) == \A s \in Shown(e) : s[2] \notin work[s[1]].links

FinishPass ==
    /\ pass.running
    /\ \E e \in SUBSET (Personas \X pass.jobs) :
         /\ Evaluated(e) /\ LinksFree(e)
         /\ link' = [s \in Personas \X Ads |-> IF s \in Shown(e) THEN "pool" ELSE link[s]]
    /\ posting' = [x \in Ads |-> IF x \in pass.released THEN [posting[x] EXCEPT !.held = FALSE]
                                 ELSE posting[x]]
    /\ watermark' = now
    /\ pass' = NoPass
    /\ seen' = seen \cup pass.jobs
    /\ unlucky' = unlucky \cup pass.left
    /\ UNCHANGED <<now, sched, work, failures, forms, sighted>>

\* The loop swallows the error: nothing is committed, the watermark stays.
AfterFailureMoved == watermark' = now
AfterFailure == UNCHANGED watermark
FailPass ==
    /\ pass.running
    /\ failures < MaxFailures /\ failures' = failures + 1
    /\ pass' = NoPass
    /\ AfterFailure
    /\ UNCHANGED <<now, pool, sched, work, forms, history>>

\* Postings that are committed behind the watermark, or while a pass is at work
\* that has read already: created_at is the start of their transaction.
Late(xs, at) == IF pass.running \/ (watermark # None /\ at < watermark) THEN xs ELSE {}

-----------------------------------------------------------------------------
(* POST /job-postings, POST /job-postings/ingest and .../ingest/confirm *)

\* The preview is refused when the user already has the posting of this URL.
Ingest(p) ==
    /\ preview[p] = NoPreview
    /\ requests < MaxRequests /\ requests' = requests + 1
    /\ \E a \in Ads :
         /\ <<p, a>> \in Submissions /\ link[<<p, a>>] = "none"
         /\ preview' = [preview EXCEPT ![p] = [ad |-> a, until |-> now + PreviewTime]]
    /\ UNCHANGED <<now, pool, sched, work, failures, worker, form, history>>

\* The token is consumed before anything is written.
Confirm(p) ==
    /\ preview[p] # NoPreview /\ form[p] = NoForm
    /\ preview' = [preview EXCEPT ![p] = NoPreview]
    /\ form' = IF now <= preview[p].until
                 THEN [form EXCEPT ![p] = [ad |-> preview[p].ad, at |-> now, hit |-> None]]
                 ELSE form
    /\ UNCHANGED <<now, pool, sched, work, failures, worker, requests, history>>

\* The direct way looks for the text first.
Submit(p) ==
    /\ form[p] = NoForm
    /\ requests < MaxRequests /\ requests' = requests + 1
    /\ \E a \in Ads :
         /\ <<p, a>> \in Submissions
         /\ \/ \E x \in ByText(posting, a) :
                 form' = [form EXCEPT ![p] = [ad |-> a, at |-> now, hit |-> x]]
            \/ /\ ByText(posting, a) = {}
               /\ form' = [form EXCEPT ![p] = [ad |-> a, at |-> now, hit |-> None]]
    /\ UNCHANGED <<now, pool, sched, work, failures, worker, preview, history>>

\* The insert waits for an open poll with the same text; when the text has been
\* taken since, the posting that has it is linked.
Targets(p) == IF form[p].hit # None THEN {form[p].hit}
              ELSE IF ByText(posting, form[p].ad) # {} THEN ByText(posting, form[p].ad)
              ELSE {form[p].ad}
NotAwaited(p) == \A q \in Personas, x \in Ads :
    work[q].rows[x] # None => TextOf[form[p].ad] \notin TextsKept(q, x)

\* Commit, or 409 when the user has the posting already.
FinishForm(p) ==
    LET f == form[p] IN
    /\ f.ad # None
    /\ f.hit # None \/ NotAwaited(p)
    /\ \E x \in Targets(p) :
         IF link[<<p, x>>] # "none"
           THEN UNCHANGED <<pool, unlucky>>
           ELSE /\ x \notin work[p].links
                /\ link' = Linked(link, p, x, "manual")
                /\ IF posting[x] = None
                     THEN /\ posting' = [posting EXCEPT ![x] = Submitted(f.ad, f.at)]
                          /\ unlucky' = unlucky \cup Late({x}, f.at)
                     ELSE UNCHANGED <<posting, unlucky>>
    /\ form' = [form EXCEPT ![p] = NoForm]
    /\ UNCHANGED <<now, sched, work, failures, worker, preview, requests, seen, sighted>>

\* A database error or an error of the content check: 4xx or 5xx, rolled back.
FailForm(p) ==
    /\ form[p] # NoForm
    /\ failures < MaxFailures /\ failures' = failures + 1
    /\ form' = [form EXCEPT ![p] = NoForm]
    /\ UNCHANGED <<now, pool, sched, work, worker, preview, requests, history>>
=============================================================================
