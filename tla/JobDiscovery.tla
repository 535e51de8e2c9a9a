---------------------------- MODULE JobDiscovery ----------------------------
(***************************************************************************)
(* The two background workers, the submissions and the job pool together,  *)
(* in one process that may be restarted.                                   *)
(***************************************************************************)
EXTENDS PoolSurfacing

vars == <<now, pool, sched, work, failures, worker, forms, history>>

TypeOK == PoolTypeOK /\ SchedTypeOK /\ SurfacingTypeOK

Init == PoolInit /\ SchedInit /\ SurfacingInit

Tick ==
    /\ now < MaxTime /\ now' = now + 1
    /\ UNCHANGED <<pool, sched, work, failures, worker, forms, history>>

\* A poll's commit, with what the histories note of it.
Commit(p) ==
    /\ CommitPoll(p)
    /\ unlucky' = unlucky \cup Late({x \in Ads : posting[x] = None /\ posting'[x] # None}, work[p].at)
    /\ sighted' = sighted \cup {x \in Rows(posting) : posting[x].held /\ ~posting'[x].held}
    /\ UNCHANGED <<worker, forms, seen>>

\* A write waits for a row that the running pass has released.
Poll(p) ==
    \/ /\ \/ SkipPoll(p) \/ StartPoll(p) \/ Lookup(p) \/ Insert(p) \/ RecoverInsert(p) \/ BrokenPoll(p)
          \/ WriteExisting(p) /\ work[p].hit \notin pass.released
       /\ UNCHANGED <<worker, forms, history>>
    \/ Commit(p)

Schedule == SchedulerPass /\ UNCHANGED <<worker, forms, history>>
PollFails(p) == FailPoll(p) /\ UNCHANGED <<worker, forms, history>>

Surface == EmptyPass \/ StartPass \/ FinishPass

\* What is in memory is lost, open transactions are rolled back.
Restart ==
    /\ failures < MaxFailures /\ failures' = failures + 1
    /\ firstRun' = TRUE /\ pending' = {}
    /\ work' = [p \in Personas |-> Idle]
    /\ watermark' = None /\ pass' = NoPass
    /\ preview' = [p \in Personas |-> NoPreview]
    /\ form' = [p \in Personas |-> NoForm]
    /\ UNCHANGED <<now, pool, next, requests, history>>

Users(p) == Ingest(p) \/ Confirm(p) \/ Submit(p) \/ FinishForm(p) \/ FailForm(p)

Next ==
    \/ Tick \/ Schedule \/ Restart
    \/ \E p \in Personas : Poll(p) \/ PollFails(p)
    \/ (Surface \/ FailPass \/ \E p \in Personas : Users(p))

Spec == Init /\ [][Next]_vars

\* Both workers loop for as long as the process lives, and a poll that has been
\* started runs on.
Fairness == /\ WF_vars(Schedule \/ \E p \in Personas : Poll(p))
            /\ WF_vars(Surface)
FairSpec == Spec /\ Fairness
-----------------------------------------------------------------------------
(* Properties *)

\* The watermark never passes over a posting that is fit to be shown, except
\* for the reasons named: its transaction committed behind the watermark or
\* during a pass, the limit of a pass left it out, a pass read while it was in
\* quarantine, or it was older than the lookback of the first pass after a start.
NotPassedOver == \A x \in Rows(posting) :
    watermark # None /\ posting[x].at < watermark
        => x \in unlucky \cup seen

OverTime(x) == x \in Rows(posting) /\ posting[x].until <= now

\* The pool shows a submission to nobody before its time is over or a scouter
\* has met it: not through a pass that read it, a release that was undone, or a
\* poll that met it and was lost.  The sighting may be the submitter's own.
HeldForItsTime == \A p \in Personas, x \in Ads :
    link[<<p, x>>] = "pool" /\ KeyOf[x] = NoKey => OverTime(x) \/ x \in sighted

\* "A different user's Scouter finds the same job" (REQ-015:405), "another user's
\* Scouter" (content_security.py:239): until its time is over, a submission is shown
\* to others only once a persona has it that did not submit it but found it.
QuarantineHolds == \A p \in Personas, x \in Ads :
    link[<<p, x>>] = "pool" /\ KeyOf[x] = NoKey
        => OverTime(x) \/ \E q \in Personas : link[<<q, x>>] = "scouter"

\* The pool holds a job once: no two postings have the same text, or the same
\* source and external identifier, whichever of the polls and submissions that
\* met the job at the same time wrote it.
OneRowPerJob == \A x, y \in Rows(posting) : x # y =>
    posting[x].text # posting[y].text /\ (KeyOf[x] = NoKey \/ KeyOf[x] # KeyOf[y])

\* A poll that commits has linked its persona to everything its sources showed:
\* also to what another transaction created in the meantime.  The posting that
\* is linked had the key of the ad or its text, which step 1 of another sighting
\* may have rewritten since.
Commits(p) == work[p].open /\ ~work'[p].open /\ work[p].todo = {} /\ failures' = failures
Versions(x) == {b \in Ads : b = x \/ (KeyOf[x] # NoKey /\ KeyOf[b] = KeyOf[x])}
SameJob(x, a) == \E b \in Versions(x) : KeyOf[b] = KeyOf[a] \/ TextOf[b] = TextOf[a]
Covers(p, a) == \E x \in Rows(posting') : link'[<<p, x>>] # "none" /\ SameJob(x, a)
NothingDropped == \A p \in Personas : Commits(p) => \A a \in work[p].feed : Covers(p, a)
PollLinksAll == [][NothingDropped]_vars

\* An overdue persona with a source is polled, unless as many others as a pass
\* takes stand before it, whichever of these are refused, skipped, or polled and
\* due again.  Those that are refused or skipped keep their place for ever.
Ahead(p) == {q \in Personas \ {p} : Polled(q) /\ Overdue(q) /\ ~Before(p, q)}
OverdueIsPolled == \A p \in Enabled :
    (Polled(p) /\ Overdue(p) /\ Cardinality(Ahead(p)) < MaxDue) ~> work[p].open

\* A posting that can be shown, fits a persona and was not unlucky reaches it.
IsSurfaced == \A p \in Onboarded, x \in Ads : <<p, x>> \in Fits =>
    (posting[x] # None /\ ~posting[x].held) ~> (link[<<p, x>>] # "none" \/ x \in unlucky)
=============================================================================
