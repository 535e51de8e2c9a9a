--------------------------- MODULE PollScheduler ---------------------------
(***************************************************************************)
(* The poll scheduler and the poll of one persona.                         *)
(*                                                                         *)
(* A pass takes the personas that are due and polls them side by side.     *)
(* A poll is one transaction: it opens its session, fetches what its       *)
(* sources show, looks up and writes one ad after the other, moves the     *)
(* schedule on and commits.  Lookup and write are two steps, because an    *)
(* other transaction may commit in between; a write waits for a row, or    *)
(* for a value of a UNIQUE column, that an open transaction has written.   *)
(***************************************************************************)
EXTENDS JobPool

CONSTANTS
    Onboarded,      \* personas that have completed onboarding
    Enabled,        \* personas with an enabled source
    Feeds,          \* what the sources of each persona may show it
    Dated,          \* ads of which the source tells when they were posted
    FirstTimes,     \* what polling_configurations may hold for each persona at first
    Frequency,      \* personas.polling_frequency
    Null,           \* next_poll_at was never set
    HalfDay, Day, Week,
    Lookback,       \* how far the first pass, and a first surfacing, look back
    MaxPolls,       \* polls at the same time
    MaxDue,         \* personas in one pass
    MaxFailures     \* failures and restarts, at most

ASSUME FeedsAssumption == /\ Onboarded \subseteq Personas /\ Enabled \subseteq Personas
                          /\ Dated \subseteq Ads
                          /\ Feeds \in [Personas -> SUBSET SUBSET Ads]
                          /\ \A p \in Personas : \A f \in Feeds[p] : \A a \in f : KeyOf[a] # NoKey
ASSUME LimitsAssumption == /\ {HalfDay, Day, Week, MaxPolls, MaxDue} \subseteq Nat \ {0}
                           /\ HalfDay <= Week /\ Day <= Week
                           /\ Lookback \in Nat /\ MaxFailures \in Nat

VARIABLES
    next,           \* polling_configurations: next_poll_at, Null, or None for no row
    firstRun,       \* _last_run_at is None
    pending,        \* personas of the current pass that are still to be polled
    work,           \* the open transaction of each persona's poll
    failures

sched == <<next, firstRun, pending>>

Idle == [open |-> FALSE, at |-> 0, feed |-> {}, todo |-> {}, ad |-> None, step |-> "none", hit |-> None,
         rows |-> [x \in Ads |-> None], links |-> {}]

Transaction ==
    [open : BOOLEAN, at : 0..MaxTime, feed : SUBSET Ads, todo : SUBSET Ads, ad : Ads \cup {None},
     step : {"none", "update", "found", "repost", "create"}, hit : Ads \cup {None},
     rows : [Ads -> Posting \cup {None}], links : SUBSET Ads]

SchedTypeOK ==
    /\ next \in [Personas -> (0..(MaxTime + Week)) \cup {Null, None}]
    /\ firstRun \in BOOLEAN /\ pending \subseteq Personas
    /\ work \in [Personas -> Transaction]
    /\ \A p \in Personas : work[p].todo \subseteq work[p].feed
    /\ failures \in 0..MaxFailures

\* Rows of polling_configurations come from outside the program: a persona may
\* have none, one that was never used, or one that is due since long ago.
SchedInit ==
    /\ next \in [Personas -> {0, Null, None}] /\ \A p \in Personas : next[p] \in FirstTimes[p]
    /\ firstRun = TRUE /\ pending = {}
    /\ work = [p \in Personas |-> Idle]
    /\ failures = 0

-----------------------------------------------------------------------------
(* run_once and _get_due_personas *)

Overdue(p) == next[p] \notin {Null, None} /\ next[p] <= now

\* The first pass leaves out what is due for longer than the lookback, and it
\* is the only one that takes personas without a time.
Polled(p) == p \in Onboarded /\ Frequency[p] # "Manual Only"
DueAlwaysFirst(p) == /\ Polled(p)
                     /\ next[p] \in {Null, None} \/ (Overdue(p) /\ next[p] + Lookback >= now)
Due(p) ==
    /\ Polled(p)
    /\ IF firstRun
         THEN next[p] \in {Null, None} \/ (Overdue(p) /\ next[p] + Lookback >= now)
         ELSE Overdue(p)

\* ORDER BY next_poll_at ASC, which puts NULL last.
Before(p, q) == \/ next[p] \in Nat /\ next[q] \in {Null, None}
                \/ next[p] \in Nat /\ next[q] \in Nat /\ next[p] < next[q]

SchedulerPass ==
    /\ pending = {} /\ \A p \in Personas : ~work[p].open
    /\ \E batch \in SUBSET {p \in Personas : Due(p)} :
         /\ \/ batch = {p \in Personas : Due(p)} /\ Cardinality(batch) <= MaxDue
            \/ Cardinality(batch) = MaxDue
         /\ \A p \in batch, q \in Personas \ batch : Due(q) => ~Before(q, p)
         /\ pending' = batch
    /\ firstRun' = FALSE
    /\ UNCHANGED <<now, pool, next, work, failures>>

-----------------------------------------------------------------------------
(* execute_persona_poll *)

Running == {p \in Personas : work[p].open}

\* No enabled source: nothing is polled and the schedule stays as it is.
SkipPoll(p) ==
    /\ p \in pending \ Enabled
    /\ pending' = pending \ {p}
    /\ UNCHANGED <<now, pool, next, firstRun, work, failures>>

StartPoll(p) ==
    /\ p \in pending \cap Enabled /\ ~work[p].open
    /\ Cardinality(Running) < MaxPolls
    /\ \E feed \in Feeds[p] :
         work' = [work EXCEPT ![p] = [Idle EXCEPT !.open = TRUE, !.at = now, !.feed = feed, !.todo = feed]]
    /\ UNCHANGED <<now, pool, sched, failures>>

\* READ COMMITTED: the committed rows and the transaction's own.
View(p) == [x \in Ads |-> IF work[p].rows[x] = None THEN posting[x] ELSE work[p].rows[x]]

Lookup(p) ==
    /\ work[p].open /\ work[p].ad = None
    /\ LET view == View(p) IN
       \E a \in work[p].todo : \E x \in Hits(view, a) :
         work' = [work EXCEPT ![p] = [@ EXCEPT !.ad = a, !.step = Step(view, a), !.hit = x]]
    /\ UNCHANGED <<now, pool, sched, failures>>

\* Rows of the other open polls, which a write may have to wait for: for a row
\* that was written, and for its text, the new one and the one that a rollback
\* would bring back.
OthersRows(p) == {o \in (Personas \ {p}) \X Ads : work[o[1]].rows[o[2]] # None}
TextsKept(q, x) == {work[q].rows[x].text} \cup (IF posting[x] = None THEN {} ELSE {posting[x].text})
RowFree(p, x) == \A o \in OthersRows(p) : o[2] # x
TextFree(p, text) == \A o \in OthersRows(p) : text \notin TextsKept(o[1], o[2])
InsertFree(p, a) == TextFree(p, TextOf[a]) /\ \A o \in OthersRows(p) : KeyOf[o[2]] # KeyOf[a]

\* The ad in hand is done: its row, if it was written, and the persona's link.
Wrote(p, x, row) ==
    work' = [work EXCEPT ![p] = [work[p] EXCEPT !.rows[x] = row, !.links = @ \cup {x},
                                                !.todo = @ \ {work[p].ad},
                                                !.ad = None, !.step = "none", !.hit = None]]

\* A posting met again: step 1 rewrites what the source says, step 2 only notes
\* the other source; a scouter's sighting ends the quarantine.
Rewritten(p) == LET x == work[p].hit IN
    [View(p)[x] EXCEPT !.held = FALSE,
                       !.text = IF work[p].step = "update" THEN TextOf[work[p].ad] ELSE @]

\* Step 1 writes the date of the source as it got it, as text, into a column of
\* type DATE, which the driver refuses.  The other steps leave the date out, so
\* the column never holds what the ad says and every later sighting writes it.
DateRefused(p) == work[p].step = "update" /\ work[p].ad \in Dated

WriteExisting(p) ==
    LET x == work[p].hit IN
    /\ work[p].step \in {"update", "found"} /\ ~DateRefused(p)
    /\ RowFree(p, x) /\ TextFree(p, Rewritten(p).text)
    /\ \A y \in Rows(View(p)) \ {x} : View(p)[y].text # Rewritten(p).text
    /\ Wrote(p, x, Rewritten(p))
    /\ UNCHANGED <<now, pool, sched, failures>>

Insert(p) ==
    LET a == work[p].ad IN
    /\ work[p].step \in {"repost", "create"} /\ InsertFree(p, a)
    /\ Taken(View(p), a) = {}
    /\ Wrote(p, a, Found(a, work[p].at))
    /\ UNCHANGED <<now, pool, sched, failures>>

\* A concurrent transaction has created the posting since the lookup: the
\* savepoint of step 4 is rolled back and the row of the other is linked.
RecoverInsertDrops(p) ==
    LET a == work[p].ad IN
    /\ work[p].step = "create" /\ InsertFree(p, a) /\ Taken(View(p), a) # {}
    /\ work' = [work EXCEPT ![p] = [work[p] EXCEPT !.todo = @ \ {a}, !.ad = None, !.step = "none"]]
    /\ UNCHANGED <<now, pool, sched, failures>>
RecoverInsert(p) ==
    LET a == work[p].ad IN
    /\ work[p].step = "create" /\ InsertFree(p, a)
    /\ \E x \in Existing(View(p), a) : Wrote(p, x, work[p].rows[x])
    /\ UNCHANGED <<now, pool, sched, failures>>

\* After the intervals for "twice_daily", "daily" and "weekly", which are not
\* the names polling_frequency has: every persona gets the default interval.
NextPollAt(p) ==
    LET Intervals == [twice_daily |-> HalfDay, daily |-> Day, weekly |-> Week]
        f == Frequency[p] IN
    now + IF f \in DOMAIN Intervals THEN Intervals[f] ELSE Day

Published(p) ==
    /\ posting' = View(p)
    /\ link' = [s \in Personas \X Ads |->
                  IF s[1] = p /\ s[2] \in work[p].links /\ link[s] = "none" THEN "scouter" ELSE link[s]]

Close(p) == /\ work' = [work EXCEPT ![p] = Idle]
            /\ pending' = pending \ {p}

\* The row of polling_configurations is moved on only if there is one.
CommitPoll(p) ==
    /\ work[p].open /\ work[p].todo = {}
    /\ Published(p) /\ Close(p)
    /\ next' = IF next[p] = None THEN next ELSE [next EXCEPT ![p] = NextPollAt(p)]
    /\ UNCHANGED <<now, firstRun, failures>>

\* Outside a savepoint a refused write leaves the session unusable: the errors
\* of the later writes are swallowed, reading the schedule raises, all is lost.
BrokenPoll(p) ==
    LET a == work[p].ad IN
    /\ work[p].open /\ a # None
    /\ \/ DateRefused(p)
       \/ work[p].step = "repost" /\ InsertFree(p, a) /\ Taken(View(p), a) # {}
       \/ /\ work[p].step = "update" /\ RowFree(p, work[p].hit) /\ TextFree(p, TextOf[a])
          /\ \E y \in Rows(View(p)) \ {work[p].hit} : View(p)[y].text = TextOf[a]
    /\ Close(p)
    /\ UNCHANGED <<now, pool, next, firstRun, failures>>

\* A database error, a deadlock of two polls, or an error of the pipeline.
FailPoll(p) ==
    /\ work[p].open
    /\ failures < MaxFailures /\ failures' = failures + 1
    /\ Close(p)
    /\ UNCHANGED <<now, pool, next, firstRun>>
=============================================================================
