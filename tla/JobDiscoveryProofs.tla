------------------------- MODULE JobDiscoveryProofs -------------------------
(***************************************************************************)
(* Job discovery, for every number of personas, ads, polls and passes, and *)
(* every length of the clock.                                              *)
(*                                                                         *)
(* The properties speak of what is committed; the invariant that carries   *)
(* them follows the open polls.  A poll's own rows agree with the          *)
(* committed ones in what a commit must not change, no two polls have      *)
(* written the same row, and what the poll is done with is linked to a     *)
(* row it can see.  A running pass has accounted for every posting.        *)
(***************************************************************************)
EXTENDS JobDiscovery, TLAPS

-----------------------------------------------------------------------------
(* The inductive invariant *)

TextsOf(x) == {TextOf[b] : b \in Versions(x)}

\* The poll w sees a row of posting x, its own or a committed one.
Sees(w, x) == w.rows[x] # None \/ posting[x] # None

\* The ad in hand is still to be done, its sources gave all ads a key, and what
\* the lookup has found is a row that is still there and is the ad's.
PollOK(w) ==
    /\ w.todo \subseteq w.feed
    /\ \A a \in w.feed : KeyOf[a] # NoKey
    /\ w.ad # None => w.ad \in w.todo
    /\ w.step # "none" => w.ad # None
    /\ w.step \in {"update", "found"} => w.hit # None /\ Sees(w, w.hit) /\ SameJob(w.hit, w.ad)
    /\ w.step = "update" => KeyOf[w.hit] = KeyOf[w.ad]
    /\ \A a \in w.feed \ w.todo : \E x \in w.links : Sees(w, x) /\ SameJob(x, a)

\* A row a poll has written keeps the times of the committed row; a row it has
\* created has the time of the poll and a key.
RowOK(row, x, at) == row # None =>
    /\ posting[x] # None => row.at = posting[x].at /\ row.until = posting[x].until
    /\ posting[x] = None => row.at = at /\ KeyOf[x] # NoKey
    /\ row.text \in TextsOf(x)

Polls == \A p \in Personas : PollOK(work[p])
OpenRows == \A p \in Personas, x \in Ads : RowOK(work[p].rows[x], x, work[p].at)
Exclusive == \A p, q \in Personas, x \in Ads :
    work[p].rows[x] # None /\ work[q].rows[x] # None => p = q

\* The quarantine of a submission has had its time, or a scouter has ended it.
MayShow(x) == OverTime(x) \/ x \in sighted

PostingOK(x) ==
    /\ posting[x].text \in TextsOf(x)
    /\ KeyOf[x] = NoKey /\ ~posting[x].held => MayShow(x)
Postings == \A x \in Ads : posting[x] # None => PostingOK(x)

\* Only submissions by hand go through a preview or a form.
Forms == \A p \in Personas :
    /\ preview[p].ad # None => KeyOf[preview[p].ad] = NoKey
    /\ form[p].ad # None => KeyOf[form[p].ad] = NoKey
    /\ form[p].hit # None => posting[form[p].hit] # None

Accounted == pass.jobs \cup pass.left \cup unlucky \cup seen
Passes ==
    /\ \A x \in pass.released : posting[x] # None /\ OverTime(x)
    /\ \A x \in pass.jobs : KeyOf[x] = NoKey => MayShow(x)
    /\ pass.running => \A x \in Ads : posting[x] # None => x \in Accounted

IInv == /\ TypeOK /\ Polls /\ OpenRows /\ Exclusive /\ Postings /\ Forms /\ Passes
        /\ NotPassedOver /\ HeldForItsTime
-----------------------------------------------------------------------------
(* Facts about postings *)

LEMMA FoundIsPosting ==
    ASSUME NEW a \in Ads, NEW at \in 0..MaxTime
    PROVE  /\ Found(a, at) \in Posting /\ Found(a, at) # None
           /\ Found(a, at).at = at /\ Found(a, at).text \in TextsOf(a)
<1>1. Found(a, at) \in Posting
  BY TimeAssumption DEF Found, Posting, Texts
<1> QED BY <1>1, NoneAssumption DEF Found, TextsOf, Versions

LEMMA SubmittedIsPosting ==
    ASSUME NEW a \in Ads, NEW at \in 0..MaxTime, now \in 0..MaxTime
    PROVE  /\ Submitted(a, at) \in Posting /\ Submitted(a, at) # None
           /\ Submitted(a, at).at = at /\ Submitted(a, at).text \in TextsOf(a)
           /\ Submitted(a, at).held = TRUE
<1>1. Submitted(a, at) \in Posting
  BY TimeAssumption DEF Submitted, Posting, Texts
<1> QED BY <1>1, NoneAssumption DEF Submitted, TextsOf, Versions

\* A row that shows the text of an ad is a posting of the same job.
LEMMA TextMatches ==
    ASSUME NEW x \in Ads, NEW a \in Ads, TextOf[a] \in TextsOf(x)
    PROVE  SameJob(x, a)
  BY DEF TextsOf, SameJob, Versions

LEMMA KeyMatches ==
    ASSUME NEW x \in Ads, NEW a \in Ads, KeyOf[x] = KeyOf[a]
    PROVE  SameJob(x, a)
  BY DEF SameJob, Versions

LEMMA InitEstablishesIInv == Init => IInv
<1> SUFFICES ASSUME Init PROVE IInv
  OBVIOUS
<1> USE DEF Init, PoolInit, SchedInit, SurfacingInit
<1>1. PoolTypeOK
  BY TimeAssumption DEF PoolTypeOK
<1>2. Idle \in Transaction /\ Idle.todo \subseteq Idle.feed
  BY TimeAssumption DEF Idle, Transaction
<1>3. SchedTypeOK
  BY <1>2, TimeAssumption, LimitsAssumption DEF SchedTypeOK
<1>4. SurfacingTypeOK
  BY TimeAssumption, SurfacingAssumption DEF SurfacingTypeOK, NoPass, NoPreview, NoForm
<1>5. Polls /\ OpenRows /\ Exclusive
  BY DEF Polls, PollOK, OpenRows, RowOK, Exclusive, Idle
<1>6. Postings /\ Forms /\ Passes
  BY DEF Postings, Forms, Passes, NoPass, NoPreview, NoForm
<1>7. NotPassedOver /\ HeldForItsTime
  BY DEF NotPassedOver, HeldForItsTime
<1> QED BY <1>1, <1>3, <1>4, <1>5, <1>6, <1>7 DEF IInv, TypeOK

-----------------------------------------------------------------------------
(* Frames *)

LEMMA WorkFrame == ASSUME IInv, UNCHANGED <<work, posting>> PROVE (Polls /\ OpenRows /\ Exclusive)'
<1> USE DEF IInv
<1>1. Polls'
  BY DEF Polls, PollOK, Sees
<1>2. OpenRows'
  BY DEF OpenRows, RowOK
<1>3. Exclusive'
  BY DEF Exclusive
<1> QED BY <1>1, <1>2, <1>3

LEMMA PostingFrame == ASSUME IInv, UNCHANGED <<now, posting, sighted>> PROVE Postings'
  BY DEF IInv, Postings, PostingOK, MayShow, OverTime, Rows

LEMMA FormFrame == ASSUME IInv, UNCHANGED <<posting, preview, form>> PROVE Forms'
  BY DEF IInv, Forms

LEMMA PassFrame == ASSUME IInv, UNCHANGED <<now, posting, pass, history>> PROVE Passes'
  BY DEF IInv, Passes, MayShow, OverTime, Rows, Accounted, history

LEMMA OverFrame == ASSUME IInv, UNCHANGED <<posting, watermark, history>> PROVE NotPassedOver'
  BY DEF IInv, NotPassedOver, Rows, history

LEMMA HeldFrame == ASSUME IInv, UNCHANGED <<now, posting, link, sighted>> PROVE HeldForItsTime'
  BY DEF IInv, HeldForItsTime, OverTime, Rows

\* What may be shown may be shown from then on: the clock does not go back, and no
\* commit changes the end of a quarantine.
LEMMA OverTimeStays ==
    ASSUME IInv, NEW x \in Ads, OverTime(x), now' \in 0..MaxTime, now <= now',
           posting[x] # None => posting'[x] # None /\ posting'[x].until = posting[x].until
    PROVE  OverTime(x)'
<1>1. posting[x] \in Posting \cup {None} /\ now \in 0..MaxTime
  BY DEF IInv, TypeOK, PoolTypeOK
<1>2. posting[x] # None /\ posting[x].until <= now
  BY DEF OverTime, Rows
<1>3. posting[x].until \in 0..(MaxTime + QuarantineTime)
  BY <1>1, <1>2 DEF Posting
<1>4. posting'[x].until <= now'
  BY <1>1, <1>2, <1>3, TimeAssumption
<1> QED BY <1>2, <1>4 DEF OverTime, Rows

LEMMA MayShowStays ==
    ASSUME IInv, NEW x \in Ads, MayShow(x), now' \in 0..MaxTime, now <= now', sighted \subseteq sighted',
           posting[x] # None => posting'[x] # None /\ posting'[x].until = posting[x].until
    PROVE  MayShow(x)'
  BY OverTimeStays DEF MayShow

\* The clock of a step that is not a tick.
LEMMA SameTime == ASSUME IInv, now' = now PROVE now' \in 0..MaxTime /\ now <= now'
<1>1. now \in 0..MaxTime
  BY DEF IInv, TypeOK, PoolTypeOK
<1> QED BY <1>1

LEMMA PoolTypeFrame == ASSUME IInv, UNCHANGED <<now, posting, link>> PROVE PoolTypeOK'
  BY DEF IInv, TypeOK, PoolTypeOK

LEMMA SurfacingTypeFrame ==
    ASSUME IInv, UNCHANGED <<worker, forms, history>> PROVE SurfacingTypeOK'
  BY DEF IInv, TypeOK, SurfacingTypeOK, worker, forms, history

LEMMA SchedTypeFrame == ASSUME IInv, UNCHANGED <<sched, work, failures>> PROVE SchedTypeOK'
  BY DEF IInv, TypeOK, SchedTypeOK, sched

-----------------------------------------------------------------------------
(* A step of one poll that commits nothing *)

LEMMA PollStep ==
    ASSUME IInv, NEW p \in Personas, NEW w \in Transaction,
           work' = [work EXCEPT ![p] = w], posting' = posting,
           w.todo \subseteq w.feed, PollOK(w),
           \A x \in Ads : RowOK(w.rows[x], x, w.at),
           \A q \in Personas \ {p}, x \in Ads : w.rows[x] # None => work[q].rows[x] = None
    PROVE  /\ (Polls /\ OpenRows /\ Exclusive)'
           /\ work' \in [Personas -> Transaction]
           /\ \A q \in Personas : work'[q].todo \subseteq work'[q].feed
<1>1. work \in [Personas -> Transaction] /\ \A q \in Personas : work[q].todo \subseteq work[q].feed
  BY DEF IInv, TypeOK, SchedTypeOK
<1>2. work'[p] = w /\ \A q \in Personas \ {p} : work'[q] = work[q]
  BY <1>1
<1>3. Polls'
  <2>1. ASSUME NEW q \in Personas PROVE PollOK(work[q])'
    <3>1. PollOK(work'[q])
      BY <1>2 DEF IInv, Polls
    <3> QED BY <3>1 DEF PollOK, Sees
  <2> QED BY <2>1 DEF Polls
<1>4. OpenRows'
  BY <1>2 DEF IInv, OpenRows, RowOK
<1>5. Exclusive'
  BY <1>2 DEF IInv, Exclusive
<1> QED BY <1>1, <1>2, <1>3, <1>4, <1>5

LEMMA IdleIsOK ==
    /\ Idle \in Transaction /\ Idle.todo \subseteq Idle.feed /\ PollOK(Idle)
    /\ \A x \in Ads : Idle.rows[x] = None
<1>1. Idle \in Transaction
  BY TimeAssumption DEF Idle, Transaction
<1> QED BY <1>1 DEF Idle, PollOK

LEMMA CloseStep ==
    ASSUME IInv, NEW p \in Personas, Close(p), posting' = posting
    PROVE  /\ (Polls /\ OpenRows /\ Exclusive)'
           /\ work' \in [Personas -> Transaction]
           /\ \A q \in Personas : work'[q].todo \subseteq work'[q].feed
           /\ pending' \subseteq Personas
<1>1. \A x \in Ads : RowOK(Idle.rows[x], x, Idle.at)
  BY IdleIsOK DEF RowOK
<1>2. pending' \subseteq Personas
  BY DEF Close, IInv, TypeOK, SchedTypeOK
<1> QED BY <1>1, <1>2, IdleIsOK, PollStep DEF Close

\* What holds when a step of a poll leaves the pool and the workers alone.
LEMMA QuietStep ==
    ASSUME IInv, SchedTypeOK', (Polls /\ OpenRows /\ Exclusive)',
           UNCHANGED <<now, pool, worker, forms, history>>
    PROVE  IInv'
<1>1. TypeOK'
  BY PoolTypeFrame, SurfacingTypeFrame DEF TypeOK, pool
<1>2. Postings' /\ Forms' /\ Passes'
  BY PostingFrame, FormFrame, PassFrame DEF pool, forms, worker, history
<1>3. NotPassedOver' /\ HeldForItsTime'
  BY OverFrame, HeldFrame DEF pool, worker, history
<1> QED BY <1>1, <1>2, <1>3 DEF IInv

LEMMA StartPollKeepsIInv ==
    ASSUME IInv, NEW p \in Personas, StartPoll(p), UNCHANGED <<worker, forms, history>>
    PROVE  IInv'
<1>1. PICK feed \in Feeds[p] :
         work' = [work EXCEPT ![p] = [Idle EXCEPT !.open = TRUE, !.at = now, !.feed = feed, !.todo = feed]]
  BY DEF StartPoll
<1>2. feed \subseteq Ads /\ \A a \in feed : KeyOf[a] # NoKey
  BY FeedsAssumption
<1>3. now \in 0..MaxTime
  BY DEF IInv, TypeOK, PoolTypeOK
<1> DEFINE w == [Idle EXCEPT !.open = TRUE, !.at = now, !.feed = feed, !.todo = feed]
<1>4. /\ w \in Transaction /\ w.todo = feed /\ w.feed = feed
      /\ w.ad = None /\ w.step = "none" /\ \A x \in Ads : w.rows[x] = None
  BY <1>2, <1>3 DEF Idle, Transaction
<1>5. work' = [work EXCEPT ![p] = w]
  BY <1>1
<1> HIDE DEF w
<1>6. PollOK(w)
  BY <1>2, <1>4 DEF PollOK
<1>7. \A x \in Ads : RowOK(w.rows[x], x, w.at)
  BY <1>4 DEF RowOK
<1>8. /\ (Polls /\ OpenRows /\ Exclusive)'
      /\ work' \in [Personas -> Transaction]
      /\ \A q \in Personas : work'[q].todo \subseteq work'[q].feed
  BY <1>4, <1>5, <1>6, <1>7, PollStep DEF StartPoll, pool
<1>9. SchedTypeOK'
  BY <1>8 DEF StartPoll, sched, SchedTypeOK, IInv, TypeOK
<1> QED BY <1>8, <1>9, QuietStep DEF StartPoll

LEMMA ViewFacts ==
    ASSUME IInv, NEW p \in Personas, NEW x \in Ads
    PROVE  /\ View(p)[x] \in Posting \cup {None}
           /\ x \in Rows(View(p)) <=> Sees(work[p], x)
           /\ View(p)[x] # None => View(p)[x].text \in TextsOf(x)
<1>1. work[p] \in Transaction /\ posting[x] \in Posting \cup {None}
  BY DEF IInv, TypeOK, SchedTypeOK, PoolTypeOK
<1>2. work[p].rows[x] \in Posting \cup {None}
  BY <1>1 DEF Transaction
<1>3. View(p)[x] = IF work[p].rows[x] = None THEN posting[x] ELSE work[p].rows[x]
  BY DEF View
<1>4. View(p)[x] # None => View(p)[x].text \in TextsOf(x)
  BY <1>3 DEF IInv, OpenRows, RowOK, Postings, PostingOK
<1> QED BY <1>1, <1>2, <1>3, <1>4 DEF Sees, Rows

\* What the lookup of an ad hits is a posting of the ad.
LEMMA HitsMatch ==
    ASSUME IInv, NEW p \in Personas, NEW a \in Ads, NEW x \in Hits(View(p), a)
    PROVE  /\ x \in Ads \cup {None}
           /\ Step(View(p), a) \in {"update", "found", "repost", "create"}
           /\ Step(View(p), a) \in {"update", "found"} =>
                x \in Ads /\ Sees(work[p], x) /\ SameJob(x, a)
           /\ Step(View(p), a) = "update" => KeyOf[x] = KeyOf[a]
<1> DEFINE view == View(p)
<1>1. \/ Step(view, a) = "update" /\ x \in ByKey(view, a)
      \/ Step(view, a) = "found" /\ x \in ByText(view, a)
      \/ Step(view, a) \in {"repost", "create"} /\ x = None
  BY DEF Step, Hits
<1> HIDE DEF view
<1>2. \A y \in ByKey(view, a) : y \in Rows(view) /\ KeyOf[y] = KeyOf[a]
  BY DEF ByKey
<1>3. \A y \in ByText(view, a) : y \in Rows(view) /\ view[y].text = TextOf[a]
  BY DEF ByText
<1>4. \A y \in Rows(view) : y \in Ads /\ view[y] # None
  BY DEF Rows
<1>5. CASE Step(view, a) = "update" /\ x \in ByKey(view, a)
  BY <1>2, <1>4, <1>5, KeyMatches, ViewFacts DEF view
<1>6. CASE Step(view, a) = "found" /\ x \in ByText(view, a)
  BY <1>3, <1>4, <1>6, TextMatches, ViewFacts DEF view
<1>7. CASE Step(view, a) \in {"repost", "create"} /\ x = None
  BY <1>7 DEF view
<1> QED BY <1>1, <1>5, <1>6, <1>7 DEF view

LEMMA LookupKeepsIInv ==
    ASSUME IInv, NEW p \in Personas, Lookup(p), UNCHANGED <<worker, forms, history>>
    PROVE  IInv'
<1>0. PICK a \in work[p].todo : \E x \in Hits(View(p), a) :
         work' = [work EXCEPT ![p] = [@ EXCEPT !.ad = a, !.step = Step(View(p), a), !.hit = x]]
  BY DEF Lookup
<1>1. PICK x \in Hits(View(p), a) :
         work' = [work EXCEPT ![p] = [@ EXCEPT !.ad = a, !.step = Step(View(p), a), !.hit = x]]
  BY <1>0
<1>2. work[p] \in Transaction /\ work[p].todo \subseteq work[p].feed /\ PollOK(work[p])
  BY DEF IInv, TypeOK, SchedTypeOK, Polls
<1>3. a \in Ads
  BY <1>2 DEF Transaction
<1>4. /\ x \in Ads \cup {None}
      /\ Step(View(p), a) \in {"update", "found", "repost", "create"}
      /\ Step(View(p), a) \in {"update", "found"} =>
           x \in Ads /\ Sees(work[p], x) /\ SameJob(x, a)
      /\ Step(View(p), a) = "update" => KeyOf[x] = KeyOf[a]
  BY <1>3, HitsMatch
<1> DEFINE step == Step(View(p), a)
           w == [work[p] EXCEPT !.ad = a, !.step = step, !.hit = x]
<1>5. work' = [work EXCEPT ![p] = w]
  BY <1>1, <1>2 DEF IInv, TypeOK, SchedTypeOK
<1>6. step \in {"none", "update", "found", "repost", "create"}
  BY <1>4
<1> HIDE DEF step
<1>7. /\ w \in Transaction /\ w.ad = a /\ w.step = step /\ w.hit = x
      /\ w.at = work[p].at /\ w.feed = work[p].feed /\ w.todo = work[p].todo
      /\ w.rows = work[p].rows /\ w.links = work[p].links
  BY <1>2, <1>3, <1>4, <1>6 DEF Transaction
<1> HIDE DEF w
<1>8. None \notin Ads
  BY AdsAssumption
<1>9. PollOK(w)
  <2>1. \A y \in Ads : Sees(w, y) <=> Sees(work[p], y)
    BY <1>7 DEF Sees
  <2>2. /\ step \in {"update", "found"} => w.hit # None /\ Sees(w, w.hit) /\ SameJob(w.hit, w.ad)
        /\ step = "update" => KeyOf[w.hit] = KeyOf[w.ad]
    BY <1>4, <1>7, <1>8, <2>1 DEF step
  <2>3. \A b \in w.feed \ w.todo : \E y \in w.links : Sees(w, y) /\ SameJob(y, b)
    BY <1>2, <1>7, <2>1 DEF PollOK, Transaction
  <2> QED BY <1>0, <1>2, <1>3, <1>7, <1>8, <2>2, <2>3 DEF PollOK
<1>10. \A y \in Ads : RowOK(w.rows[y], y, w.at)
  BY <1>7 DEF IInv, OpenRows
<1>11. \A q \in Personas \ {p}, y \in Ads : w.rows[y] # None => work[q].rows[y] = None
  BY <1>7 DEF IInv, Exclusive
<1>12. /\ (Polls /\ OpenRows /\ Exclusive)'
       /\ work' \in [Personas -> Transaction]
       /\ \A q \in Personas : work'[q].todo \subseteq work'[q].feed
  BY <1>2, <1>5, <1>7, <1>9, <1>10, <1>11, PollStep DEF Lookup, pool
<1>13. SchedTypeOK'
  BY <1>12 DEF Lookup, sched, SchedTypeOK, IInv, TypeOK
<1> QED BY <1>12, <1>13, QuietStep DEF Lookup

\* The ad in hand is linked to x, with x's row as the poll leaves it.
LEMMA WroteKeepsIInv ==
    ASSUME IInv, NEW p \in Personas, NEW x \in Ads, NEW row \in Posting \cup {None},
           Wrote(p, x, row), work[p].step # "none",
           SameJob(x, work[p].ad),
           row = None => Sees(work[p], x) /\ work[p].rows[x] = None,
           RowOK(row, x, work[p].at),
           row # None => \A q \in Personas \ {p} : work[q].rows[x] = None,
           UNCHANGED <<now, pool, sched, failures, worker, forms, history>>
    PROVE  IInv'
<1> DEFINE a == work[p].ad
           w == [work[p] EXCEPT !.rows[x] = row, !.links = @ \cup {x}, !.todo = @ \ {a},
                                !.ad = None, !.step = "none", !.hit = None]
<1>1. /\ work \in [Personas -> Transaction] /\ work[p] \in Transaction
      /\ work[p].todo \subseteq work[p].feed /\ PollOK(work[p])
  BY DEF IInv, TypeOK, SchedTypeOK, Polls
<1>2. work' = [work EXCEPT ![p] = w]
  BY <1>1 DEF Wrote
<1>3. /\ w \in Transaction /\ w.at = work[p].at /\ w.feed = work[p].feed
      /\ w.ad = None /\ w.step = "none"
      /\ w.todo = work[p].todo \ {a} /\ w.links = work[p].links \cup {x}
      /\ w.rows = [work[p].rows EXCEPT ![x] = row]
  BY <1>1 DEF Transaction
<1> HIDE DEF w
<1>4. work[p].rows \in [Ads -> Posting \cup {None}] /\ work[p].links \subseteq Ads
  BY <1>1 DEF Transaction
<1>5. w.rows[x] = row /\ \A y \in Ads \ {x} : w.rows[y] = work[p].rows[y]
  BY <1>3, <1>4
<1>6. \A y \in Ads : Sees(work[p], y) => Sees(w, y)
  BY <1>5 DEF Sees
<1>7. Sees(w, x)
  BY <1>5, <1>6 DEF Sees
<1>8. \A b \in w.feed \ w.todo : \E y \in w.links : Sees(w, y) /\ SameJob(y, b)
  BY <1>1, <1>3, <1>4, <1>6, <1>7 DEF PollOK
<1>9. PollOK(w)
  BY <1>1, <1>3, <1>8 DEF PollOK
<1>10. \A y \in Ads : RowOK(w.rows[y], y, w.at)
  BY <1>3, <1>5 DEF IInv, OpenRows
<1>11. \A q \in Personas \ {p}, y \in Ads : w.rows[y] # None => work[q].rows[y] = None
  BY <1>5 DEF IInv, Exclusive
<1>12. /\ (Polls /\ OpenRows /\ Exclusive)'
       /\ work' \in [Personas -> Transaction]
       /\ \A q \in Personas : work'[q].todo \subseteq work'[q].feed
  BY <1>1, <1>2, <1>3, <1>9, <1>10, <1>11, PollStep DEF pool
<1>13. SchedTypeOK'
  BY <1>12 DEF sched, SchedTypeOK, IInv, TypeOK
<1> QED BY <1>12, <1>13, QuietStep

\* What a poll has in hand when it writes.
LEMMA InHand ==
    ASSUME IInv, NEW p \in Personas, work[p].step # "none"
    PROVE  /\ work[p].ad \in Ads /\ KeyOf[work[p].ad] # NoKey
           /\ work[p].at \in 0..MaxTime
           /\ work[p].step \in {"update", "found"} =>
                /\ work[p].hit \in Ads /\ Sees(work[p], work[p].hit)
                /\ SameJob(work[p].hit, work[p].ad)
           /\ work[p].step = "update" => KeyOf[work[p].hit] = KeyOf[work[p].ad]
<1>1. work[p] \in Transaction /\ work[p].todo \subseteq work[p].feed /\ PollOK(work[p])
  BY DEF IInv, TypeOK, SchedTypeOK, Polls
<1>2. work[p].ad \in work[p].feed /\ work[p].ad # None
  BY <1>1 DEF PollOK
<1> QED BY <1>1, <1>2 DEF PollOK, Transaction

LEMMA InsertKeepsIInv ==
    ASSUME IInv, NEW p \in Personas, Insert(p), UNCHANGED <<worker, forms, history>>
    PROVE  IInv'
<1> DEFINE a == work[p].ad
<1>1. /\ work[p].step # "none" /\ InsertFree(p, a) /\ Taken(View(p), a) = {}
      /\ Wrote(p, a, Found(a, work[p].at))
      /\ UNCHANGED <<now, pool, sched, failures, worker, forms, history>>
  BY DEF Insert
<1>2. a \in Ads /\ KeyOf[a] # NoKey /\ work[p].at \in 0..MaxTime
  BY <1>1, InHand
<1>3. /\ Found(a, work[p].at) \in Posting
      /\ Found(a, work[p].at).at = work[p].at /\ Found(a, work[p].at).text \in TextsOf(a)
  BY <1>2, FoundIsPosting
<1>4. ~Sees(work[p], a)
  <2>1. a \notin Rows(View(p))
    BY <1>1, <1>2 DEF Taken, ByKey
  <2> QED BY <1>2, <2>1, ViewFacts
<1>5. posting[a] = None
  BY <1>4 DEF Sees
<1>6. \A q \in Personas \ {p} : work[q].rows[a] = None
  <2>1. ASSUME NEW q \in Personas \ {p}, work[q].rows[a] # None PROVE FALSE
    <3>1. <<q, a>> \in OthersRows(p)
      BY <1>2, <2>1 DEF OthersRows
    <3> QED BY <1>1, <3>1 DEF InsertFree
  <2> QED BY <2>1
<1>7. SameJob(a, a)
  BY <1>2, KeyMatches
<1>8. RowOK(Found(a, work[p].at), a, work[p].at)
  BY <1>2, <1>3, <1>5 DEF RowOK
<1>9. Found(a, work[p].at) # None
  BY <1>3, NoneAssumption
<1> QED BY <1>1, <1>2, <1>3, <1>6, <1>7, <1>8, <1>9, WroteKeepsIInv

LEMMA RecoverInsertKeepsIInv ==
    ASSUME IInv, NEW p \in Personas, RecoverInsert(p), UNCHANGED <<worker, forms, history>>
    PROVE  IInv'
<1> DEFINE a == work[p].ad
<1>1. PICK x \in Existing(View(p), a) : Wrote(p, x, work[p].rows[x])
  BY DEF RecoverInsert
<1>2. a \in Ads
  BY InHand DEF RecoverInsert
<1>3. x \in Rows(View(p)) /\ (KeyOf[x] = KeyOf[a] \/ View(p)[x].text = TextOf[a])
  BY <1>1 DEF Existing, ByKey, ByText
<1>4. x \in Ads /\ View(p)[x] # None
  BY <1>3 DEF Rows
<1>5. SameJob(x, a)
  BY <1>2, <1>3, <1>4, ViewFacts, KeyMatches, TextMatches
<1>6. Sees(work[p], x)
  BY <1>3, <1>4, ViewFacts
<1>7. work[p].rows[x] \in Posting \cup {None}
  BY <1>4 DEF IInv, TypeOK, SchedTypeOK, Transaction
<1>8. RowOK(work[p].rows[x], x, work[p].at)
  BY <1>4 DEF IInv, OpenRows
<1>9. work[p].rows[x] # None => \A q \in Personas \ {p} : work[q].rows[x] = None
  BY <1>4 DEF IInv, Exclusive
<1> QED BY <1>1, <1>4, <1>5, <1>6, <1>7, <1>8, <1>9, WroteKeepsIInv DEF RecoverInsert

LEMMA RewrittenIsOK ==
    ASSUME IInv, NEW p \in Personas, work[p].step \in {"update", "found"}
    PROVE  /\ Rewritten(p) \in Posting /\ Rewritten(p) # None
           /\ RowOK(Rewritten(p), work[p].hit, work[p].at)
<1> DEFINE x == work[p].hit
           a == work[p].ad
           old == View(p)[x]
<1>1. x \in Ads /\ a \in Ads /\ Sees(work[p], x)
  BY InHand
<1>2. old \in Posting /\ old.text \in TextsOf(x)
  BY <1>1, ViewFacts DEF Rows
<1>3. work[p].step = "update" => TextOf[a] \in TextsOf(x)
  <2>1. work[p].step = "update" => KeyOf[x] = KeyOf[a] /\ KeyOf[a] # NoKey
    BY InHand
  <2> QED BY <1>1, <2>1 DEF TextsOf, Versions
<1>4. TextOf[a] \in Texts
  BY <1>1 DEF Texts
<1>5. old.at \in 0..MaxTime /\ old.text \in Texts /\ old.until \in 0..(MaxTime + QuarantineTime)
  BY <1>2 DEF Posting
<1>6. /\ Rewritten(p).at = old.at /\ Rewritten(p).until = old.until /\ Rewritten(p) \in Posting
      /\ Rewritten(p).text = IF work[p].step = "update" THEN TextOf[a] ELSE old.text
  BY <1>2, <1>4 DEF Rewritten, Posting
<1>7. posting[x] # None => old.at = posting[x].at /\ old.until = posting[x].until
  BY <1>1 DEF View, IInv, OpenRows, RowOK
<1>8. posting[x] = None => old.at = work[p].at /\ KeyOf[x] # NoKey
  BY <1>1 DEF View, Sees, IInv, OpenRows, RowOK
<1>9. RowOK(Rewritten(p), x, work[p].at)
  BY <1>2, <1>3, <1>6, <1>7, <1>8 DEF RowOK
<1> QED BY <1>6, <1>9, NoneAssumption

LEMMA WriteExistingKeepsIInv ==
    ASSUME IInv, NEW p \in Personas, WriteExisting(p), UNCHANGED <<worker, forms, history>>
    PROVE  IInv'
<1> DEFINE x == work[p].hit
<1>1. /\ work[p].step \in {"update", "found"} /\ RowFree(p, x)
      /\ Wrote(p, x, Rewritten(p))
      /\ UNCHANGED <<now, pool, sched, failures, worker, forms, history>>
  BY DEF WriteExisting
<1>2. x \in Ads /\ SameJob(x, work[p].ad)
  BY <1>1, InHand
<1>3. /\ Rewritten(p) \in Posting /\ Rewritten(p) # None
      /\ RowOK(Rewritten(p), x, work[p].at)
  BY <1>1, RewrittenIsOK
<1>4. \A q \in Personas \ {p} : work[q].rows[x] = None
  <2>1. ASSUME NEW q \in Personas \ {p}, work[q].rows[x] # None PROVE FALSE
    <3>1. <<q, x>> \in OthersRows(p)
      BY <1>2, <2>1 DEF OthersRows
    <3> QED BY <1>1, <3>1 DEF RowFree
  <2> QED BY <2>1
<1> QED BY <1>1, <1>2, <1>3, <1>4, WroteKeepsIInv

\* A poll that ends without a commit leaves nothing behind.
LEMMA EndedPollKeepsIInv ==
    ASSUME IInv, NEW p \in Personas, Close(p), failures' \in 0..MaxFailures,
           UNCHANGED <<now, pool, next, firstRun, worker, forms, history>>
    PROVE  IInv'
<1>1. /\ (Polls /\ OpenRows /\ Exclusive)'
      /\ work' \in [Personas -> Transaction]
      /\ \A q \in Personas : work'[q].todo \subseteq work'[q].feed
      /\ pending' \subseteq Personas
  BY CloseStep DEF pool
<1>2. SchedTypeOK'
  BY <1>1 DEF IInv, TypeOK, SchedTypeOK
<1> QED BY <1>1, <1>2, QuietStep

LEMMA BrokenPollKeepsIInv ==
    ASSUME IInv, NEW p \in Personas, BrokenPoll(p), UNCHANGED <<worker, forms, history>>
    PROVE  IInv'
<1>1. failures' \in 0..MaxFailures
  BY DEF BrokenPoll, IInv, TypeOK, SchedTypeOK
<1> QED BY <1>1, EndedPollKeepsIInv DEF BrokenPoll

\* One failure more.
LEMMA Failures ==
    ASSUME IInv, failures < MaxFailures, failures' = failures + 1
    PROVE  failures' \in 0..MaxFailures
  BY LimitsAssumption DEF IInv, TypeOK, SchedTypeOK

LEMMA FailPollKeepsIInv ==
    ASSUME IInv, NEW p \in Personas, FailPoll(p), UNCHANGED <<worker, forms, history>>
    PROVE  IInv'
  BY EndedPollKeepsIInv, Failures DEF FailPoll

LEMMA SkipPollKeepsIInv ==
    ASSUME IInv, NEW p \in Personas, SkipPoll(p), UNCHANGED <<worker, forms, history>>
    PROVE  IInv'
<1>1. SchedTypeOK'
  BY DEF SkipPoll, IInv, TypeOK, SchedTypeOK
<1> QED BY <1>1, WorkFrame, QuietStep DEF SkipPoll, pool

LEMMA ScheduleKeepsIInv == ASSUME IInv, Schedule PROVE IInv'
<1>1. SchedTypeOK'
  BY DEF Schedule, SchedulerPass, IInv, TypeOK, SchedTypeOK
<1> QED BY <1>1, WorkFrame, QuietStep DEF Schedule, SchedulerPass, pool

-----------------------------------------------------------------------------
(* The commit of a poll *)

LEMMA NextPollAtType ==
    ASSUME IInv, NEW p \in Personas
    PROVE  NextPollAt(p) \in 0..(MaxTime + Week)
<1> DEFINE Intervals == [twice_daily |-> HalfDay, daily |-> Day, weekly |-> Week]
           f == Frequency[p]
           interval == IF f \in DOMAIN Intervals THEN Intervals[f] ELSE Day
<1>1. /\ HalfDay \in Nat /\ Day \in Nat /\ Week \in Nat
      /\ HalfDay <= Week /\ Day <= Week
  BY LimitsAssumption
<1>2. interval \in {HalfDay, Day, Week}
  OBVIOUS
<1>3. NextPollAt(p) = now + interval
  BY DEF NextPollAt
<1>4. now \in 0..MaxTime
  BY DEF IInv, TypeOK, PoolTypeOK
<1> HIDE DEF interval
<1> QED BY <1>1, <1>2, <1>3, <1>4, TimeAssumption

\* What the commit makes of a posting.
LEMMA PublishedRow ==
    ASSUME IInv, NEW p \in Personas, Published(p), NEW x \in Ads
    PROVE  /\ posting'[x] \in Posting \cup {None}
           /\ posting[x] # None =>
                posting'[x] # None /\ posting'[x].at = posting[x].at /\ posting'[x].until = posting[x].until
           /\ posting'[x] # None => posting'[x].text \in TextsOf(x)
           /\ posting[x] = None /\ posting'[x] # None =>
                posting'[x].at = work[p].at /\ KeyOf[x] # NoKey
           /\ work[p].rows[x] = None => posting'[x] = posting[x]
<1>1. posting'[x] = IF work[p].rows[x] = None THEN posting[x] ELSE work[p].rows[x]
  BY DEF Published, View
<1>2. posting'[x] \in Posting \cup {None} /\ (posting'[x] # None => posting'[x].text \in TextsOf(x))
  BY ViewFacts DEF Published
<1>3. RowOK(work[p].rows[x], x, work[p].at)
  BY DEF IInv, OpenRows
<1> QED BY <1>1, <1>2, <1>3 DEF RowOK

\* The other polls have not written the rows this one commits.
LEMMA PublishedKeepsPolls ==
    ASSUME IInv, NEW p \in Personas, Published(p), Close(p)
    PROVE  /\ (Polls /\ OpenRows /\ Exclusive)'
           /\ work' \in [Personas -> Transaction]
           /\ \A q \in Personas : work'[q].todo \subseteq work'[q].feed
           /\ pending' \subseteq Personas
<1>1. /\ work \in [Personas -> Transaction] /\ pending \subseteq Personas
      /\ \A q \in Personas : work[q].todo \subseteq work[q].feed
  BY DEF IInv, TypeOK, SchedTypeOK
<1>2. /\ work'[p] = Idle /\ \A q \in Personas \ {p} : work'[q] = work[q]
      /\ work' \in [Personas -> Transaction]
  BY <1>1, IdleIsOK DEF Close
<1>3. Polls'
  <2>1. PollOK(work[p])'
    BY <1>2 DEF PollOK, Idle
  <2>2. ASSUME NEW q \in Personas \ {p} PROVE PollOK(work[q])'
    <3>1. work'[q] = work[q] /\ work[q] \in Transaction /\ PollOK(work[q])
      BY <1>1, <1>2 DEF IInv, Polls
    <3>2. \A x \in Ads : Sees(work[q], x) => Sees(work[q], x)'
      BY <3>1, PublishedRow DEF Sees
    <3>3. work[q].links \subseteq Ads /\ work[q].hit \in Ads \cup {None}
      BY <3>1 DEF Transaction
    <3> QED BY <3>1, <3>2, <3>3 DEF PollOK
  <2> QED BY <2>1, <2>2 DEF Polls
<1>4. OpenRows'
  <2>1. ASSUME NEW q \in Personas, NEW x \in Ads PROVE RowOK(work[q].rows[x], x, work[q].at)'
    <3>1. CASE q = p
      BY <1>2, <3>1, IdleIsOK DEF RowOK
    <3>2. CASE q # p /\ work[q].rows[x] # None
      <4>1. posting'[x] = posting[x]
        BY <3>2, PublishedRow DEF IInv, Exclusive
      <4> QED BY <1>2, <3>2, <4>1 DEF IInv, OpenRows, RowOK
    <3>3. CASE q # p /\ work[q].rows[x] = None
      BY <1>2, <3>3 DEF RowOK
    <3> QED BY <3>1, <3>2, <3>3
  <2> QED BY <2>1 DEF OpenRows
<1>5. Exclusive'
  BY <1>2, IdleIsOK DEF IInv, Exclusive
<1> QED BY IdleIsOK, <1>1, <1>2, <1>3, <1>4, <1>5 DEF Close

LEMMA CommitKeepsIInv == ASSUME IInv, NEW p \in Personas, Commit(p) PROVE IInv'
<1>1. /\ CommitPoll(p) /\ Published(p) /\ Close(p)
      /\ UNCHANGED <<now, firstRun, failures, worker, forms, seen>>
  BY DEF Commit, CommitPoll
<1> DEFINE new == {x \in Ads : posting[x] = None /\ posting'[x] # None}
<1>2. unlucky' = unlucky \cup Late(new, work[p].at)
  BY DEF Commit
<1>3. Late(new, work[p].at) \subseteq new
  BY DEF Late
<1>4. \A x \in Ads : posting[x] # None /\ posting[x].held /\ posting'[x] # None /\ ~posting'[x].held
                       => x \in sighted'
  BY DEF Commit, Rows
<1>5. sighted \subseteq sighted' /\ sighted' \subseteq Ads
  BY DEF Commit, Rows, IInv, TypeOK, SurfacingTypeOK
<1>0. \A x \in Ads : (OverTime(x) => OverTime(x)') /\ (MayShow(x) => MayShow(x)')
  BY <1>1, <1>5, PublishedRow, SameTime, OverTimeStays, MayShowStays
<1>6. PoolTypeOK'
  <2>1. posting' \in [Ads -> Posting \cup {None}]
    <3>1. posting' = [x \in Ads |-> posting'[x]]
      BY <1>1 DEF Published, View
    <3> QED BY <1>1, <3>1, PublishedRow
  <2>2. link' \in [Personas \X Ads -> Methods \cup {"none"}]
    BY <1>1 DEF Published, IInv, TypeOK, PoolTypeOK, Methods
  <2> QED BY <1>1, <2>1, <2>2 DEF IInv, TypeOK, PoolTypeOK
<1>7. /\ (Polls /\ OpenRows /\ Exclusive)'
      /\ work' \in [Personas -> Transaction]
      /\ \A q \in Personas : work'[q].todo \subseteq work'[q].feed
      /\ pending' \subseteq Personas
  BY <1>1, PublishedKeepsPolls
<1>8. SchedTypeOK'
  <2>1. next' \in [Personas -> (0..(MaxTime + Week)) \cup {Null, None}]
    BY <1>1, NextPollAtType DEF CommitPoll, IInv, TypeOK, SchedTypeOK
  <2> QED BY <1>1, <1>7, <2>1 DEF IInv, TypeOK, SchedTypeOK
<1>9. SurfacingTypeOK'
  BY <1>1, <1>2, <1>3, <1>5 DEF worker, forms, IInv, TypeOK, SurfacingTypeOK
<1>10. Postings'
  <2>1. ASSUME NEW x \in Ads, posting'[x] # None PROVE PostingOK(x)'
    <3>1. posting'[x].text \in TextsOf(x)
      BY <1>1, <2>1, PublishedRow
    <3>2. KeyOf[x] = NoKey /\ ~posting'[x].held => MayShow(x)'
      <4>1. KeyOf[x] = NoKey => posting[x] # None
        BY <1>1, <2>1, PublishedRow
      <4>2. CASE posting[x].held
        BY <1>4, <2>1, <4>1, <4>2 DEF MayShow
      <4>3. CASE ~posting[x].held
        BY <1>0, <4>1, <4>3 DEF IInv, Postings, PostingOK
      <4> QED BY <4>2, <4>3
    <3> QED BY <3>1, <3>2 DEF PostingOK
  <2> QED BY <2>1 DEF Postings
<1>11. Forms'
  <2>1. \A q \in Personas : form[q].hit \in Ads \cup {None}
    BY DEF IInv, TypeOK, SurfacingTypeOK
  <2> QED BY <1>1, <2>1, PublishedRow DEF forms, IInv, Forms
<1>12. Passes'
  <2>1. pass.released \subseteq Ads /\ pass.jobs \subseteq Ads /\ pass' = pass /\ seen' = seen
    BY <1>1 DEF worker, IInv, TypeOK, SurfacingTypeOK
  <2>2. pass.running => \A x \in Ads : posting'[x] # None => x \in Accounted'
    <3>1. pass.running => Late(new, work[p].at) = new
      BY DEF Late
    <3> QED BY <1>2, <2>1, <3>1 DEF IInv, Passes, Accounted
  <2> QED BY <1>0, <1>1, <2>1, <2>2, PublishedRow DEF IInv, Passes
<1>13. NotPassedOver'
  <2>1. ASSUME NEW x \in Ads, posting'[x] # None, watermark # None, posting'[x].at < watermark
        PROVE  x \in unlucky' \cup seen
    <3>1. CASE posting[x] # None
      BY <1>1, <1>2, <2>1, <3>1, PublishedRow DEF IInv, NotPassedOver, Rows
    <3>2. CASE posting[x] = None
      <4>1. work[p].at < watermark /\ x \in new
        BY <1>1, <2>1, <3>2, PublishedRow
      <4> QED BY <1>2, <2>1, <4>1 DEF Late
    <3> QED BY <3>1, <3>2
  <2> QED BY <1>1, <2>1 DEF NotPassedOver, Rows, worker
<1>14. HeldForItsTime'
  BY <1>0, <1>1 DEF Published, IInv, HeldForItsTime, MayShow
<1> QED BY <1>6, <1>7, <1>8, <1>9, <1>10, <1>11, <1>12, <1>13, <1>14 DEF IInv, TypeOK

-----------------------------------------------------------------------------
(* The surfacing worker *)

\* A pass that reads now accounts for every posting: it shows it, has a reason
\* not to, or an earlier pass has.
LEMMA EveryPosting ==
    ASSUME IInv, NEW x \in Ads, posting[x] # None
    PROVE  x \in Fresh \cup KeptBack \cup Stale \cup unlucky \cup seen
<1>1. posting[x] \in Posting /\ x \in Rows(posting)
  BY DEF IInv, TypeOK, PoolTypeOK, Rows
<1>2. posting[x].held /\ x \notin Expired => x \in KeptBack
  BY <1>1 DEF KeptBack
<1>3. CASE SinceFrom(x, Since)
  BY <1>1, <1>2, <1>3 DEF Fresh
<1>4. CASE ~SinceFrom(x, Since) /\ watermark = None
  BY <1>1, <1>4 DEF Stale
<1>5. CASE ~SinceFrom(x, Since) /\ watermark # None
  <2>1. watermark \in Nat /\ posting[x].at \in Nat
    BY <1>1, <1>5, TimeAssumption DEF IInv, TypeOK, SurfacingTypeOK, Posting
  <2>2. posting[x].at < watermark
    BY <1>5, <2>1 DEF Since, SinceFrom
  <2> QED BY <1>1, <1>5, <2>2 DEF IInv, NotPassedOver
<1> QED BY <1>3, <1>4, <1>5

LEMMA EmptyPassKeepsIInv == ASSUME IInv, EmptyPass PROVE IInv'
<1> USE DEF EmptyPass
<1>1. Fresh \subseteq Ads /\ Expired \subseteq Ads /\ KeptBack \subseteq Ads /\ Stale \subseteq Ads
  BY DEF Fresh, Expired, KeptBack, Stale, Rows
<1>2. SurfacingTypeOK'
  BY <1>1 DEF forms, IInv, TypeOK, PoolTypeOK, SurfacingTypeOK
<1>3. PoolTypeOK' /\ SchedTypeOK'
  BY PoolTypeFrame, SchedTypeFrame DEF pool
<1>4. Postings' /\ Forms' /\ HeldForItsTime' /\ (Polls /\ OpenRows /\ Exclusive)'
  BY PostingFrame, FormFrame, HeldFrame, WorkFrame DEF pool, forms
<1>5. Passes'
  BY DEF pool, IInv, Passes, MayShow, OverTime, Rows, Accounted
<1>6. NotPassedOver'
  BY EveryPosting DEF pool, NotPassedOver, Rows
<1> QED BY <1>2, <1>3, <1>4, <1>5, <1>6 DEF IInv, TypeOK

LEMMA StartPassKeepsIInv == ASSUME IInv, StartPass PROVE IInv'
<1>1. PICK js \in SUBSET Fresh :
         pass' = [running |-> TRUE, jobs |-> js, released |-> Expired,
                  left |-> (Fresh \ js) \cup KeptBack \cup Stale]
  BY DEF StartPass
<1>2. /\ Fresh \subseteq Rows(posting) /\ Expired \subseteq Rows(posting)
      /\ KeptBack \subseteq Rows(posting) /\ Stale \subseteq Rows(posting)
      /\ Rows(posting) \subseteq Ads /\ \A x \in Rows(posting) : posting[x] # None
  BY DEF Fresh, Expired, KeptBack, Stale, Rows
<1>3. UNCHANGED <<now, pool, sched, work, failures, watermark, forms, history>>
  BY DEF StartPass
<1>4. SurfacingTypeOK'
  BY <1>1, <1>2, <1>3 DEF forms, history, IInv, TypeOK, SurfacingTypeOK
<1>5. PoolTypeOK' /\ SchedTypeOK'
  BY <1>3, PoolTypeFrame, SchedTypeFrame DEF pool
<1>6. /\ Postings' /\ Forms' /\ HeldForItsTime' /\ NotPassedOver'
      /\ (Polls /\ OpenRows /\ Exclusive)'
  BY <1>3, PostingFrame, FormFrame, HeldFrame, OverFrame, WorkFrame DEF pool, forms, history
<1>7. Passes'
  <2>0. \A x \in Ads : (OverTime(x) <=> OverTime(x)') /\ (MayShow(x) <=> MayShow(x)')
    BY <1>3 DEF pool, history, OverTime, MayShow, Rows
  <2>1. \A x \in pass'.released : posting'[x] # None /\ OverTime(x)'
    <3>1. \A x \in Expired : OverTime(x)
      BY DEF Expired, OverTime
    <3> QED BY <1>1, <1>2, <1>3, <2>0, <3>1 DEF pool
  <2>2. ASSUME NEW x \in js, KeyOf[x] = NoKey PROVE MayShow(x)'
    <3>1. x \in Ads /\ posting[x] # None /\ (~posting[x].held \/ OverTime(x))
      BY DEF Fresh, Expired, OverTime, Rows
    <3> QED BY <2>0, <2>2, <3>1 DEF MayShow, IInv, Postings, PostingOK
  <2>3. ASSUME NEW x \in Ads, posting[x] # None PROVE x \in Accounted'
    <3>1. pass'.jobs \cup pass'.left = js \cup (Fresh \ js) \cup KeptBack \cup Stale
      BY <1>1
    <3> QED BY <1>3, <2>3, <3>1, EveryPosting DEF Accounted, history
  <2> QED BY <1>1, <1>3, <2>1, <2>2, <2>3 DEF Passes, pool, history
<1> QED BY <1>4, <1>5, <1>6, <1>7 DEF IInv, TypeOK

\* The polls do not notice what other sessions commit, as long as postings keep
\* their times and those that are new have no key.
LEMMA OtherCommitKeepsPolls ==
    ASSUME IInv, UNCHANGED work,
           \A x \in Ads : posting[x] # None => /\ posting'[x] # None /\ posting'[x].at = posting[x].at
                                              /\ posting'[x].until = posting[x].until,
           \A x \in Ads : posting[x] = None /\ posting'[x] # None => KeyOf[x] = NoKey
    PROVE  (Polls /\ OpenRows /\ Exclusive)'
<1>1. work \in [Personas -> Transaction]
  BY DEF IInv, TypeOK, SchedTypeOK
<1>2. Polls'
  <2>1. ASSUME NEW q \in Personas PROVE PollOK(work[q])'
    <3>1. PollOK(work[q]) /\ work[q].links \subseteq Ads /\ work[q].hit \in Ads \cup {None}
      BY <1>1 DEF IInv, Polls, Transaction
    <3>2. \A x \in Ads : Sees(work[q], x) => Sees(work[q], x)'
      BY DEF Sees
    <3> QED BY <3>1, <3>2 DEF PollOK
  <2> QED BY <2>1 DEF Polls
<1>3. OpenRows'
  <2>1. ASSUME NEW q \in Personas, NEW x \in Ads PROVE RowOK(work[q].rows[x], x, work[q].at)'
    <3>1. RowOK(work[q].rows[x], x, work[q].at)
      BY DEF IInv, OpenRows
    <3> QED BY <3>1 DEF RowOK
  <2> QED BY <2>1 DEF OpenRows
<1>4. Exclusive'
  BY DEF IInv, Exclusive
<1> QED BY <1>2, <1>3, <1>4

\* The commit of a pass ends quarantines and changes nothing else of a row.
LEMMA ReleasedRow ==
    ASSUME IInv, FinishPass, NEW x \in Ads
    PROVE  /\ posting'[x] \in Posting \cup {None}
           /\ posting[x] # None <=> posting'[x] # None
           /\ posting[x] # None => /\ posting'[x].at = posting[x].at
                                   /\ posting'[x].until = posting[x].until
                                   /\ posting'[x].text = posting[x].text
                                   /\ x \notin pass.released => posting'[x].held = posting[x].held
<1>1. posting \in [Ads -> Posting \cup {None}]
  BY DEF IInv, TypeOK, PoolTypeOK
<1>2. CASE x \in pass.released
  <2>1. posting[x] # None /\ posting[x] \in Posting
    BY <1>1, <1>2 DEF IInv, Passes
  <2>2. posting'[x] = [posting[x] EXCEPT !.held = FALSE]
    BY <1>2 DEF FinishPass
  <2>3. /\ posting'[x] \in Posting /\ posting'[x].at = posting[x].at
        /\ posting'[x].until = posting[x].until /\ posting'[x].text = posting[x].text
    BY <2>1, <2>2 DEF Posting
  <2> QED BY <1>2, <2>1, <2>3, NoneAssumption
<1>3. CASE x \notin pass.released
  BY <1>1, <1>3 DEF FinishPass
<1> QED BY <1>2, <1>3

LEMMA FinishPassKeepsIInv == ASSUME IInv, FinishPass PROVE IInv'
<1>1. /\ UNCHANGED <<now, sched, work, failures, forms, sighted>>
      /\ watermark' = now /\ pass' = NoPass /\ pass.running
      /\ seen' = seen \cup pass.jobs /\ unlucky' = unlucky \cup pass.left
      /\ posting' = [x \in Ads |-> IF x \in pass.released THEN [posting[x] EXCEPT !.held = FALSE]
                                   ELSE posting[x]]
  BY DEF FinishPass
<1>2. /\ pass.jobs \subseteq Ads /\ pass.left \subseteq Ads /\ pass.released \subseteq Ads
      /\ posting \in [Ads -> Posting \cup {None}] /\ now \in 0..MaxTime
      /\ seen \subseteq Ads /\ unlucky \subseteq Ads /\ sighted \subseteq Ads
  BY DEF IInv, TypeOK, PoolTypeOK, SurfacingTypeOK
<1>3. ASSUME NEW x \in Ads
      PROVE  /\ posting'[x] \in Posting \cup {None}
             /\ posting[x] # None <=> posting'[x] # None
             /\ posting[x] # None => /\ posting'[x].at = posting[x].at
                                     /\ posting'[x].until = posting[x].until
                                     /\ posting'[x].text = posting[x].text
                                     /\ x \notin pass.released => posting'[x].held = posting[x].held
  BY ReleasedRow
<1>4. PICK e \in SUBSET (Personas \X pass.jobs) :
        link' = [s \in Personas \X Ads |-> IF s \in Shown(e) THEN "pool" ELSE link[s]]
  BY DEF FinishPass
<1>5. PoolTypeOK'
  <2>1. posting' \in [Ads -> Posting \cup {None}]
    BY <1>1, <1>3
  <2> QED BY <1>1, <1>4, <2>1 DEF IInv, TypeOK, PoolTypeOK, Methods
<1>6. SchedTypeOK'
  BY <1>1, SchedTypeFrame
<1>7. SurfacingTypeOK'
  BY <1>1, <1>2 DEF forms, NoPass, IInv, TypeOK, SurfacingTypeOK
<1>8. (Polls /\ OpenRows /\ Exclusive)'
  BY <1>1, <1>3, OtherCommitKeepsPolls
<1>0. \A x \in Ads : MayShow(x) => MayShow(x)'
  BY <1>1, <1>3, SameTime, MayShowStays
<1>9. Postings'
  <2>1. ASSUME NEW x \in Ads, posting'[x] # None PROVE PostingOK(x)'
    <3>1. posting[x] # None /\ posting'[x].text = posting[x].text /\ PostingOK(x)
      BY <1>3, <2>1 DEF IInv, Postings
    <3>2. CASE x \in pass.released
      BY <1>0, <3>1, <3>2 DEF IInv, Passes, MayShow, PostingOK
    <3>3. CASE x \notin pass.released
      BY <1>0, <1>3, <3>1, <3>3 DEF PostingOK
    <3> QED BY <3>2, <3>3
  <2> QED BY <2>1 DEF Postings
<1>10. Forms'
  <2>1. \A q \in Personas : form[q].hit \in Ads \cup {None}
    BY DEF IInv, TypeOK, SurfacingTypeOK
  <2> QED BY <1>1, <1>3, <2>1 DEF forms, IInv, Forms
<1>11. Passes'
  BY <1>1 DEF Passes, NoPass
<1>12. NotPassedOver'
  BY <1>1, <1>3 DEF IInv, Passes, Accounted, NotPassedOver, Rows
<1>13. HeldForItsTime'
  <2>1. \A s \in Shown(e) : s[2] \in pass.jobs
    BY <1>4 DEF Shown
  <2>2. \A x \in pass.jobs : KeyOf[x] = NoKey => MayShow(x)'
    BY <1>0, <1>2 DEF IInv, Passes
  <2> QED BY <1>0, <1>4, <2>1, <2>2 DEF IInv, HeldForItsTime, MayShow
<1> QED BY <1>5, <1>6, <1>7, <1>8, <1>9, <1>10, <1>11, <1>12, <1>13 DEF IInv, TypeOK

LEMMA FailPassKeepsIInv == ASSUME IInv, FailPass PROVE IInv'
<1>1. UNCHANGED <<now, pool, sched, work, forms, history, watermark>> /\ pass' = NoPass
  BY DEF FailPass, AfterFailure
<1>2. SchedTypeOK'
  BY <1>1, Failures DEF FailPass, sched, IInv, TypeOK, SchedTypeOK
<1>3. SurfacingTypeOK'
  BY <1>1 DEF forms, history, NoPass, IInv, TypeOK, SurfacingTypeOK
<1>4. PoolTypeOK'
  BY <1>1, PoolTypeFrame DEF pool
<1>5. /\ Postings' /\ Forms' /\ HeldForItsTime' /\ NotPassedOver'
      /\ (Polls /\ OpenRows /\ Exclusive)'
  BY <1>1, PostingFrame, FormFrame, HeldFrame, OverFrame, WorkFrame DEF pool, forms, history
<1>6. Passes'
  BY <1>1 DEF Passes, NoPass
<1> QED BY <1>2, <1>3, <1>4, <1>5, <1>6 DEF IInv, TypeOK

-----------------------------------------------------------------------------
(* Submissions, the clock and restarts *)

\* What holds when a request has changed nothing but its preview and its form.
LEMMA RequestStep ==
    ASSUME IInv, SurfacingTypeOK', Forms', failures' \in 0..MaxFailures,
           UNCHANGED <<now, pool, sched, work, worker, history>>
    PROVE  IInv'
<1>1. PoolTypeOK' /\ SchedTypeOK'
  BY PoolTypeFrame DEF pool, sched, IInv, TypeOK, SchedTypeOK
<1>2. /\ Postings' /\ HeldForItsTime' /\ NotPassedOver' /\ Passes'
      /\ (Polls /\ OpenRows /\ Exclusive)'
  BY PostingFrame, HeldFrame, OverFrame, PassFrame, WorkFrame DEF pool, history, worker
<1> QED BY <1>1, <1>2 DEF IInv, TypeOK

LEMMA RequestTypes ==
    IInv => /\ preview \in [Personas -> [ad : Ads \cup {None}, until : 0..(MaxTime + PreviewTime)]]
            /\ form \in [Personas -> [ad : Ads \cup {None}, at : 0..MaxTime, hit : Ads \cup {None}]]
            /\ now \in 0..MaxTime /\ requests \in 0..MaxRequests
            /\ failures \in 0..MaxFailures
  BY DEF IInv, TypeOK, PoolTypeOK, SchedTypeOK, SurfacingTypeOK

LEMMA NoneIsNothing == None \notin Ads /\ None \notin Posting
  BY AdsAssumption, NoneAssumption

LEMMA IngestKeepsIInv == ASSUME IInv, NEW p \in Personas, Ingest(p) PROVE IInv'
<1>1. PICK a \in Ads :
         /\ <<p, a>> \in Submissions
         /\ preview' = [preview EXCEPT ![p] = [ad |-> a, until |-> now + PreviewTime]]
  BY DEF Ingest
<1>2. KeyOf[a] = NoKey
  BY <1>1, SubmissionsAssumption
<1>3. now + PreviewTime \in 0..(MaxTime + PreviewTime)
  BY RequestTypes, SurfacingAssumption, TimeAssumption
<1>4. preview' \in [Personas -> [ad : Ads \cup {None}, until : 0..(MaxTime + PreviewTime)]]
  BY <1>1, <1>3, RequestTypes
<1>5. requests' \in 0..MaxRequests
  BY RequestTypes, SurfacingAssumption DEF Ingest
<1>6. SurfacingTypeOK'
  BY <1>4, <1>5 DEF Ingest, worker, history, IInv, TypeOK, SurfacingTypeOK
<1>7. Forms'
  BY <1>1, <1>2, RequestTypes DEF Ingest, pool, IInv, Forms
<1> QED BY <1>6, <1>7, RequestTypes, RequestStep DEF Ingest

LEMMA ConfirmKeepsIInv == ASSUME IInv, NEW p \in Personas, Confirm(p) PROVE IInv'
<1>1. /\ preview' = [preview EXCEPT ![p] = NoPreview]
      /\ form' = form \/ form' = [form EXCEPT ![p] = [ad |-> preview[p].ad, at |-> now, hit |-> None]]
      /\ UNCHANGED <<now, pool, sched, work, failures, worker, requests, history>>
  BY DEF Confirm
<1>2. NoPreview \in [ad : Ads \cup {None}, until : 0..(MaxTime + PreviewTime)]
  BY SurfacingAssumption, TimeAssumption DEF NoPreview
<1>3. SurfacingTypeOK'
  BY <1>1, <1>2, RequestTypes DEF worker, history, IInv, TypeOK, SurfacingTypeOK
<1>4. Forms'
  BY <1>1, RequestTypes DEF NoPreview, pool, IInv, Forms
<1> QED BY <1>1, <1>3, <1>4, RequestTypes, RequestStep

LEMMA SubmitKeepsIInv == ASSUME IInv, NEW p \in Personas, Submit(p) PROVE IInv'
<1>1. PICK a \in Ads :
         /\ <<p, a>> \in Submissions
         /\ \/ \E x \in ByText(posting, a) :
                 form' = [form EXCEPT ![p] = [ad |-> a, at |-> now, hit |-> x]]
            \/ form' = [form EXCEPT ![p] = [ad |-> a, at |-> now, hit |-> None]]
  BY DEF Submit
<1>2. PICK x \in Ads \cup {None} :
         /\ form' = [form EXCEPT ![p] = [ad |-> a, at |-> now, hit |-> x]]
         /\ x # None => posting[x] # None
  BY <1>1 DEF ByText, Rows
<1>3. KeyOf[a] = NoKey
  BY <1>1, SubmissionsAssumption
<1>4. requests' \in 0..MaxRequests
  BY RequestTypes, SurfacingAssumption DEF Submit
<1>5. SurfacingTypeOK'
  BY <1>2, <1>4, RequestTypes DEF Submit, worker, history, IInv, TypeOK, SurfacingTypeOK
<1>6. Forms'
  BY <1>2, <1>3, RequestTypes DEF Submit, pool, IInv, Forms
<1> QED BY <1>5, <1>6, RequestTypes, RequestStep DEF Submit

\* A form that is closed, whatever becomes of the pool.
LEMMA ClosedForm ==
    ASSUME IInv, NEW p \in Personas, form' = [form EXCEPT ![p] = NoForm], UNCHANGED preview,
           \A x \in Ads : posting[x] # None => posting'[x] # None
    PROVE  /\ form' \in [Personas -> [ad : Ads \cup {None}, at : 0..MaxTime, hit : Ads \cup {None}]]
           /\ Forms'
<1>1. NoForm \in [ad : Ads \cup {None}, at : 0..MaxTime, hit : Ads \cup {None}]
  BY TimeAssumption DEF NoForm
<1>2. NoForm.ad = None /\ NoForm.hit = None
  BY DEF NoForm
<1> QED BY <1>1, <1>2, RequestTypes DEF IInv, Forms

LEMMA FailFormKeepsIInv == ASSUME IInv, NEW p \in Personas, FailForm(p) PROVE IInv'
<1>1. /\ form' \in [Personas -> [ad : Ads \cup {None}, at : 0..MaxTime, hit : Ads \cup {None}]]
      /\ Forms'
  BY ClosedForm DEF FailForm, pool
<1>2. SurfacingTypeOK'
  BY <1>1 DEF FailForm, worker, history, IInv, TypeOK, SurfacingTypeOK
<1> QED BY <1>1, <1>2, Failures, RequestStep DEF FailForm

LEMMA FinishFormKeepsIInv == ASSUME IInv, NEW p \in Personas, FinishForm(p) PROVE IInv'
<1> DEFINE f == form[p]
<1>1. /\ f.ad # None /\ form' = [form EXCEPT ![p] = NoForm]
      /\ UNCHANGED <<now, sched, work, failures, worker, preview, requests, seen, sighted>>
  BY DEF FinishForm
<1>2. /\ f.ad \in Ads /\ f.at \in 0..MaxTime /\ f.hit \in Ads \cup {None}
      /\ KeyOf[f.ad] = NoKey /\ (f.hit # None => posting[f.hit] # None)
  BY <1>1, RequestTypes DEF IInv, Forms
<1>3. PICK x \in Targets(p) :
        \/ UNCHANGED <<pool, unlucky>>
        \/ /\ link' = Linked(link, p, x, "manual")
           /\ \/ /\ posting[x] = None
                 /\ posting' = [posting EXCEPT ![x] = Submitted(f.ad, f.at)]
                 /\ unlucky' = unlucky \cup Late({x}, f.at)
              \/ UNCHANGED <<posting, unlucky>>
  BY DEF FinishForm
<1>4. x \in Ads /\ (posting[x] = None => x = f.ad)
  BY <1>2 DEF Targets, ByText, Rows
<1>5. /\ Submitted(f.ad, f.at) \in Posting /\ Submitted(f.ad, f.at) # None
      /\ Submitted(f.ad, f.at).at = f.at /\ Submitted(f.ad, f.at).text \in TextsOf(f.ad)
      /\ Submitted(f.ad, f.at).held = TRUE
  BY <1>2, RequestTypes, SubmittedIsPosting
<1>6. posting \in [Ads -> Posting \cup {None}] /\ unlucky \subseteq Ads
  BY DEF IInv, TypeOK, PoolTypeOK, SurfacingTypeOK
<1>7. \/ UNCHANGED <<posting, unlucky>>
      \/ /\ posting[f.ad] = None
         /\ posting' = [posting EXCEPT ![f.ad] = Submitted(f.ad, f.at)]
         /\ unlucky' = unlucky \cup Late({f.ad}, f.at)
  BY <1>3, <1>4 DEF pool
<1>8. \A y \in Ads : /\ posting[y] # None => posting'[y] = posting[y]
                     /\ posting[y] = None /\ posting'[y] # None =>
                          /\ y = f.ad /\ posting'[y] = Submitted(f.ad, f.at)
                          /\ unlucky' = unlucky \cup Late({y}, f.at)
  BY <1>6, <1>7
<1>0. \A y \in Ads : (OverTime(y) => OverTime(y)') /\ (MayShow(y) => MayShow(y)')
  BY <1>1, <1>8, SameTime, OverTimeStays, MayShowStays
<1>9. unlucky \subseteq unlucky' /\ unlucky' \subseteq Ads
  BY <1>2, <1>6, <1>7 DEF Late
<1>10. PoolTypeOK'
  <2>1. posting' \in [Ads -> Posting \cup {None}]
    BY <1>5, <1>6, <1>7
  <2>2. link' \in [Personas \X Ads -> Methods \cup {"none"}]
    BY <1>3, <1>4 DEF pool, Linked, Methods, IInv, TypeOK, PoolTypeOK
  <2> QED BY <1>1, <2>1, <2>2 DEF IInv, TypeOK, PoolTypeOK
<1>11. SchedTypeOK'
  BY <1>1, SchedTypeFrame
<1>12. form' \in [Personas -> [ad : Ads \cup {None}, at : 0..MaxTime, hit : Ads \cup {None}]] /\ Forms'
  BY <1>1, <1>8, ClosedForm
<1>13. SurfacingTypeOK'
  BY <1>1, <1>9, <1>12 DEF worker, IInv, TypeOK, SurfacingTypeOK
<1>14. (Polls /\ OpenRows /\ Exclusive)'
  BY <1>1, <1>2, <1>8, OtherCommitKeepsPolls
<1>15. Postings'
  <2>1. ASSUME NEW y \in Ads, posting'[y] # None PROVE PostingOK(y)'
    <3>1. CASE posting[y] # None
      BY <1>0, <1>8, <3>1 DEF IInv, Postings, PostingOK
    <3>2. CASE posting[y] = None
      <4>1. posting'[y].text \in TextsOf(y) /\ posting'[y].held = TRUE
        BY <1>5, <1>8, <2>1, <3>2
      <4> QED BY <4>1 DEF PostingOK
    <3> QED BY <3>1, <3>2
  <2> QED BY <2>1 DEF Postings
<1>16. Passes'
  <2>1. pass.running => \A y \in Ads : posting'[y] # None => y \in Accounted'
    BY <1>1, <1>8, <1>9 DEF worker, Late, IInv, Passes, Accounted
  <2>2. pass.released \subseteq Ads /\ pass.jobs \subseteq Ads
    BY DEF IInv, TypeOK, SurfacingTypeOK
  <2> QED BY <1>0, <1>1, <1>8, <2>1, <2>2 DEF worker, IInv, Passes
<1>17. NotPassedOver'
  BY <1>1, <1>5, <1>8, <1>9 DEF worker, Late, IInv, NotPassedOver, Rows
<1>18. HeldForItsTime'
  BY <1>0, <1>3, <1>4 DEF pool, Linked, IInv, TypeOK, PoolTypeOK, HeldForItsTime, MayShow
<1> QED BY <1>10, <1>11, <1>12, <1>13, <1>14, <1>15, <1>16, <1>17, <1>18 DEF IInv, TypeOK

LEMMA TickKeepsIInv == ASSUME IInv, Tick PROVE IInv'
<1>1. now' \in 0..MaxTime
  BY RequestTypes, TimeAssumption DEF Tick
<1>2. UNCHANGED <<pool, sched, work, failures, worker, forms, history>>
  BY DEF Tick
<1>3. PoolTypeOK' /\ SchedTypeOK' /\ SurfacingTypeOK'
  BY <1>1, <1>2, SchedTypeFrame, SurfacingTypeFrame DEF pool, IInv, TypeOK, PoolTypeOK
<1>4. NotPassedOver' /\ Forms' /\ (Polls /\ OpenRows /\ Exclusive)'
  BY <1>2, OverFrame, FormFrame, WorkFrame DEF pool, history, worker, forms
<1>5. \A x \in Ads : (OverTime(x) => OverTime(x)') /\ (MayShow(x) => MayShow(x)')
  <2>1. now <= now'
    BY RequestTypes DEF Tick
  <2> QED BY <1>1, <1>2, <2>1, OverTimeStays, MayShowStays DEF pool, history
<1>6. Postings' /\ HeldForItsTime'
  BY <1>2, <1>5 DEF pool, IInv, Postings, PostingOK, HeldForItsTime, MayShow
<1>7. Passes'
  <2>1. pass.released \subseteq Ads /\ pass.jobs \subseteq Ads
    BY DEF IInv, TypeOK, SurfacingTypeOK
  <2> QED BY <1>2, <1>5, <2>1 DEF pool, worker, history, IInv, Passes, Accounted
<1> QED BY <1>3, <1>4, <1>6, <1>7 DEF IInv, TypeOK

LEMMA RestartKeepsIInv == ASSUME IInv, Restart PROVE IInv'
<1>1. /\ work' = [q \in Personas |-> Idle] /\ firstRun' = TRUE /\ pending' = {}
      /\ watermark' = None /\ pass' = NoPass
      /\ preview' = [q \in Personas |-> NoPreview] /\ form' = [q \in Personas |-> NoForm]
      /\ UNCHANGED <<now, pool, next, requests, history>>
  BY DEF Restart
<1>2. PoolTypeOK'
  BY <1>1, PoolTypeFrame DEF pool
<1>3. SchedTypeOK'
  BY <1>1, Failures, IdleIsOK DEF Restart, IInv, TypeOK, SchedTypeOK
<1>4. SurfacingTypeOK'
  BY <1>1, TimeAssumption, SurfacingAssumption
     DEF history, NoPass, NoPreview, NoForm, IInv, TypeOK, SurfacingTypeOK
<1>5. Polls'
  BY <1>1 DEF Polls, PollOK, Idle
<1>6. OpenRows' /\ Exclusive'
  BY <1>1, IdleIsOK DEF OpenRows, RowOK, Exclusive
<1>7. Postings' /\ HeldForItsTime'
  BY <1>1, PostingFrame, HeldFrame DEF pool, history
<1>8. Forms' /\ Passes' /\ NotPassedOver'
  BY <1>1 DEF NoForm, NoPreview, NoPass, Forms, Passes, NotPassedOver
<1> QED BY <1>2, <1>3, <1>4, <1>5, <1>6, <1>7, <1>8 DEF IInv, TypeOK

-----------------------------------------------------------------------------
(* The theorems *)

LEMMA PollKeepsIInv == ASSUME IInv, NEW p \in Personas, Poll(p) PROVE IInv'
<1>1. CASE SkipPoll(p) /\ UNCHANGED <<worker, forms, history>>
  BY <1>1, SkipPollKeepsIInv
<1>2. CASE StartPoll(p) /\ UNCHANGED <<worker, forms, history>>
  BY <1>2, StartPollKeepsIInv
<1>3. CASE Lookup(p) /\ UNCHANGED <<worker, forms, history>>
  BY <1>3, LookupKeepsIInv
<1>4. CASE Insert(p) /\ UNCHANGED <<worker, forms, history>>
  BY <1>4, InsertKeepsIInv
<1>5. CASE RecoverInsert(p) /\ UNCHANGED <<worker, forms, history>>
  BY <1>5, RecoverInsertKeepsIInv
<1>6. CASE BrokenPoll(p) /\ UNCHANGED <<worker, forms, history>>
  BY <1>6, BrokenPollKeepsIInv
<1>7. CASE WriteExisting(p) /\ UNCHANGED <<worker, forms, history>>
  BY <1>7, WriteExistingKeepsIInv
<1>8. CASE Commit(p)
  BY <1>8, CommitKeepsIInv
<1> QED BY <1>1, <1>2, <1>3, <1>4, <1>5, <1>6, <1>7, <1>8 DEF Poll

LEMMA StutterKeepsIInv == ASSUME IInv, UNCHANGED vars PROVE IInv'
<1>1. PoolTypeOK' /\ SchedTypeOK' /\ SurfacingTypeOK'
  BY PoolTypeFrame, SchedTypeFrame, SurfacingTypeFrame DEF vars, pool
<1>2. /\ Postings' /\ HeldForItsTime' /\ NotPassedOver' /\ Passes' /\ Forms'
      /\ (Polls /\ OpenRows /\ Exclusive)'
  BY PostingFrame, HeldFrame, OverFrame, PassFrame, FormFrame, WorkFrame
     DEF vars, pool, history, worker, forms
<1> QED BY <1>1, <1>2 DEF IInv, TypeOK

LEMMA NextKeepsIInv == IInv /\ [Next]_vars => IInv'
<1> SUFFICES ASSUME IInv, [Next]_vars PROVE IInv'
  OBVIOUS
<1>1. CASE Tick
  BY <1>1, TickKeepsIInv
<1>2. CASE Schedule
  BY <1>2, ScheduleKeepsIInv
<1>3. CASE Restart
  BY <1>3, RestartKeepsIInv
<1>4. ASSUME NEW p \in Personas, Poll(p) PROVE IInv'
  BY <1>4, PollKeepsIInv
<1>5. ASSUME NEW p \in Personas, PollFails(p) PROVE IInv'
  BY <1>5, FailPollKeepsIInv DEF PollFails
<1>6. CASE Surface
  BY <1>6, EmptyPassKeepsIInv, StartPassKeepsIInv, FinishPassKeepsIInv DEF Surface
<1>7. CASE FailPass
  BY <1>7, FailPassKeepsIInv
<1>8. ASSUME NEW p \in Personas, Users(p) PROVE IInv'
  BY <1>8, IngestKeepsIInv, ConfirmKeepsIInv, SubmitKeepsIInv, FinishFormKeepsIInv, FailFormKeepsIInv
     DEF Users
<1>9. CASE UNCHANGED vars
  BY <1>9, StutterKeepsIInv
<1> QED BY <1>1, <1>2, <1>3, <1>4, <1>5, <1>6, <1>7, <1>8, <1>9 DEF Next

LEMMA InductiveInvariant == Spec => []IInv
  BY InitEstablishesIInv, NextKeepsIInv, PTL DEF Spec

\* Every table, every open transaction and the memory of the workers keep their
\* types: in particular no commit and no release makes a row out of none.
THEOREM TypeCorrect == Spec => []TypeOK
<1>1. IInv => TypeOK
  BY DEF IInv
<1> QED BY <1>1, InductiveInvariant, PTL

\* The watermark of the surfacing worker passes over a posting only for one of
\* the reasons "unlucky" names: whatever commits behind it or during a pass,
\* and whatever fails or restarts, no other posting is forgotten.
THEOREM NothingIsForgotten == Spec => []NotPassedOver
<1>1. IInv => NotPassedOver
  BY DEF IInv
<1> QED BY <1>1, InductiveInvariant, PTL

\* The pool shows a submission to nobody before its time is over or a scouter has
\* met it, however polls, submissions and passes overlap, fail and restart.
THEOREM QuarantineIsKept == Spec => []HeldForItsTime
<1>1. IInv => HeldForItsTime
  BY DEF IInv
<1> QED BY <1>1, InductiveInvariant, PTL

\* Only its own commit closes a poll that has nothing left to do without a
\* failure being counted.
LEMMA CommitsMeansCommit ==
    ASSUME IInv, [Next]_vars, NEW p \in Personas, Commits(p)
    PROVE  Commit(p)
<1> USE DEF Commits
<1>1. work \in [Personas -> Transaction] /\ PollOK(work[p]) /\ failures \in Nat
  BY LimitsAssumption DEF IInv, TypeOK, SchedTypeOK, Polls
<1>2. work' # work /\ work'[p] # work[p]
  OBVIOUS
<1>3. ASSUME NEW q \in Personas, Poll(q) PROVE Commit(p)
  <2>1. CASE Commit(q)
    <3>1. q = p
      BY <1>1, <1>2, <2>1 DEF Commit, CommitPoll, Close
    <3> QED BY <2>1, <3>1
  <2>2. CASE BrokenPoll(q)
    <3>1. q = p
      BY <1>1, <1>2, <2>2 DEF BrokenPoll, Close
    <3> QED BY <1>1, <2>2, <3>1 DEF BrokenPoll, PollOK
  <2>3. CASE SkipPoll(q) \/ StartPoll(q)
    BY <1>1, <1>2, <2>3 DEF SkipPoll, StartPoll, Idle
  <2>4. CASE Lookup(q)
    BY <1>1, <1>2, <2>4 DEF Lookup, Transaction
  <2>5. ASSUME NEW x \in Ads, NEW row, Wrote(q, x, row) PROVE FALSE
    BY <1>1, <1>2, <2>5 DEF Wrote, Transaction
  <2>6. CASE Insert(q) \/ RecoverInsert(q) \/ WriteExisting(q)
    BY <1>1, <2>5, <2>6, InHand DEF Insert, RecoverInsert, Existing, ByKey, ByText, Rows, WriteExisting
  <2> QED BY <1>3, <2>1, <2>2, <2>3, <2>4, <2>6 DEF Poll
<1>4. CASE Tick \/ Schedule \/ Surface \/ FailPass \/ UNCHANGED vars \/ \E q \in Personas : Users(q)
  BY <1>2, <1>4 DEF Tick, Schedule, SchedulerPass, Surface, EmptyPass, StartPass, FinishPass, FailPass,
                    vars, Users, Ingest, Confirm, Submit, FinishForm, FailForm
<1>5. CASE Restart \/ \E q \in Personas : PollFails(q)
  BY <1>1, <1>5 DEF Restart, PollFails, FailPoll
<1> QED BY <1>3, <1>4, <1>5 DEF Next

LEMMA CommitCovers ==
    ASSUME IInv, NEW p \in Personas, Commit(p), work[p].todo = {}, NEW a \in work[p].feed
    PROVE  Covers(p, a)
<1>1. Published(p)
  BY DEF Commit, CommitPoll
<1>2. work[p] \in Transaction /\ PollOK(work[p])
  BY DEF IInv, TypeOK, SchedTypeOK, Polls
<1>3. PICK x \in work[p].links : Sees(work[p], x) /\ SameJob(x, a)
  BY <1>2 DEF PollOK
<1>4. x \in Ads
  BY <1>2 DEF Transaction
<1>5. posting'[x] # None
  BY <1>1, <1>3, <1>4 DEF Published, View, Sees
<1>6. link'[<<p, x>>] # "none"
  BY <1>1, <1>3, <1>4 DEF Published
<1> QED BY <1>3, <1>4, <1>5, <1>6 DEF Covers, Rows

\* A poll that commits has linked its persona to a posting of every ad its
\* sources showed, also where a concurrent poll or submission was first.
THEOREM PollsDropNothing == Spec => PollLinksAll
<1>1. IInv /\ [Next]_vars => [NothingDropped]_vars
  BY CommitsMeansCommit, CommitCovers DEF NothingDropped, Commits
<1> QED BY <1>1, InductiveInvariant, PTL DEF Spec, PollLinksAll
-----------------------------------------------------------------------------
(* One row per job.  What is committed has no duplicates because what each   *)
(* poll sees has none, and what two polls have written does not clash.       *)

Clash(x, text, y, other) == text = other \/ (KeyOf[x] # NoKey /\ KeyOf[x] = KeyOf[y])

\* Two sets of rows, one or both of which may become part of the pool.
Apart(rows, others) == \A x, y \in Ads :
    x # y /\ rows[x] # None /\ others[y] # None => ~Clash(x, rows[x].text, y, others[y].text)

UInv ==
    /\ Apart(posting, posting)
    /\ \A p \in Personas : Apart(View(p), View(p))
    /\ \A p, q \in Personas : p # q => Apart(work[p].rows, work[q].rows)

LEMMA InitEstablishesUInv == Init => UInv
<1> SUFFICES ASSUME Init PROVE UInv
  OBVIOUS
<1>1. \A x \in Ads : posting[x] = None
  BY DEF Init, PoolInit
<1>2. \A p \in Personas, x \in Ads : work[p].rows[x] = None /\ View(p)[x] = None
  BY <1>1 DEF Init, SchedInit, Idle, View
<1> QED BY <1>1, <1>2 DEF UInv, Apart

\* A step after which every poll has the rows it had, or none, and the pool the
\* texts it had.
SameRows(p) == (\A x \in Ads : work'[p].rows[x] = work[p].rows[x]) \/ (\A x \in Ads : work'[p].rows[x] = None)
SameTexts == \A x \in Ads : /\ posting'[x] = None <=> posting[x] = None
                            /\ posting[x] # None => posting'[x].text = posting[x].text

LEMMA UniqueFrame ==
    ASSUME UInv, SameTexts, \A p \in Personas : SameRows(p)
    PROVE  UInv'
<1>1. Apart(posting, posting)'
  BY DEF UInv, Apart, SameTexts, Clash
<1>2. ASSUME NEW p \in Personas PROVE Apart(View(p), View(p))'
  <2>1. \A x \in Ads : View(p)'[x] = IF work'[p].rows[x] = None THEN posting'[x] ELSE work'[p].rows[x]
    BY DEF View
  <2>2. \A x \in Ads : View(p)[x] = IF work[p].rows[x] = None THEN posting[x] ELSE work[p].rows[x]
    BY DEF View
  <2>3. CASE \A x \in Ads : work'[p].rows[x] = work[p].rows[x]
    BY <2>1, <2>2, <2>3 DEF UInv, Apart, SameTexts, Clash
  <2>4. CASE \A x \in Ads : work'[p].rows[x] = None
    BY <2>1, <2>4, <1>1 DEF Apart
  <2> QED BY <2>3, <2>4 DEF SameRows
<1>3. ASSUME NEW p \in Personas, NEW q \in Personas, p # q
      PROVE  Apart(work[p].rows, work[q].rows)'
  <2>1. Apart(work[p].rows, work[q].rows)
    BY <1>3 DEF UInv
  <2> QED BY <2>1 DEF SameRows, Apart
<1> QED BY <1>1, <1>2, <1>3 DEF UInv

\* A poll writes a row that clashes with nothing it sees and with no row of an
\* open poll.
LEMMA WriteKeepsUInv ==
    ASSUME IInv, UInv, NEW p \in Personas, NEW x \in Ads, NEW row \in Posting,
           Wrote(p, x, row), UNCHANGED posting,
           \A y \in Ads : y # x /\ View(p)[y] # None => ~Clash(x, row.text, y, View(p)[y].text),
           \A o \in OthersRows(p) : o[2] # x /\ ~Clash(x, row.text, o[2], work[o[1]].rows[o[2]].text)
    PROVE  UInv'
<1>1. work \in [Personas -> Transaction] /\ work[p].rows \in [Ads -> Posting \cup {None}]
  BY DEF IInv, TypeOK, SchedTypeOK, Transaction
<1>2. /\ \A q \in Personas : q # p => work'[q] = work[q]
      /\ work'[p].rows = [work[p].rows EXCEPT ![x] = row]
  BY <1>1 DEF Wrote
<1>3. row # None
  BY NoneAssumption
<1>4. work'[p].rows[x] = row /\ \A y \in Ads : y # x => work'[p].rows[y] = work[p].rows[y]
  BY <1>1, <1>2
<1>5. \A q \in Personas, y \in Ads : q # p /\ work[q].rows[y] # None => <<q, y>> \in OthersRows(p)
  BY DEF OthersRows
<1>6. ASSUME NEW q \in Personas, NEW y \in Ads, q # p, work[q].rows[y] # None, y # x
      PROVE  ~Clash(x, row.text, y, work[q].rows[y].text) /\ ~Clash(y, work[q].rows[y].text, x, row.text)
  BY <1>5, <1>6 DEF Clash
<1>7. \A q \in Personas : q # p => View(q)' = View(q)
  BY <1>2 DEF View
<1>8. View(p)'[x] = row /\ \A y \in Ads : y # x => View(p)'[y] = View(p)[y]
  BY <1>3, <1>4 DEF View
<1>9. ASSUME NEW q \in Personas PROVE Apart(View(q), View(q))'
  <2>1. CASE q # p
    BY <1>7, <2>1 DEF UInv, Apart
  <2>2. CASE q = p
    <3> SUFFICES ASSUME NEW y \in Ads, NEW z \in Ads, y # z, View(p)'[y] # None, View(p)'[z] # None
                 PROVE  ~Clash(y, View(p)'[y].text, z, View(p)'[z].text)
      BY <2>2 DEF Apart, Clash
    <3>1. CASE y # x /\ z # x
      BY <1>8, <3>1 DEF UInv, Apart
    <3>2. CASE y = x
      BY <1>8, <3>2
    <3>3. CASE z = x
      BY <1>8, <3>3 DEF Clash
    <3> QED BY <3>1, <3>2, <3>3
  <2> QED BY <2>1, <2>2
<1>10. ASSUME NEW q \in Personas, NEW r \in Personas, q # r PROVE Apart(work[q].rows, work[r].rows)'
  <2>0. Apart(work[q].rows, work[r].rows)
    BY <1>10 DEF UInv
  <2> SUFFICES ASSUME NEW y \in Ads, NEW z \in Ads, y # z, work'[q].rows[y] # None, work'[r].rows[z] # None
               PROVE  ~Clash(y, work'[q].rows[y].text, z, work'[r].rows[z].text)
    BY DEF Apart, Clash
  <2>1. CASE q # p /\ r # p
    BY <1>2, <2>0, <2>1 DEF Apart
  <2>2. CASE q = p /\ y = x
    BY <1>2, <1>4, <1>6, <1>10, <2>2
  <2>3. CASE r = p /\ z = x
    BY <1>2, <1>4, <1>6, <1>10, <2>3
  <2>4. CASE q = p /\ y # x
    BY <1>2, <1>4, <1>10, <2>0, <2>4 DEF Apart
  <2>5. CASE r = p /\ z # x
    BY <1>2, <1>4, <1>10, <2>0, <2>5 DEF Apart
  <2> QED BY <2>1, <2>2, <2>3, <2>4, <2>5
<1>11. Apart(posting, posting)'
  BY DEF UInv, Apart
<1> QED BY <1>9, <1>10, <1>11 DEF UInv

LEMMA InsertKeepsUInv == ASSUME IInv, UInv, NEW p \in Personas, Insert(p) PROVE UInv'
<1> DEFINE a == work[p].ad
<1>1. /\ work[p].step # "none" /\ InsertFree(p, a) /\ Taken(View(p), a) = {}
      /\ Wrote(p, a, Found(a, work[p].at)) /\ UNCHANGED posting
  BY DEF Insert, pool
<1>2. a \in Ads /\ KeyOf[a] # NoKey /\ work[p].at \in 0..MaxTime
  BY <1>1, InHand
<1>3. Found(a, work[p].at) \in Posting /\ Found(a, work[p].at).text = TextOf[a]
  BY <1>2, FoundIsPosting DEF Found
<1>4. \A y \in Ads : View(p)[y] # None => KeyOf[y] # KeyOf[a] /\ View(p)[y].text # TextOf[a]
  BY <1>1, <1>2 DEF Taken, ByKey, ByText, Rows
<1>5. \A o \in OthersRows(p) : KeyOf[o[2]] # KeyOf[a] /\ work[o[1]].rows[o[2]].text # TextOf[a]
  BY <1>1 DEF InsertFree, TextFree, TextsKept
<1> HIDE DEF a
<1>6. \A y \in Ads : y # a /\ View(p)[y] # None => ~Clash(a, Found(a, work[p].at).text, y, View(p)[y].text)
  BY <1>3, <1>4 DEF Clash
<1>7. \A o \in OthersRows(p) :
        o[2] # a /\ ~Clash(a, Found(a, work[p].at).text, o[2], work[o[1]].rows[o[2]].text)
  BY <1>3, <1>5 DEF Clash
<1> QED BY <1>1, <1>2, <1>3, <1>6, <1>7, WriteKeepsUInv

\* The key of a row that stays is known to differ: it differs in what one of the
\* two polls sees, or neither is committed.
LEMMA WriteExistingKeepsUInv == ASSUME IInv, UInv, NEW p \in Personas, WriteExisting(p) PROVE UInv'
<1> DEFINE x == work[p].hit
           row == Rewritten(p)
<1>1. /\ work[p].step \in {"update", "found"} /\ RowFree(p, x) /\ TextFree(p, row.text)
      /\ \A y \in Rows(View(p)) \ {x} : View(p)[y].text # row.text
      /\ Wrote(p, x, row) /\ UNCHANGED posting
  BY DEF WriteExisting, pool
<1>2. x \in Ads /\ row \in Posting /\ Sees(work[p], x)
  BY <1>1, InHand, RewrittenIsOK
<1> HIDE DEF x, row
<1>3. View(p)[x] # None
  BY <1>2, ViewFacts DEF Rows
<1>4. ASSUME NEW y \in Ads, y # x, View(p)[y] # None PROVE ~Clash(x, row.text, y, View(p)[y].text)
  BY <1>1, <1>2, <1>3, <1>4 DEF UInv, Apart, Clash, Rows
<1>5. ASSUME NEW q \in Personas, NEW y \in Ads, q # p, work[q].rows[y] # None
      PROVE  y # x /\ ~Clash(x, row.text, y, work[q].rows[y].text)
  <2>1. <<q, y>> \in OthersRows(p)
    BY <1>5 DEF OthersRows
  <2>2. y # x /\ work[q].rows[y].text # row.text
    BY <1>1, <2>1 DEF RowFree, TextFree, TextsKept
  <2>3. work[q].rows[x] = None
    <3>1. <<q, x>> \in OthersRows(p) => x # x
      BY <1>1 DEF RowFree
    <3> QED BY <1>2, <1>5, <3>1 DEF OthersRows
  <2>4. KeyOf[x] = NoKey \/ KeyOf[x] # KeyOf[y]
    <3>1. CASE work[p].rows[x] # None
      BY <1>2, <1>5, <2>2, <3>1 DEF UInv, Apart, Clash
    <3>2. CASE posting[x] # None
      <4>1. View(q)[x] # None /\ View(q)[y] # None
        BY <1>2, <1>5, <2>3, <3>2 DEF View
      <4> QED BY <1>2, <2>2, <4>1 DEF UInv, Apart, Clash
    <3> QED BY <1>2, <3>1, <3>2 DEF Sees
  <2> QED BY <2>2, <2>4 DEF Clash
<1>6. \A o \in OthersRows(p) : o[2] # x /\ ~Clash(x, row.text, o[2], work[o[1]].rows[o[2]].text)
  BY <1>5 DEF OthersRows
<1> QED BY <1>1, <1>2, <1>4, <1>6, WriteKeepsUInv

\* The posting that is linked instead is not written: the poll keeps its rows.
LEMMA RecoverInsertKeepsUInv == ASSUME IInv, UInv, NEW p \in Personas, RecoverInsert(p) PROVE UInv'
<1>1. PICK x \in Existing(View(p), work[p].ad) : Wrote(p, x, work[p].rows[x])
  BY DEF RecoverInsert
<1>2. work \in [Personas -> Transaction] /\ work[p].rows \in [Ads -> Posting \cup {None}]
  BY DEF IInv, TypeOK, SchedTypeOK, Transaction
<1>3. x \in Ads
  BY DEF Existing, ByKey, ByText, Rows
<1>4. work'[p].rows = [work[p].rows EXCEPT ![x] = work[p].rows[x]]
  BY <1>1, <1>2 DEF Wrote
<1>5. \A q \in Personas : q # p => work'[q] = work[q]
  BY <1>1, <1>2 DEF Wrote
<1>6. \A y \in Ads : work'[p].rows[y] = work[p].rows[y]
  BY <1>2, <1>4
<1>7. \A q \in Personas : SameRows(q)
  BY <1>5, <1>6 DEF SameRows
<1> QED BY <1>7, UniqueFrame DEF SameTexts, RecoverInsert, pool

\* A poll that starts, looks up, breaks or fails leaves the pool as it is.
LEMMA OtherStepsKeepUInv ==
    ASSUME IInv, UInv, NEW p \in Personas,
           SkipPoll(p) \/ StartPoll(p) \/ Lookup(p) \/ BrokenPoll(p) \/ FailPoll(p)
    PROVE  UInv'
<1>1. work \in [Personas -> Transaction]
  BY DEF IInv, TypeOK, SchedTypeOK
<1>2. SameTexts
  BY DEF SameTexts, SkipPoll, StartPoll, Lookup, BrokenPoll, FailPoll, pool
<1>3. CASE SkipPoll(p)
  BY <1>2, <1>3, UniqueFrame DEF SkipPoll, SameRows
<1>4. CASE StartPoll(p) \/ BrokenPoll(p) \/ FailPoll(p)
  <2>1. \A q \in Personas : q # p => work'[q] = work[q]
    BY <1>1, <1>4 DEF StartPoll, BrokenPoll, FailPoll, Close
  <2>2. \A x \in Ads : work'[p].rows[x] = None
    <3>1. CASE StartPoll(p)
      <4>1. PICK feed \in Feeds[p] :
              work' = [work EXCEPT ![p] = [Idle EXCEPT !.open = TRUE, !.at = now, !.feed = feed, !.todo = feed]]
        BY <3>1 DEF StartPoll
      <4>2. work'[p].rows = Idle.rows
        BY <1>1, <4>1 DEF Idle
      <4> QED BY <4>2, IdleIsOK
    <3>2. CASE BrokenPoll(p) \/ FailPoll(p)
      BY <1>1, <3>2, IdleIsOK DEF BrokenPoll, FailPoll, Close
    <3> QED BY <1>4, <3>1, <3>2
  <2> QED BY <1>2, <2>1, <2>2, UniqueFrame DEF SameRows
<1>5. CASE Lookup(p)
  <2>1. \A q \in Personas : work'[q].rows = work[q].rows
    <3>1. PICK a \in work[p].todo : \E x \in Hits(View(p), a) :
            work' = [work EXCEPT ![p] = [@ EXCEPT !.ad = a, !.step = Step(View(p), a), !.hit = x]]
      BY <1>5 DEF Lookup
    <3>2. PICK x \in Hits(View(p), a) :
            work' = [work EXCEPT ![p] = [@ EXCEPT !.ad = a, !.step = Step(View(p), a), !.hit = x]]
      BY <3>1
    <3> DEFINE step == Step(View(p), a)
    <3>3. work' = [work EXCEPT ![p] = [work[p] EXCEPT !.ad = a, !.step = step, !.hit = x]]
      BY <1>1, <3>2
    <3> HIDE DEF step
    <3>4. work[p] \in Transaction /\ \A q \in Personas : q # p => work'[q] = work[q]
      BY <1>1, <3>3
    <3>5. work'[p] = [work[p] EXCEPT !.ad = a, !.step = step, !.hit = x]
      BY <1>1, <3>3
    <3>6. work'[p].rows = work[p].rows
      BY <3>4, <3>5 DEF Transaction
    <3> QED BY <3>4, <3>6
  <2> QED BY <1>2, <2>1, UniqueFrame DEF SameRows
<1> QED BY <1>3, <1>4, <1>5

\* The rows of the poll become part of the pool: what the others see then are
\* rows that did not clash in two open polls, in one poll's view, or at all.
LEMMA CommitKeepsUInv == ASSUME IInv, UInv, NEW p \in Personas, Commit(p) PROVE UInv'
<1>1. posting' = View(p) /\ work' = [work EXCEPT ![p] = Idle]
  BY DEF Commit, CommitPoll, Published, Close
<1>2. work \in [Personas -> Transaction]
  BY DEF IInv, TypeOK, SchedTypeOK
<1>3. \A q \in Personas : q # p => work'[q] = work[q]
  BY <1>1, <1>2
<1>4. \A x \in Ads : work'[p].rows[x] = None
  BY <1>1, <1>2 DEF Idle
<1>5. Apart(posting, posting)'
  BY <1>1 DEF UInv, Apart
<1>6. ASSUME NEW q \in Personas PROVE Apart(View(q), View(q))'
  <2>0. \A x \in Ads : View(q)'[x] = IF work'[q].rows[x] = None THEN View(p)[x] ELSE work'[q].rows[x]
    BY <1>1 DEF View
  <2>1. CASE q = p
    BY <1>4, <2>0, <2>1 DEF UInv, Apart
  <2>2. CASE q # p
    <3>1. /\ Apart(View(p), View(p)) /\ Apart(View(q), View(q))
          /\ Apart(work[p].rows, work[q].rows)
      BY <2>2 DEF UInv
    <3> SUFFICES ASSUME NEW y \in Ads, NEW z \in Ads, y # z, View(q)'[y] # None, View(q)'[z] # None
                 PROVE  ~Clash(y, View(q)'[y].text, z, View(q)'[z].text)
      BY DEF Apart, Clash
    <3>2. ASSUME NEW u \in Ads, NEW v \in Ads, u # v, work[q].rows[u] # None, work[q].rows[v] = None,
                 View(p)[v] # None
          PROVE  /\ ~Clash(u, work[q].rows[u].text, v, View(p)[v].text)
                 /\ ~Clash(v, View(p)[v].text, u, work[q].rows[u].text)
      <4>1. CASE work[p].rows[v] # None
        BY <3>1, <3>2, <4>1 DEF Apart, Clash, View
      <4>2. CASE work[p].rows[v] = None
        <5>1. View(q)[u] = work[q].rows[u] /\ View(q)[v] = View(p)[v]
          BY <3>2, <4>2 DEF View
        <5> QED BY <3>1, <3>2, <5>1 DEF Apart
      <4> QED BY <4>1, <4>2
    <3>3. /\ View(q)'[y] = IF work[q].rows[y] = None THEN View(p)[y] ELSE work[q].rows[y]
          /\ View(q)'[z] = IF work[q].rows[z] = None THEN View(p)[z] ELSE work[q].rows[z]
      BY <1>3, <2>0, <2>2
    <3>4. CASE work[q].rows[y] = None /\ work[q].rows[z] = None
      BY <3>1, <3>3, <3>4 DEF Apart
    <3>5. CASE work[q].rows[y] # None /\ work[q].rows[z] # None
      BY <3>1, <3>3, <3>5 DEF Apart, View
    <3>6. CASE work[q].rows[y] # None /\ work[q].rows[z] = None
      BY <3>2, <3>3, <3>6
    <3>7. CASE work[q].rows[y] = None /\ work[q].rows[z] # None
      BY <3>2, <3>3, <3>7
    <3> QED BY <3>4, <3>5, <3>6, <3>7
  <2> QED BY <2>1, <2>2
<1>7. ASSUME NEW q \in Personas, NEW r \in Personas, q # r PROVE Apart(work[q].rows, work[r].rows)'
  BY <1>3, <1>4, <1>7 DEF UInv, Apart
<1> QED BY <1>5, <1>6, <1>7 DEF UInv

\* The one row a submission adds has no key, and a text that no committed row
\* has and no open poll has written.
LEMMA FinishFormKeepsUInv == ASSUME IInv, UInv, NEW p \in Personas, FinishForm(p) PROVE UInv'
<1> DEFINE a == form[p].ad
           row == Submitted(a, form[p].at)
<1>1. work' = work
  BY DEF FinishForm
<1>2. PICK x \in Targets(p) :
        \/ UNCHANGED posting
        \/ posting[x] = None /\ posting' = [posting EXCEPT ![x] = row]
  BY DEF FinishForm, pool
<1>3. a # None /\ (form[p].hit # None \/ NotAwaited(p))
  BY DEF FinishForm
<1>4. /\ a \in Ads /\ form[p].at \in 0..MaxTime /\ KeyOf[a] = NoKey
      /\ form[p].hit # None => posting[form[p].hit] # None
  BY <1>3, RequestTypes DEF IInv, Forms
<1>5. row # None /\ row.text = TextOf[a]
  BY <1>4, RequestTypes, SubmittedIsPosting DEF Submitted
<1> HIDE DEF row
<1>6. CASE UNCHANGED posting
  BY <1>1, <1>6, UniqueFrame DEF SameRows, SameTexts
<1>7. CASE posting[x] = None /\ posting' = [posting EXCEPT ![x] = row]
  <2>1. form[p].hit = None /\ ByText(posting, a) = {} /\ x = a
    BY <1>4, <1>7 DEF Targets, ByText, Rows
  <2>2. /\ posting'[a] = row /\ \A y \in Ads : y # a => posting'[y] = posting[y]
    BY <1>4, <1>7, <2>1 DEF IInv, TypeOK, PoolTypeOK
  <2>3. \A y \in Ads : posting[y] # None => posting[y].text # TextOf[a]
    BY <2>1 DEF ByText, Rows
  <2>4. \A q \in Personas, y \in Ads : work[q].rows[y] # None => work[q].rows[y].text # TextOf[a]
    BY <1>3, <2>1 DEF NotAwaited, TextsKept
  <2>5. \A q \in Personas : work[q].rows[a] = None
    BY <1>4, <1>7, <2>1 DEF IInv, OpenRows, RowOK
  <2>6. Apart(posting, posting)'
    BY <1>4, <1>5, <2>2, <2>3 DEF UInv, Apart, Clash
  <2>7. ASSUME NEW q \in Personas PROVE Apart(View(q), View(q))'
    <3>1. View(q)'[a] = row /\ \A y \in Ads : y # a => View(q)'[y] = View(q)[y]
      BY <1>1, <1>4, <2>2, <2>5 DEF View
    <3>2. \A y \in Ads : View(q)[y] # None => View(q)[y].text # TextOf[a]
      BY <2>3, <2>4 DEF View
    <3> QED BY <1>4, <1>5, <3>1, <3>2 DEF UInv, Apart, Clash
  <2>8. ASSUME NEW q \in Personas, NEW r \in Personas, q # r PROVE Apart(work[q].rows, work[r].rows)'
    BY <1>1, <2>8 DEF UInv, Apart
  <2> QED BY <2>6, <2>7, <2>8 DEF UInv
<1> QED BY <1>2, <1>6, <1>7

LEMMA NextKeepsUInv == IInv /\ UInv /\ [Next]_vars => UInv'
<1> SUFFICES ASSUME IInv, UInv, [Next]_vars PROVE UInv'
  OBVIOUS
<1> DEFINE Same == UNCHANGED <<work, posting>>
<1>1. ASSUME Same PROVE UInv'
  BY <1>1, UniqueFrame DEF SameRows, SameTexts
<1>2. ASSUME NEW p \in Personas, Poll(p) \/ PollFails(p) PROVE UInv'
  BY <1>2, OtherStepsKeepUInv, InsertKeepsUInv, RecoverInsertKeepsUInv, WriteExistingKeepsUInv,
     CommitKeepsUInv DEF Poll, PollFails
<1>3. CASE FinishPass
  <2>1. SameTexts
    BY <1>3, ReleasedRow DEF SameTexts
  <2>2. work' = work
    BY <1>3 DEF FinishPass
  <2> QED BY <2>1, <2>2, UniqueFrame DEF SameRows
<1>4. CASE Restart
  <2>1. \A p \in Personas, x \in Ads : work'[p].rows[x] = None
    BY <1>4 DEF Restart, Idle
  <2> QED BY <1>4, <2>1, UniqueFrame DEF Restart, pool, SameRows, SameTexts
<1>5. ASSUME NEW p \in Personas, FinishForm(p) PROVE UInv'
  BY <1>5, FinishFormKeepsUInv
<1>6. ASSUME NEW p \in Personas, Ingest(p) \/ Confirm(p) \/ Submit(p) \/ FailForm(p) PROVE Same
  BY <1>6 DEF Ingest, Confirm, Submit, FailForm, pool
<1>7. CASE Tick \/ Schedule \/ EmptyPass \/ StartPass \/ FailPass \/ UNCHANGED vars
  <2>1. Same
    BY <1>7 DEF Tick, Schedule, SchedulerPass, EmptyPass, StartPass, FailPass, vars, pool
  <2> QED BY <1>1, <2>1
<1> HIDE DEF Same
<1> QED BY <1>1, <1>2, <1>3, <1>4, <1>5, <1>6, <1>7 DEF Next, Users, Surface

\* The pool holds every job once: of all the polls and submissions that meet a
\* job at the same time, no two create a posting of it, and no posting takes the
\* text of another, although each of them looks before it writes.
THEOREM JobsAreNotDuplicated == Spec => []OneRowPerJob
<1>1. Init => IInv /\ UInv
  BY InitEstablishesIInv, InitEstablishesUInv
<1>2. IInv /\ UInv /\ [Next]_vars => (IInv /\ UInv)'
  BY NextKeepsIInv, NextKeepsUInv
<1>3. UInv => OneRowPerJob
  BY DEF UInv, Apart, Clash, OneRowPerJob, Rows
<1> QED BY <1>1, <1>2, <1>3, PTL DEF Spec
=============================================================================
