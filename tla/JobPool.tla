------------------------------ MODULE JobPool ------------------------------
(***************************************************************************)
(* The job pool shared by all users: postings, the links that show them to *)
(* a persona, the four steps of the global deduplication and the           *)
(* quarantine of what a user has submitted.                                *)
(*                                                                         *)
(* An ad is what a source or a user shows of a job; a posting is named     *)
(* after the ad it was created from.  The key of an ad is its source and   *)
(* external identifier, its text the hash of its description.              *)
(***************************************************************************)
EXTENDS Naturals, FiniteSets

CONSTANTS
    Personas,
    Ads,
    KeyOf,          \* source_id and external_id of an ad
    NoKey,          \* an ad without external_id: a manual submission
    TextOf,         \* description_hash of an ad
    Similar,        \* pairs of texts of one company, alike in title and description
    Fits,           \* pairs of a persona and an ad above the persona's threshold
    None,
    QuarantineTime, \* how long a manual submission is held back
    MaxTime         \* the clock stops here

ASSUME AdsAssumption == /\ IsFiniteSet(Ads) /\ IsFiniteSet(Personas)
                        /\ None \notin Ads \cup Personas
                        /\ DOMAIN KeyOf = Ads /\ DOMAIN TextOf = Ads
                        /\ Fits \subseteq Personas \X Ads
ASSUME TimeAssumption == QuarantineTime \in Nat \ {0} /\ MaxTime \in Nat

VARIABLES
    now,
    posting,        \* job_postings: the committed row of each posting, or None
    link            \* persona_jobs: how each persona has got each posting

pool == <<posting, link>>

Texts == {TextOf[a] : a \in Ads}
Posting == [at : 0..MaxTime, text : Texts, held : BOOLEAN, until : 0..(MaxTime + QuarantineTime)]
ASSUME NoneAssumption == None \notin Posting
Methods == {"scouter", "manual", "pool"}

PoolTypeOK ==
    /\ now \in 0..MaxTime
    /\ posting \in [Ads -> Posting \cup {None}]
    /\ link \in [Personas \X Ads -> Methods \cup {"none"}]

PoolInit ==
    /\ now = 0
    /\ posting = [x \in Ads |-> None]
    /\ link = [s \in Personas \X Ads |-> "none"]

\* A posting created by a transaction that started at "at": created_at is the
\* start of the transaction, not its commit.
Found(a, at) == [at |-> at, text |-> TextOf[a], held |-> FALSE, until |-> 0]
SubmittedLonger(a, at) == [at |-> at, text |-> TextOf[a], held |-> TRUE, until |-> now + QuarantineTime + 1]
Submitted(a, at) == [at |-> at, text |-> TextOf[a], held |-> TRUE, until |-> now + QuarantineTime]

Linked(l, p, x, method) == IF l[<<p, x>>] = "none" THEN [l EXCEPT ![<<p, x>>] = method] ELSE l

-----------------------------------------------------------------------------
(* What deduplicate_and_save looks for in the rows it can see *)

Rows(view) == {x \in Ads : view[x] # None}
ByKey(view, a) == {x \in Rows(view) : KeyOf[a] # NoKey /\ KeyOf[x] = KeyOf[a]}
ByText(view, a) == {x \in Rows(view) : view[x].text = TextOf[a]}
Reposted(view, a) == {x \in Rows(view) : <<view[x].text, TextOf[a]>> \in Similar}

\* The step that applies, and the postings it may act on.
Step(view, a) ==
    CASE ByKey(view, a) # {} -> "update"
      [] ByKey(view, a) = {} /\ ByText(view, a) # {} -> "found"
      [] ByKey(view, a) = {} /\ ByText(view, a) = {} ->
            IF Reposted(view, a) # {} THEN "repost" ELSE "create"

Hits(view, a) ==
    CASE Step(view, a) = "update" -> ByKey(view, a)
      [] Step(view, a) = "found" -> ByText(view, a)
      [] Step(view, a) \in {"repost", "create"} -> {None}

\* The two UNIQUE constraints a new row for the ad would break.
TakenKeyOnly(view, a) == ByKey(view, a)
Taken(view, a) == ByKey(view, a) \cup ByText(view, a)

\* The row _create_with_conflict_recovery falls back on.
Existing(view, a) == IF ByKey(view, a) # {} THEN ByKey(view, a) ELSE ByText(view, a)

\* What release_expired_quarantines lets go.
ExpiredAtOnce == {x \in Rows(posting) : posting[x].held /\ posting[x].until # 0}
Expired == {x \in Rows(posting) : /\ posting[x].held
                                  /\ posting[x].until # 0 /\ posting[x].until <= now}
=============================================================================
