------------------------------ MODULE Materials ------------------------------
(***************************************************************************)
(* Job variants of base resumes, cover letters and applications, as the    *)
(* endpoints change them (api/v1/job_variants.py, base_resumes.py,         *)
(* cover_letters.py, applications.py).  Every endpoint that changes a row  *)
(* SELECTs it, looks at it in Python and commits an UPDATE of the row;     *)
(* nothing locks the row in between, so another request may commit first.  *)
(* The ORM puts into the UPDATE only the columns whose new value differs   *)
(* from the one it loaded.                                                 *)
(***************************************************************************)
EXTENDS Naturals, FiniteSets

CONSTANTS
    Tabs,         \* browsers of the one user; each has one request at a time
    Bases,        \* base resumes
    Jobs,         \* postings the persona is linked to
    Variants,     \* rows of job_variants that can be made
    Letters,      \* rows of cover_letters
    Texts,        \* contents of a resume
    None,         \* NULL, no row, no request
    MaxRequests   \* bound: requests of all tabs together

VARIABLES
    base,         \* base_resumes: the text and the selections of each
    variant,      \* job_variants
    letter,       \* cover_letters
    application,  \* applications; UNIQUE (persona_id, job_posting_id)
    request,      \* what each tab's request has read and not yet written
    made,         \* requests so far
    before,       \* history: the status a variant was archived in
    late          \* history: what wrote to a variant that had changed since it was read

vars == <<base, variant, letter, application, request, made, before, late>>
rows == <<base, variant, letter, application>>
history == <<before, late>>

Status == {"Draft", "Approved", "Archived"}
Text == Texts \cup {None}

Base == [text: Text, selections: Texts]
Variant == [base: Bases, job: Jobs, text: Text, status: Status,
            snapshot: Text, selections: Text, approvedAt: BOOLEAN, archivedAt: BOOLEAN]
Letter == [status: Status, approvedAt: BOOLEAN, archivedAt: BOOLEAN]
ASSUME NoneIsNoRow == None \notin Variant \cup Letter
ASSUME MaxRequestsAssumption == MaxRequests \in Nat

(* "sent" and "approved" are history: the text and whether it was approved *)
(* when the application was made.                                          *)
Application == [variant: Variants, letter: Letters \cup {None}, sent: Text, approved: BOOLEAN]

TypeOK ==
    /\ base \in [Bases -> Base]
    /\ variant \in [Variants -> Variant \cup {None}]
    /\ letter \in [Letters -> Letter \cup {None}]
    /\ application \in [Jobs -> Application \cup {None}]
    /\ \A t \in Tabs : request[t] # None =>
          request[t].does \in {"create", "update", "delete", "load", "approve", "restore",
                               "base", "generate", "letter", "archiveLetter"}
    /\ made \in 0..MaxRequests
    /\ before \in [Variants -> Status \cup {None}]
    /\ late \in [Variants -> SUBSET {"update", "delete", "approve", "restore"}]

Init ==
    /\ base \in [Bases -> Base]
    /\ variant = [v \in Variants |-> None]
    /\ letter = [l \in Letters |-> None]
    /\ application = [j \in Jobs |-> None]
    /\ request = [t \in Tabs |-> None]
    /\ made = 0
    /\ before = [v \in Variants |-> None]
    /\ late = [v \in Variants |-> {}]

-----------------------------------------------------------------------------
(* Reading and writing a row.                                              *)

(* The handler has read what it needs and its checks have passed.          *)
Read(t, r) ==
    /\ request[t] = None
    /\ made < MaxRequests
    /\ request' = [request EXCEPT ![t] = r]
    /\ made' = made + 1
    /\ UNCHANGED <<rows, history>>

Doing(t, what) == request[t] # None /\ request[t].does = what

Answered(t) == request' = [request EXCEPT ![t] = None] /\ UNCHANGED made

(* The UPDATE of a row that was loaded as "seen": a column is in it when   *)
(* its value differs from the loaded one, a timestamp taken now always is. *)
Updated(row, seen, set, stamps) ==
    [c \in DOMAIN row |->
        IF c \in stamps THEN TRUE
        ELSE IF c \in DOMAIN set /\ set[c] # seen[c] THEN set[c]
        ELSE row[c]]

(* Mutant of Clash: the index is on the drafts.                            *)
ClashOfDrafts(v, row) ==
    /\ row.status = "Draft"
    /\ \E u \in Variants \ {v} :
          /\ variant[u] # None
          /\ variant[u].status = "Draft"
          /\ variant[u].base = row.base
          /\ variant[u].job = row.job

(* The unique index on (base_resume_id, job_posting_id) of the rows with   *)
(* archived_at NULL.                                                       *)
Clash(v, row) ==
    /\ ~row.archivedAt
    /\ \E u \in Variants \ {v} :
          /\ variant[u] # None
          /\ ~variant[u].archivedAt
          /\ variant[u].base = row.base
          /\ variant[u].job = row.job

(* An UPDATE the index refuses is an IntegrityError nobody catches: the    *)
(* session is rolled back and the tab sees a 500.                          *)
WriteVariant(t, set, stamps) ==
    LET v == request[t].on
        seen == request[t].row
        row == Updated(variant[v], seen, set, stamps)
    IN  /\ Answered(t)
        /\ IF Clash(v, row)
           THEN UNCHANGED <<variant, late>>
           ELSE /\ variant' = [variant EXCEPT ![v] = row]
                /\ late' = IF variant[v] = seen THEN late
                           ELSE [late EXCEPT ![v] = @ \cup {request[t].does}]
        /\ UNCHANGED <<base, letter, application>>

-----------------------------------------------------------------------------
(* Job variants.                                                           *)

(* POST /job-variants stores no text; /create-for-job copies the text of   *)
(* the base resume, or sends it to the LLM, which answers with any text.   *)
ReadForCreate(t, b, j, method) ==
    /\ method = "ai" => base[b].text # None
    /\ \E x \in (CASE method = "plain" -> {None}
                   [] method = "manual" -> {base[b].text}
                   [] OTHER -> Texts) :
          Read(t, [does |-> "create", on |-> b, job |-> j, text |-> x])

Create(t) ==
    /\ Doing(t, "create")
    /\ \E v \in Variants :
          LET row == [base |-> request[t].on, job |-> request[t].job, text |-> request[t].text,
                      status |-> "Draft", snapshot |-> None, selections |-> None,
                      approvedAt |-> FALSE, archivedAt |-> FALSE]
          IN  /\ variant[v] = None
              /\ variant' = IF Clash(v, row) THEN variant ELSE [variant EXCEPT ![v] = row]
    /\ Answered(t)
    /\ UNCHANGED <<base, letter, application, history>>

ReadVariant(t, what, v, x) ==
    /\ variant[v] # None
    /\ Read(t, [does |-> what, on |-> v, row |-> variant[v], text |-> x])

(* Mutant of ReadForUpdate: whatever is not archived can be edited.        *)
ReadForUpdateInUse(t, v, x) == /\ variant[v] # None /\ variant[v].status # "Archived"
                               /\ ReadVariant(t, "update", v, x)

ReadForUpdate(t, v, x) == /\ variant[v] # None /\ variant[v].status = "Draft"
                          /\ ReadVariant(t, "update", v, x)

Update(t) == /\ Doing(t, "update")
             /\ WriteVariant(t, [text |-> request[t].text], {})
             /\ UNCHANGED before

ReadForDelete(t, v) == ReadVariant(t, "delete", v, None)

Delete(t) ==
    /\ Doing(t, "delete")
    /\ WriteVariant(t, [status |-> "Archived"], {"archivedAt"})
    /\ LET v == request[t].on
       IN  before' = IF variant[v].status = "Archived" THEN before
                     ELSE [before EXCEPT ![v] = variant[v].status]

ReadForApprove(t, v) == ReadVariant(t, "load", v, None)

(* The base resume is loaded by a second SELECT, then the status is looked *)
(* at as it was in the first.                                              *)
LoadBase(t) ==
    /\ Doing(t, "load")
    /\ LET r == request[t]
       IN  request' = [request EXCEPT ![t] =
              IF r.row.status = "Draft"
              THEN [r EXCEPT !.does = "approve", !.text = base[r.row.base].selections]
              ELSE None]
    /\ UNCHANGED <<rows, made, history>>

Approve(t) ==
    /\ Doing(t, "approve")
    /\ WriteVariant(t, [status |-> "Approved", snapshot |-> request[t].row.text,
                        selections |-> request[t].text], {"approvedAt"})
    /\ UNCHANGED before

ReadForRestore(t, v) == /\ variant[v] # None /\ variant[v].status = "Archived"
                        /\ ReadVariant(t, "restore", v, None)

(* Mutants of RestoredStatus: the status of a base resume; always Draft;   *)
(* always Approved; by the snapshot, which is NULL for an empty text.      *)
RestoredActive(row) == IF row.approvedAt THEN "Approved" ELSE "Active"
RestoredDraft(row) == "Draft"
RestoredApproved(row) == "Approved"
RestoredBySnapshot(row) == IF row.snapshot # None THEN "Approved" ELSE "Draft"

RestoredStatus(row) == IF row.approvedAt THEN "Approved" ELSE "Draft"

Restore(t) ==
    /\ Doing(t, "restore")
    /\ WriteVariant(t, [status |-> RestoredStatus(request[t].row), archivedAt |-> FALSE], {})
    /\ UNCHANGED before

-----------------------------------------------------------------------------
(* Base resumes: PATCH sets any column; generate writes what the LLM       *)
(* answered over whatever text is there by then.                           *)

ReadBase(t, b, what, set) ==
    Read(t, [does |-> what, on |-> b, row |-> base[b], set |-> set])

ReadForUpdateBase(t, b, x, s) == ReadBase(t, b, "base", [text |-> x, selections |-> s])

ReadForGenerate(t, b, x) == ReadBase(t, b, "generate", [text |-> x])

WriteBase(t) ==
    /\ Doing(t, "base") \/ Doing(t, "generate")
    /\ LET r == request[t] IN base' = [base EXCEPT ![r.on] = Updated(@, r.row, r.set, {})]
    /\ Answered(t)
    /\ UNCHANGED <<variant, letter, application, history>>

-----------------------------------------------------------------------------
(* Cover letters: PATCH takes any status, and dates the approval when the  *)
(* letter becomes Approved.                                                *)

CreateLetter(t, l) ==
    /\ request[t] = None /\ made < MaxRequests
    /\ letter[l] = None
    /\ letter' = [letter EXCEPT ![l] = [status |-> "Draft", approvedAt |-> FALSE, archivedAt |-> FALSE]]
    /\ made' = made + 1
    /\ UNCHANGED <<base, variant, application, request, history>>

ReadLetter(t, l, what, to, stamps) ==
    /\ letter[l] # None
    /\ Read(t, [does |-> what, on |-> l, row |-> letter[l], set |-> [status |-> to], stamps |-> stamps])

ReadForUpdateLetter(t, l, to) ==
    /\ letter[l] # None
    /\ ReadLetter(t, l, "letter", to,
          IF to = "Approved" /\ letter[l].status # "Approved" THEN {"approvedAt"} ELSE {})

ReadForDeleteLetter(t, l) == ReadLetter(t, l, "archiveLetter", "Archived", {"archivedAt"})

WriteLetter(t) ==
    /\ Doing(t, "letter") \/ Doing(t, "archiveLetter")
    /\ LET r == request[t]
       IN  letter' = [letter EXCEPT ![r.on] = Updated(@, r.row, r.set, r.stamps)]
    /\ Answered(t)
    /\ UNCHANGED <<base, variant, application, history>>

-----------------------------------------------------------------------------
(* Applications.  What create_application reads is only that the rows are  *)
(* there, and no endpoint deletes one, so the INSERT stands for the        *)
(* handler.  It does not ask whether the variant is approved or is for the *)
(* same posting.                                                           *)
Apply(t, j, v, l) ==
    /\ request[t] = None /\ made < MaxRequests
    /\ variant[v] # None
    /\ l # None => letter[l] # None
    /\ application[j] = None     \* otherwise uq_application_persona_job: 500
    /\ application' = [application EXCEPT ![j] =
          [variant |-> v, letter |-> l, sent |-> variant[v].text,
           approved |-> variant[v].status = "Approved"]]
    /\ made' = made + 1
    /\ UNCHANGED <<base, variant, letter, request, history>>

-----------------------------------------------------------------------------
Begin(t) ==
    \/ \E b \in Bases, j \in Jobs, m \in {"plain", "manual", "ai"} : ReadForCreate(t, b, j, m)
    \/ \E v \in Variants, x \in Text : ReadForUpdate(t, v, x)
    \/ \E v \in Variants : ReadForDelete(t, v) \/ ReadForApprove(t, v) \/ ReadForRestore(t, v)
    \/ \E b \in Bases, x \in Text, s \in Texts : ReadForUpdateBase(t, b, x, s)
    \/ \E b \in Bases, x \in Texts : ReadForGenerate(t, b, x)
    \/ \E l \in Letters : CreateLetter(t, l) \/ ReadForDeleteLetter(t, l)
    \/ \E l \in Letters, to \in Status : ReadForUpdateLetter(t, l, to)
    \/ \E j \in Jobs, v \in Variants, l \in Letters \cup {None} : Apply(t, j, v, l)

Finish(t) ==
    \/ Create(t) \/ Update(t) \/ Delete(t) \/ LoadBase(t) \/ Approve(t) \/ Restore(t)
    \/ WriteBase(t) \/ WriteLetter(t)

Next == \E t \in Tabs : Begin(t) \/ Finish(t)

Spec == Init /\ [][Next]_vars

-----------------------------------------------------------------------------
Rows == {v \in Variants : variant[v] # None}

(* A variant or letter that shows as Approved has an approval date,        *)
(* whatever other request came between its reads and writes.  restore      *)
(* tells the status to go back to by that date alone.                      *)
ApprovedIsDated ==
    /\ \A v \in Rows : variant[v].status = "Approved" => variant[v].approvedAt
    /\ \A l \in Letters : letter[l] # None /\ letter[l].status = "Approved" => letter[l].approvedAt

(* "Approved variants are immutable" (job_variants.py:456): the text that  *)
(* is exported stays the text that was approved, except where an update    *)
(* passed its Draft check before the approval, the approval read the text  *)
(* before an update of it, or a restore made a Draft of it again.          *)
ApprovedIsFrozen ==
    \A v \in Rows : variant[v].status = "Approved" /\ variant[v].text # variant[v].snapshot
                       => late[v] \cap {"update", "approve", "restore"} # {}

(* One variant in use per base resume and posting: the index looks at      *)
(* archived_at, the readers at the status.  The two disagree only after an *)
(* approval that read the row before it was archived, or a delete that     *)
(* read it before it was restored and left the status out of its UPDATE.   *)
OneInUse ==
    \A u, v \in Rows :
       /\ u # v
       /\ variant[u].base = variant[v].base /\ variant[u].job = variant[v].job
       /\ "Archived" \notin {variant[u].status, variant[v].status}
       => (late[u] \cup late[v]) \cap {"delete", "approve"} # {}

(* The text of the resume an application was made with does not change     *)
(* afterwards if it was approved by then, through archiving and restoring  *)
(* too, except by an update or a restore that read the variant before      *)
(* another request changed it.                                             *)
SentIsKept ==
    \A j \in Jobs :
       LET a == application[j]
       IN  a # None /\ a.approved /\ variant[a.variant].text # a.sent
              => late[a.variant] \cap {"update", "restore"} # {}

(* restore brings a variant back to the status it was archived in, except  *)
(* where an approval or a restore read the row before another request      *)
(* changed it.  The status comes from approved_at, which only approve sets. *)
RestoredAsBefore ==
    [][\A v \in Rows :
          variant[v].status = "Archived" /\ variant'[v].status # "Archived"
             => \/ variant'[v].status = before[v]
                \/ late'[v] \cap {"approve", "restore"} # {}]_vars
=============================================================================
