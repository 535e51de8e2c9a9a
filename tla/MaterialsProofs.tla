--------------------------- MODULE MaterialsProofs ---------------------------
(***************************************************************************)
(* Theorems of Materials: its types, that whatever is Approved is dated,   *)
(* and that only a named race can thaw an approved text, put two variants  *)
(* in use, lose a sent one or restore one otherwise than it was, for any   *)
(* number of tabs, resumes, variants, letters and requests.                *)
(***************************************************************************)
EXTENDS Materials, TLAPS

VariantSteps == {"update", "delete", "load", "approve", "restore"}

(* What a request has read of a variant, and how the row has moved since.  *)
VariantRequest(r) ==
    /\ r = [does |-> r.does, on |-> r.on, row |-> r.row, text |-> r.text]
    /\ r.on \in Variants
    /\ r.row \in Variant
    /\ r.text \in Text
    /\ variant[r.on] \in Variant
    /\ r.row.approvedAt => variant[r.on].approvedAt

LetterRequest(r) ==
    /\ r.on \in Letters
    /\ r.row \in Letter
    /\ letter[r.on] \in Letter
    /\ r.row.approvedAt => letter[r.on].approvedAt
    /\ r.row.status = "Approved" => r.row.approvedAt
    /\ \E to \in Status : r.set = [status |-> to]
    /\ r.stamps \in SUBSET {"approvedAt", "archivedAt"}
    /\ r.set.status = "Approved" /\ r.row.status # "Approved" => "approvedAt" \in r.stamps

RequestOK(r) ==
    /\ r.does = "create" => r.on \in Bases /\ r.job \in Jobs /\ r.text \in Text
    /\ r.does \in VariantSteps => VariantRequest(r)
    /\ r.does \in {"base", "generate"} =>
          /\ r.on \in Bases
          /\ r.row \in Base
          /\ \/ \E x \in Text, s \in Texts : r.set = [text |-> x, selections |-> s]
             \/ \E x \in Texts : r.set = [text |-> x]
    /\ r.does \in {"letter", "archiveLetter"} => LetterRequest(r)

Inv ==
    /\ TypeOK
    /\ request = [t \in Tabs |-> request[t]]
    /\ \A t \in Tabs : request[t] # None => RequestOK(request[t])
    /\ ApprovedIsDated

-----------------------------------------------------------------------------
(* The values a handler may set are of the types of their columns.         *)
Assigns(set, stamps) ==
    /\ DOMAIN set \subseteq {"text", "status", "snapshot", "selections", "archivedAt"}
    /\ stamps \subseteq {"approvedAt", "archivedAt"}
    /\ "text" \in DOMAIN set => set["text"] \in Text
    /\ "status" \in DOMAIN set => set["status"] \in Status
    /\ "snapshot" \in DOMAIN set => set["snapshot"] \in Text
    /\ "selections" \in DOMAIN set => set["selections"] \in Text
    /\ "archivedAt" \in DOMAIN set => set["archivedAt"] \in BOOLEAN

(* An UPDATE of a variant leaves a variant: its columns keep their types,  *)
(* and a date once set stays.                                              *)
LEMMA UpdatedVariant ==
    ASSUME NEW row \in Variant, NEW seen, NEW set, NEW stamps,
           Assigns(set, stamps)
    PROVE  /\ Updated(row, seen, set, stamps) \in Variant
           /\ "approvedAt" \in stamps \/ row.approvedAt
                 => Updated(row, seen, set, stamps).approvedAt
           /\ Updated(row, seen, set, stamps).status
                 = IF "status" \in DOMAIN set /\ set["status"] # seen["status"]
                   THEN set["status"] ELSE row.status
<1> DEFINE u == Updated(row, seen, set, stamps)
           Columns == {"base", "job", "text", "status", "snapshot", "selections",
                       "approvedAt", "archivedAt"}
<1>1. DOMAIN row = Columns
  BY DEF Variant
<1>2. u = [c \in Columns |-> IF c \in stamps THEN TRUE
                             ELSE IF c \in DOMAIN set /\ set[c] # seen[c] THEN set[c]
                             ELSE row[c]]
  BY <1>1 DEF Updated
<1>3. /\ u["base"] = row["base"]
      /\ u["job"] = row["job"]
      /\ u["text"] \in Text
      /\ u["status"] \in Status
      /\ u["snapshot"] \in Text
      /\ u["selections"] \in Text
      /\ u["approvedAt"] = IF "approvedAt" \in stamps THEN TRUE ELSE row["approvedAt"]
      /\ u["archivedAt"] \in BOOLEAN
  BY <1>2 DEF Variant, Assigns
<1>4. u \in Variant
  <2>1. u = [base |-> u["base"], job |-> u["job"], text |-> u["text"], status |-> u["status"],
             snapshot |-> u["snapshot"], selections |-> u["selections"],
             approvedAt |-> u["approvedAt"], archivedAt |-> u["archivedAt"]]
    BY <1>2
  <2> QED
    BY <1>3, <2>1 DEF Variant
<1>5. u["status"] = IF "status" \in DOMAIN set /\ set["status"] # seen["status"]
                    THEN set["status"] ELSE row["status"]
  BY <1>2 DEF Assigns
<1> QED
  BY <1>3, <1>4, <1>5

LEMMA UpdatedLetter ==
    ASSUME NEW row \in Letter, NEW seen, NEW to \in Status, NEW stamps,
           stamps \subseteq {"approvedAt", "archivedAt"}
    PROVE  LET u == Updated(row, seen, [status |-> to], stamps)
           IN  /\ u \in Letter
               /\ "approvedAt" \in stamps \/ row.approvedAt => u.approvedAt
               /\ u.status = IF to # seen["status"] THEN to ELSE row.status
<1> DEFINE set == [status |-> to]
           u == Updated(row, seen, set, stamps)
           Columns == {"status", "approvedAt", "archivedAt"}
<1>1. DOMAIN row = Columns
  BY DEF Letter
<1>2. u = [c \in Columns |-> IF c \in stamps THEN TRUE
                             ELSE IF c \in DOMAIN set /\ set[c] # seen[c] THEN set[c]
                             ELSE row[c]]
  BY <1>1 DEF Updated
<1>3. /\ u["status"] = IF to # seen["status"] THEN to ELSE row["status"]
      /\ u["approvedAt"] = IF "approvedAt" \in stamps THEN TRUE ELSE row["approvedAt"]
      /\ u["archivedAt"] \in BOOLEAN
  BY <1>2, DOMAIN set = {"status"}, set["status"] = to DEF Letter
<1>4. u = [status |-> u["status"], approvedAt |-> u["approvedAt"], archivedAt |-> u["archivedAt"]]
  BY <1>2
<1> QED
  BY <1>3, <1>4 DEF Letter

LEMMA UpdatedBase ==
    ASSUME NEW row \in Base, NEW seen, NEW set,
           \/ \E x \in Text, s \in Texts : set = [text |-> x, selections |-> s]
           \/ \E x \in Texts : set = [text |-> x]
    PROVE  Updated(row, seen, set, {}) \in Base
<1> DEFINE u == Updated(row, seen, set, {})
<1>1. DOMAIN row = {"text", "selections"}
  BY DEF Base
<1>2. u = [c \in {"text", "selections"} |->
              IF c \in DOMAIN set /\ set[c] # seen[c] THEN set[c] ELSE row[c]]
  BY <1>1 DEF Updated
<1>3. /\ "text" \in DOMAIN set => set["text"] \in Text
      /\ "selections" \in DOMAIN set => set["selections"] \in Texts
  BY DEF Text
<1>4. u["text"] \in Text /\ u["selections"] \in Texts
  BY <1>2, <1>3 DEF Base
<1>5. u = [text |-> u["text"], selections |-> u["selections"]]
  BY <1>2
<1> QED
  BY <1>4, <1>5 DEF Base

-----------------------------------------------------------------------------
Does == {"create", "update", "delete", "load", "approve", "restore",
         "base", "generate", "letter", "archiveLetter"}

(* Rows stay, and a date once set stays.                                   *)
RowsKeepDates ==
    /\ \A v \in Variants : variant[v] \in Variant =>
          variant'[v] \in Variant /\ (variant[v].approvedAt => variant'[v].approvedAt)
    /\ \A l \in Letters : letter[l] \in Letter =>
          letter'[l] \in Letter /\ (letter[l].approvedAt => letter'[l].approvedAt)

(* What is known of a request survives the writes of the others.           *)
LEMMA RequestStays ==
    ASSUME NEW r, RequestOK(r), RowsKeepDates
    PROVE  RequestOK(r)'
<1>1. ASSUME VariantRequest(r) PROVE VariantRequest(r)'
  BY <1>1 DEF VariantRequest, RowsKeepDates
<1>2. ASSUME LetterRequest(r) PROVE LetterRequest(r)'
  BY <1>2 DEF LetterRequest, RowsKeepDates
<1> QED
  BY <1>1, <1>2 DEF RequestOK

LEMMA RequestsStay ==
    ASSUME Inv, NEW t \in Tabs, Answered(t), RowsKeepDates
    PROVE  /\ request' = [u \in Tabs |-> request'[u]]
           /\ \A u \in Tabs : request'[u] # None => request'[u].does \in Does
           /\ (\A u \in Tabs : request[u] # None => RequestOK(request[u]))'
<1>1. request' = [request EXCEPT ![t] = None] /\ request = [u \in Tabs |-> request[u]]
  BY DEF Answered, Inv
<1>2. ASSUME NEW u \in Tabs, request'[u] # None
      PROVE  request'[u] = request[u] /\ request[u].does \in Does /\ RequestOK(request[u])
  BY <1>1, <1>2 DEF Inv, TypeOK, Does
<1>3. ASSUME NEW u \in Tabs, NEW r, r = request'[u], r # None
      PROVE  RequestOK(r)'
  <2>1. RequestOK(r)
    BY <1>2, <1>3
  <2> QED
    BY <2>1, RequestStays
<1>4. ASSUME NEW u \in Tabs, request'[u] # None
      PROVE  RequestOK(request[u])'
  <2>1. PICK r : r = request'[u]
    OBVIOUS
  <2>2. RequestOK(r)'
    BY <1>3, <1>4, <2>1
  <2> QED
    BY <2>1, <2>2 DEF RequestOK, VariantRequest, LetterRequest
<1> QED
  BY <1>1, <1>2, <1>4

-----------------------------------------------------------------------------
(* The two halves of a handler keep the invariant.                         *)

LEMMA ReadKeeps ==
    ASSUME Inv, NEW t \in Tabs, NEW r, Read(t, r), r.does \in Does, RequestOK(r)
    PROVE  Inv'
<1>1. /\ request' = [request EXCEPT ![t] = r]
      /\ request = [u \in Tabs |-> request[u]]
      /\ made' \in 0..MaxRequests
      /\ UNCHANGED <<base, variant, letter, application, before, late>>
  BY MaxRequestsAssumption DEF Read, Inv, TypeOK, rows, history
<1>2. RowsKeepDates
  BY <1>1 DEF RowsKeepDates
<1>3. ASSUME NEW u \in Tabs, NEW q, q = request'[u], q # None
      PROVE  q.does \in Does /\ RequestOK(q)'
  <2>1. q.does \in Does /\ RequestOK(q)
    BY <1>1, <1>3 DEF Inv, TypeOK, Does
  <2> QED
    BY <1>2, <2>1, RequestStays
<1>4. ASSUME NEW u \in Tabs, request'[u] # None
      PROVE  request'[u].does \in Does /\ RequestOK(request[u])'
  <2>1. PICK q : q = request'[u]
    OBVIOUS
  <2>2. q.does \in Does /\ RequestOK(q)'
    BY <1>3, <1>4, <2>1
  <2> QED
    BY <2>1, <2>2 DEF RequestOK, VariantRequest, LetterRequest
<1>5. TypeOK'
  BY <1>1, <1>4 DEF Inv, TypeOK, Does
<1>6. ApprovedIsDated'
  BY <1>1 DEF Inv, ApprovedIsDated, Rows
<1>7. request' = [u \in Tabs |-> request'[u]]
  BY <1>1
<1> QED
  BY <1>4, <1>5, <1>6, <1>7 DEF Inv

(* Writing a variant: a status Approved comes with a date, the one of now  *)
(* or the one that was read.                                               *)
LEMMA WriteVariantKeeps ==
    ASSUME Inv, NEW t \in Tabs, request[t] # None, VariantRequest(request[t]),
           request[t].does \in {"update", "delete", "approve", "restore"},
           NEW set, NEW stamps, WriteVariant(t, set, stamps),
           Assigns(set, stamps),
           "status" \in DOMAIN set /\ set["status"] = "Approved"
              => "approvedAt" \in stamps \/ request[t].row.approvedAt,
           before' \in [Variants -> Status \cup {None}]
    PROVE  Inv'
<1> DEFINE v == request[t].on
           row == Updated(variant[v], request[t].row, set, stamps)
<1>1. /\ v \in Variants
      /\ variant[v] \in Variant
      /\ request[t].row.approvedAt => variant[v].approvedAt
  BY DEF VariantRequest
<1>2. /\ row \in Variant
      /\ "approvedAt" \in stamps \/ variant[v].approvedAt => row.approvedAt
      /\ row.status = IF "status" \in DOMAIN set /\ set["status"] # request[t].row["status"]
                      THEN set["status"] ELSE variant[v].status
  <2>1. PICK seen, old : seen = request[t].row /\ old = variant[v]
    OBVIOUS
  <2>2. old \in Variant
    BY <1>1, <2>1
  <2>3. /\ Updated(old, seen, set, stamps) \in Variant
        /\ "approvedAt" \in stamps \/ old.approvedAt
              => Updated(old, seen, set, stamps).approvedAt
        /\ Updated(old, seen, set, stamps).status
              = IF "status" \in DOMAIN set /\ set["status"] # seen["status"]
                THEN set["status"] ELSE old.status
    BY <2>2, UpdatedVariant
  <2> QED
    BY <2>1, <2>3
<1>3. row.status = "Approved" => row.approvedAt
  <2>1. CASE "status" \in DOMAIN set /\ set["status"] # request[t].row["status"]
    BY <1>1, <1>2, <2>1
  <2>2. CASE ~("status" \in DOMAIN set /\ set["status"] # request[t].row["status"])
    <3>1. row.status = variant[v].status
      BY <1>2, <2>2
    <3>2. variant[v].status = "Approved" => variant[v].approvedAt
      BY <1>1, NoneIsNoRow DEF Inv, ApprovedIsDated, Rows
    <3> QED
      BY <1>2, <3>1, <3>2
  <2> QED
    BY <2>1, <2>2
<1>4. /\ Answered(t)
      /\ variant' = variant \/ variant' = [variant EXCEPT ![v] = row]
      /\ UNCHANGED <<base, letter, application, made>>
  BY DEF WriteVariant, Answered
<1>5. late' \in [Variants -> SUBSET {"update", "delete", "approve", "restore"}]
  BY <1>1 DEF WriteVariant, Inv, TypeOK
<1>6. variant' \in [Variants -> Variant \cup {None}] /\ RowsKeepDates
  <2>1. variant \in [Variants -> Variant \cup {None}]
    BY DEF Inv, TypeOK
  <2>2. variant[v].approvedAt => row.approvedAt
    BY <1>2
  <2> HIDE DEF row
  <2>3. variant' \in [Variants -> Variant \cup {None}]
    BY <1>1, <1>2, <1>4, <2>1
  <2>4. ASSUME NEW u \in Variants, variant[u] \in Variant
        PROVE  variant'[u] \in Variant /\ (variant[u].approvedAt => variant'[u].approvedAt)
    <3>1. variant'[u] = variant[u] \/ (u = v /\ variant'[u] = row)
      BY <1>1, <1>4, <2>1
    <3> QED
      BY <1>2, <2>2, <2>4, <3>1
  <2> QED
    BY <1>4, <2>3, <2>4 DEF RowsKeepDates
<1>7. /\ request' = [u \in Tabs |-> request'[u]]
      /\ \A u \in Tabs : request'[u] # None => request'[u].does \in Does
      /\ (\A u \in Tabs : request[u] # None => RequestOK(request[u]))'
  BY <1>4, <1>6, RequestsStay
<1>8. TypeOK'
  BY <1>4, <1>5, <1>6, <1>7 DEF Inv, TypeOK, Does
<1>9. ApprovedIsDated'
  BY <1>1, <1>3, <1>4 DEF Inv, TypeOK, ApprovedIsDated, Rows
<1> QED
  BY <1>7, <1>8, <1>9 DEF Inv

-----------------------------------------------------------------------------
(* Every read half passes what RequestOK asks of a request.                *)
LEMMA BeginKeeps ==
    ASSUME Inv, NEW t \in Tabs, Begin(t)
    PROVE  Inv'
<1>1. ASSUME NEW b \in Bases, NEW j \in Jobs, NEW m, ReadForCreate(t, b, j, m)
      PROVE  Inv'
  <2>1. PICK x \in Text : Read(t, [does |-> "create", on |-> b, job |-> j, text |-> x])
    BY <1>1 DEF ReadForCreate, Inv, TypeOK, Base, Text
  <2> DEFINE r == [does |-> "create", on |-> b, job |-> j, text |-> x]
  <2>2. RequestOK(r) /\ r.does \in Does
    BY DEF RequestOK, Does, VariantSteps
  <2> QED
    BY <2>1, <2>2, ReadKeeps
<1>2. ASSUME NEW v \in Variants, NEW x \in Text, NEW what \in VariantSteps,
             ReadVariant(t, what, v, x)
      PROVE  Inv'
  <2>1. PICK r : r = [does |-> what, on |-> v, row |-> variant[v], text |-> x]
    OBVIOUS
  <2>2. variant[v] \in Variant
    BY <1>2 DEF ReadVariant, Inv, TypeOK
  <2>3. RequestOK(r) /\ r.does \in Does
    BY <2>1, <2>2 DEF RequestOK, VariantRequest, VariantSteps, Does
  <2> QED
    BY <1>2, <2>1, <2>3, ReadKeeps DEF ReadVariant
<1>3. ASSUME NEW b \in Bases, NEW what \in {"base", "generate"}, NEW set, ReadBase(t, b, what, set),
             \/ \E x \in Text, s \in Texts : set = [text |-> x, selections |-> s]
             \/ \E x \in Texts : set = [text |-> x]
      PROVE  Inv'
  <2>1. PICK r : r = [does |-> what, on |-> b, row |-> base[b], set |-> set]
    OBVIOUS
  <2>2. base[b] \in Base
    BY DEF Inv, TypeOK
  <2>3. RequestOK(r) /\ r.does \in Does
    BY <1>3, <2>1, <2>2 DEF RequestOK, VariantSteps, Does
  <2> QED
    BY <1>3, <2>1, <2>3, ReadKeeps DEF ReadBase
<1>4. ASSUME NEW l \in Letters, CreateLetter(t, l)
      PROVE  Inv'
  <2> DEFINE new == [status |-> "Draft", approvedAt |-> FALSE, archivedAt |-> FALSE]
  <2>1. new \in Letter
    BY DEF Letter, Status
  <2>2. /\ letter' = [letter EXCEPT ![l] = new]
        /\ letter[l] = None
        /\ UNCHANGED <<base, variant, application, request, before, late>>
        /\ made' \in 0..MaxRequests
    BY <1>4, MaxRequestsAssumption DEF CreateLetter, history, Inv, TypeOK
  <2>3. letter' \in [Letters -> Letter \cup {None}]
    BY <2>1, <2>2 DEF Inv, TypeOK
  <2>4. RowsKeepDates
    BY <2>2, NoneIsNoRow DEF RowsKeepDates, Inv, TypeOK
  <2>5. ASSUME NEW u \in Tabs, request'[u] # None
        PROVE  RequestOK(request[u])'
    <3>1. PICK q : q = request[u]
      OBVIOUS
    <3>2. RequestOK(q)'
      BY <2>2, <2>4, <2>5, <3>1, RequestStays DEF Inv
    <3> QED
      BY <2>2, <3>1, <3>2 DEF RequestOK, VariantRequest, LetterRequest
  <2>6. TypeOK'
    BY <2>2, <2>3 DEF Inv, TypeOK
  <2>7. ApprovedIsDated'
    BY <2>2 DEF Inv, TypeOK, ApprovedIsDated, Rows
  <2> QED
    BY <2>2, <2>5, <2>6, <2>7 DEF Inv
<1>5. ASSUME NEW l \in Letters, NEW what \in {"letter", "archiveLetter"}, NEW to \in Status,
             NEW stamps \in SUBSET {"approvedAt", "archivedAt"}, ReadLetter(t, l, what, to, stamps),
             to = "Approved" /\ letter[l].status # "Approved" => "approvedAt" \in stamps
      PROVE  Inv'
  <2>1. PICK r : r = [does |-> what, on |-> l, row |-> letter[l], set |-> [status |-> to],
                      stamps |-> stamps]
    OBVIOUS
  <2>2. letter[l] \in Letter /\ (letter[l].status = "Approved" => letter[l].approvedAt)
    BY <1>5 DEF ReadLetter, Inv, TypeOK, ApprovedIsDated
  <2>3. LetterRequest(r)
    BY <1>5, <2>1, <2>2 DEF LetterRequest
  <2>4. RequestOK(r) /\ r.does \in Does
    BY <2>1, <2>3 DEF RequestOK, VariantSteps, Does
  <2> QED
    BY <1>5, <2>1, <2>4, ReadKeeps DEF ReadLetter
<1>6. ASSUME NEW j \in Jobs, NEW v \in Variants, NEW l \in Letters \cup {None}, Apply(t, j, v, l)
      PROVE  Inv'
  <2>1. variant[v] \in Variant
    BY <1>6 DEF Apply, Inv, TypeOK
  <2>2. [variant |-> v, letter |-> l, sent |-> variant[v].text,
         approved |-> variant[v].status = "Approved"] \in Application
    BY <2>1 DEF Application, Variant
  <2>3. /\ application' \in [Jobs -> Application \cup {None}]
        /\ made' \in 0..MaxRequests
        /\ UNCHANGED <<base, variant, letter, request, before, late>>
    BY <1>6, <2>2, MaxRequestsAssumption DEF Apply, history, Inv, TypeOK
  <2> QED
    BY <2>3 DEF Inv, TypeOK, ApprovedIsDated, Rows, RequestOK, VariantRequest, LetterRequest
<1>7. ASSUME NEW v \in Variants, ReadForDelete(t, v) \/ ReadForApprove(t, v) \/ ReadForRestore(t, v)
      PROVE  Inv'
  BY <1>2, <1>7 DEF ReadForDelete, ReadForApprove, ReadForRestore, VariantSteps, Text
<1>8. ASSUME NEW v \in Variants, NEW x \in Text, ReadForUpdate(t, v, x)
      PROVE  Inv'
  BY <1>2, <1>8 DEF ReadForUpdate, VariantSteps
<1>9. ASSUME NEW b \in Bases, NEW x \in Text, NEW s \in Texts, ReadForUpdateBase(t, b, x, s)
      PROVE  Inv'
  BY <1>3, <1>9 DEF ReadForUpdateBase
<1>10. ASSUME NEW b \in Bases, NEW x \in Texts, ReadForGenerate(t, b, x)
       PROVE  Inv'
  BY <1>3, <1>10 DEF ReadForGenerate
<1>11. ASSUME NEW l \in Letters, ReadForDeleteLetter(t, l)
       PROVE  Inv'
  BY <1>5, <1>11 DEF ReadForDeleteLetter, Status
<1>12. ASSUME NEW l \in Letters, NEW to \in Status, ReadForUpdateLetter(t, l, to)
       PROVE  Inv'
  <2>1. PICK stamps \in SUBSET {"approvedAt", "archivedAt"} :
           /\ stamps = IF to = "Approved" /\ letter[l].status # "Approved" THEN {"approvedAt"} ELSE {}
           /\ ReadLetter(t, l, "letter", to, stamps)
    BY <1>12 DEF ReadForUpdateLetter
  <2> QED
    BY <1>5, <2>1
<1> QED
  BY <1>1, <1>4, <1>6, <1>7, <1>8, <1>9, <1>10, <1>11, <1>12 DEF Begin

(* Every write half leaves a row of the right type; what becomes Approved  *)
(* has a date.                                                             *)
LEMMA FinishKeeps ==
    ASSUME Inv, NEW t \in Tabs, Finish(t)
    PROVE  Inv'
<1>0. request[t] # None => RequestOK(request[t])
  BY DEF Inv
<1>1. CASE Create(t)
  <2>1. request[t] # None /\ request[t].on \in Bases /\ request[t].job \in Jobs /\ request[t].text \in Text
    BY <1>0, <1>1 DEF Create, Doing, RequestOK
  <2> DEFINE row == [base |-> request[t].on, job |-> request[t].job, text |-> request[t].text,
                     status |-> "Draft", snapshot |-> None, selections |-> None,
                     approvedAt |-> FALSE, archivedAt |-> FALSE]
  <2>2. row \in Variant
    BY <2>1 DEF Variant, Status, Text
  <2>3. row.status # "Approved"
    OBVIOUS
  <2>4. PICK v \in Variants : variant[v] = None /\ (variant' = variant \/ variant' = [variant EXCEPT ![v] = row])
    BY <1>1 DEF Create
  <2> HIDE DEF row
  <2>5. Answered(t) /\ UNCHANGED <<base, letter, application, made, before, late>>
    BY <1>1 DEF Create, Answered, history
  <2>6. variant' \in [Variants -> Variant \cup {None}] /\ RowsKeepDates
    BY <2>2, <2>4, <2>5, NoneIsNoRow DEF Inv, TypeOK, RowsKeepDates
  <2>7. ApprovedIsDated'
    BY <2>3, <2>4, <2>5 DEF Inv, TypeOK, ApprovedIsDated, Rows
  <2> QED
    BY <2>5, <2>6, <2>7, RequestsStay DEF Inv, TypeOK, Does
<1>2. CASE Update(t)
  <2>1. PICK set : set = [text |-> request[t].text] /\ WriteVariant(t, set, {})
    BY <1>2 DEF Update
  <2>2. request[t] # None /\ request[t].does = "update" /\ VariantRequest(request[t])
    BY <1>0, <1>2 DEF Update, Doing, RequestOK, VariantSteps
  <2>3. Assigns(set, {}) /\ "status" \notin DOMAIN set
    BY <2>1, <2>2 DEF Assigns, VariantRequest
  <2>4. before' \in [Variants -> Status \cup {None}]
    BY <1>2 DEF Update, Inv, TypeOK
  <2> QED
    BY <2>1, <2>2, <2>3, <2>4, WriteVariantKeeps
<1>3. CASE Delete(t)
  <2>1. PICK set, stamps : /\ set = [status |-> "Archived"] /\ stamps = {"archivedAt"}
                           /\ WriteVariant(t, set, stamps)
    BY <1>3 DEF Delete
  <2>2. request[t] # None /\ request[t].does = "delete" /\ VariantRequest(request[t])
    BY <1>0, <1>3 DEF Delete, Doing, RequestOK, VariantSteps
  <2>3. Assigns(set, stamps) /\ set["status"] # "Approved"
    BY <2>1 DEF Assigns, Status
  <2>4. before' \in [Variants -> Status \cup {None}]
    BY <1>3, <2>2 DEF Delete, Inv, TypeOK, VariantRequest, Variant
  <2> QED
    BY <2>1, <2>2, <2>3, <2>4, WriteVariantKeeps
<1>4. CASE LoadBase(t)
  <2>1. /\ request[t] # None /\ request[t].does = "load" /\ VariantRequest(request[t])
        /\ request[t].row.base \in Bases
    BY <1>0, <1>4 DEF LoadBase, Doing, RequestOK, VariantSteps, VariantRequest, Variant
  <2>2. PICK r : r = [request[t] EXCEPT !.does = "approve",
                                        !.text = base[request[t].row.base].selections]
    OBVIOUS
  <2>3. request' = [request EXCEPT ![t] = r] \/ Answered(t)
    BY <1>4, <2>2 DEF LoadBase, Answered
  <2>4. UNCHANGED <<base, variant, letter, application, made, before, late>>
    BY <1>4 DEF LoadBase, rows, history
  <2>5. RowsKeepDates
    BY <2>4 DEF RowsKeepDates
  <2>6. CASE Answered(t)
    BY <2>4, <2>5, <2>6, RequestsStay DEF Inv, TypeOK, Does, ApprovedIsDated, Rows
  <2>7. CASE request' = [request EXCEPT ![t] = r]
    <3>1. base[request[t].row.base].selections \in Text
      BY <2>1 DEF Inv, TypeOK, Base, Text
    <3>2. r = [does |-> "approve", on |-> request[t].on, row |-> request[t].row,
               text |-> base[request[t].row.base].selections]
      BY <2>1, <2>2 DEF VariantRequest
    <3>3. RequestOK(r) /\ r.does \in Does
      BY <2>1, <3>1, <3>2 DEF RequestOK, VariantRequest, VariantSteps, Does
    <3>4. ASSUME NEW u \in Tabs, NEW q, q = request'[u], q # None
          PROVE  q.does \in Does /\ RequestOK(q)'
      <4>1. q.does \in Does /\ RequestOK(q)
        BY <2>7, <3>3, <3>4 DEF Inv, TypeOK, Does
      <4> QED
        BY <2>5, <4>1, RequestStays
    <3>5. ASSUME NEW u \in Tabs, request'[u] # None
          PROVE  request'[u].does \in Does /\ RequestOK(request[u])'
      <4>1. PICK q : q = request'[u]
        OBVIOUS
      <4>2. q.does \in Does /\ RequestOK(q)'
        BY <3>4, <3>5, <4>1
      <4> QED
        BY <4>1, <4>2 DEF RequestOK, VariantRequest, LetterRequest
    <3>6. request' = [u \in Tabs |-> request'[u]]
      BY <2>7 DEF Inv
    <3> QED
      BY <2>4, <3>5, <3>6 DEF Inv, TypeOK, Does, ApprovedIsDated, Rows
  <2> QED
    BY <2>3, <2>6, <2>7
<1>5. CASE Approve(t)
  <2>1. PICK set, stamps : /\ set = [status |-> "Approved", snapshot |-> request[t].row.text,
                                     selections |-> request[t].text]
                           /\ stamps = {"approvedAt"}
                           /\ WriteVariant(t, set, stamps)
    BY <1>5 DEF Approve
  <2>2. request[t] # None /\ request[t].does = "approve" /\ VariantRequest(request[t])
    BY <1>0, <1>5 DEF Approve, Doing, RequestOK, VariantSteps
  <2>3. Assigns(set, stamps)
    BY <2>1, <2>2 DEF Assigns, VariantRequest, Variant, Status
  <2>4. before' \in [Variants -> Status \cup {None}]
    BY <1>5 DEF Approve, Inv, TypeOK
  <2> QED
    BY <2>1, <2>2, <2>3, <2>4, WriteVariantKeeps
<1>6. CASE Restore(t)
  <2>1. PICK set : /\ set = [status |-> RestoredStatus(request[t].row), archivedAt |-> FALSE]
                   /\ WriteVariant(t, set, {})
    BY <1>6 DEF Restore
  <2>2. request[t] # None /\ request[t].does = "restore" /\ VariantRequest(request[t])
    BY <1>0, <1>6 DEF Restore, Doing, RequestOK, VariantSteps
  <2>3. Assigns(set, {}) /\ (set["status"] = "Approved" => request[t].row.approvedAt)
    BY <2>1 DEF Assigns, RestoredStatus, Status
  <2>4. before' \in [Variants -> Status \cup {None}]
    BY <1>6 DEF Restore, Inv, TypeOK
  <2> QED
    BY <2>1, <2>2, <2>3, <2>4, WriteVariantKeeps
<1>7. CASE WriteBase(t)
  <2>1. PICK b \in Bases : /\ b = request[t].on
                           /\ base' = [base EXCEPT ![b] = Updated(base[b], request[t].row, request[t].set, {})]
                           /\ Updated(base[b], request[t].row, request[t].set, {}) \in Base
    <3>1. /\ request[t].on \in Bases
          /\ base[request[t].on] \in Base
          /\ \/ \E x \in Text, s \in Texts : request[t].set = [text |-> x, selections |-> s]
             \/ \E x \in Texts : request[t].set = [text |-> x]
      BY <1>0, <1>7 DEF WriteBase, Doing, RequestOK, Inv, TypeOK
    <3>2. PICK b, seen, set : b = request[t].on /\ seen = request[t].row /\ set = request[t].set
      OBVIOUS
    <3>3. Updated(base[b], seen, set, {}) \in Base
      BY <3>1, <3>2, UpdatedBase
    <3> QED
      BY <1>7, <3>1, <3>2, <3>3 DEF WriteBase
  <2>2. Answered(t) /\ UNCHANGED <<variant, letter, application, made, before, late>>
    BY <1>7 DEF WriteBase, Answered, history
  <2>3. base' \in [Bases -> Base] /\ RowsKeepDates
    BY <2>1, <2>2 DEF Inv, TypeOK, RowsKeepDates
  <2> QED
    BY <2>2, <2>3, RequestsStay DEF Inv, TypeOK, Does, ApprovedIsDated, Rows
<1>8. CASE WriteLetter(t)
  <2>1. LetterRequest(request[t])
    BY <1>0, <1>8 DEF WriteLetter, Doing, RequestOK
  <2>2. PICK l, old, seen, to, stamps :
           /\ l = request[t].on /\ old = letter[l] /\ seen = request[t].row
           /\ to \in Status /\ request[t].set = [status |-> to] /\ stamps = request[t].stamps
    BY <2>1 DEF LetterRequest
  <2>3. /\ l \in Letters /\ old \in Letter /\ stamps \in SUBSET {"approvedAt", "archivedAt"}
        /\ seen.approvedAt => old.approvedAt
        /\ seen.status = "Approved" => seen.approvedAt
        /\ to = "Approved" /\ seen.status # "Approved" => "approvedAt" \in stamps
    BY <2>1, <2>2 DEF LetterRequest
  <2>4. PICK new : new = Updated(old, seen, [status |-> to], stamps)
    OBVIOUS
  <2>5. /\ new \in Letter
        /\ "approvedAt" \in stamps \/ old.approvedAt => new.approvedAt
        /\ new.status = IF to # seen["status"] THEN to ELSE old.status
    BY <2>2, <2>3, <2>4, UpdatedLetter
  <2>6. old.status = "Approved" => old.approvedAt
    BY <2>2, <2>3, NoneIsNoRow DEF Inv, ApprovedIsDated
  <2>7. new.status = "Approved" => new.approvedAt
    BY <2>3, <2>5, <2>6
  <2>8. /\ letter' = [letter EXCEPT ![l] = new]
        /\ Answered(t)
        /\ UNCHANGED <<base, variant, application, made, before, late>>
    BY <1>8, <2>2, <2>4 DEF WriteLetter, Answered, history
  <2>9. letter' \in [Letters -> Letter \cup {None}] /\ RowsKeepDates
    BY <2>2, <2>3, <2>5, <2>8 DEF Inv, TypeOK, RowsKeepDates
  <2>10. ApprovedIsDated'
    BY <2>3, <2>7, <2>8 DEF Inv, TypeOK, ApprovedIsDated, Rows
  <2> QED
    BY <2>8, <2>9, <2>10, RequestsStay DEF Inv, TypeOK, Does
<1> QED
  BY <1>1, <1>2, <1>3, <1>4, <1>5, <1>6, <1>7, <1>8 DEF Finish

-----------------------------------------------------------------------------
LEMMA StutterKeeps ==
    ASSUME Inv, UNCHANGED vars
    PROVE  Inv'
<1>1. UNCHANGED <<base, variant, letter, application, request, made, before, late>>
  BY DEF vars
<1>2. TypeOK' /\ ApprovedIsDated'
  BY <1>1 DEF Inv, TypeOK, ApprovedIsDated, Rows
<1>3. RowsKeepDates
  BY <1>1 DEF RowsKeepDates
<1>4. ASSUME NEW u \in Tabs, request'[u] # None
      PROVE  RequestOK(request[u])'
  <2>1. PICK q : q = request[u]
    OBVIOUS
  <2>2. RequestOK(q)'
    BY <1>1, <1>3, <1>4, <2>1, RequestStays DEF Inv
  <2> QED
    BY <1>1, <2>1, <2>2 DEF RequestOK, VariantRequest, LetterRequest
<1> QED
  BY <1>1, <1>2, <1>4 DEF Inv

LEMMA InvHolds == Spec => []Inv
<1>1. Init => Inv
  BY MaxRequestsAssumption DEF Init, Inv, TypeOK, ApprovedIsDated, Rows
<1>2. Inv /\ [Next]_vars => Inv'
  <2> SUFFICES ASSUME Inv, [Next]_vars PROVE Inv'
    OBVIOUS
  <2>1. CASE Next
    BY <2>1, BeginKeeps, FinishKeeps DEF Next
  <2>2. CASE UNCHANGED vars
    BY <2>2, StutterKeeps
  <2> QED
    BY <2>1, <2>2
<1> QED
  BY <1>1, <1>2, PTL DEF Spec

(* The types of Materials, for every number of tabs, rows and requests:    *)
(* no UPDATE the handlers of job_variants.py, base_resumes.py and          *)
(* cover_letters.py put together from a stale read leaves a row of another *)
(* shape.                                                                  *)
THEOREM TypeCorrect == Spec => []TypeOK
<1>1. Inv => TypeOK
  BY DEF Inv
<1> QED
  BY <1>1, InvHolds, PTL

(* An Approved variant or letter has its date (job_variants.py:549,        *)
(* cover_letters.py:293), whichever requests read it before others wrote:  *)
(* restore, which goes by the date, never takes an approval back because   *)
(* the date is missing.                                                    *)
THEOREM ApprovedDated == Spec => []ApprovedIsDated
<1>1. Inv => ApprovedIsDated
  BY DEF Inv
<1> QED
  BY <1>1, InvHolds, PTL
-----------------------------------------------------------------------------
(* Which stale read may break which promise of Materials, and that nothing *)
(* else does.                                                              *)

(* A row, what wrote to it late, and the status it was archived in.        *)
RowOK(row, l, b) ==
    /\ row.status = "Archived" => row.archivedAt
    /\ l \cap {"update", "approve", "restore"} = {} /\ row.approvedAt
          => row.status # "Draft" /\ row.text = row.snapshot
    /\ "restore" \notin l /\ row.approvedAt => row.status # "Draft"
    /\ l \cap {"delete", "approve"} = {} /\ row.archivedAt => row.status = "Archived"
    /\ l \cap {"approve", "restore"} = {}
          => RestoredStatus(row) = IF row.status = "Archived" THEN b ELSE row.status

(* What the checks after the SELECT have shown of the row.                 *)
SeenOK(r) ==
    /\ r.does \in {"update", "approve"} => r.row.status = "Draft"
    /\ r.does = "restore" => r.row.status = "Archived"
    /\ r.does \in VariantSteps /\ r.row.status = "Archived" => r.row.archivedAt

IndexHolds ==
    \A u, v \in Rows :
       u # v /\ variant[u].base = variant[v].base /\ variant[u].job = variant[v].job
          => variant[u].archivedAt \/ variant[v].archivedAt

SentOK ==
    \A j \in Jobs : application[j] # None /\ application[j].approved =>
       /\ variant[application[j].variant] \in Variant
       /\ variant[application[j].variant].approvedAt
       /\ variant[application[j].variant].text # application[j].sent
             => late[application[j].variant] \cap {"update", "restore"} # {}

RaceInv ==
    /\ Inv
    /\ \A t \in Tabs : request[t] # None => SeenOK(request[t])
    /\ \A v \in Rows : RowOK(variant[v], late[v], before[v])
    /\ IndexHolds
    /\ SentOK

-----------------------------------------------------------------------------
(* One UPDATE of one row, for each handler.                                *)

Late(row, seen, l, what) == IF row = seen THEN l ELSE l \cup {what}

LEMMA UpdateRow ==
    ASSUME NEW row \in Variant, NEW seen \in Variant, NEW l, NEW b, NEW x,
           RowOK(row, l, b), seen.status = "Draft"
    PROVE  RowOK(Updated(row, seen, [text |-> x], {}), Late(row, seen, l, "update"), b)
<1>1. PICK set : set = [text |-> x]
  OBVIOUS
<1>2. DOMAIN set = {"text"}
  BY <1>1
<1>3. PICK u : u = Updated(row, seen, set, {})
  OBVIOUS
<1>4. \A c \in {"base", "job", "text", "status", "snapshot", "selections", "approvedAt", "archivedAt"} :
         u[c] = IF c \in {} THEN TRUE
                ELSE IF c \in DOMAIN set /\ set[c] # seen[c] THEN set[c] ELSE row[c]
  BY <1>3 DEF Updated, Variant
<1>5. /\ u["status"] = row["status"]
      /\ u["snapshot"] = row["snapshot"]
      /\ u["approvedAt"] = row["approvedAt"]
      /\ u["archivedAt"] = row["archivedAt"]
  BY <1>2, <1>4 DEF RestoredStatus
<1>6. RowOK(u, Late(row, seen, l, "update"),
            b)
  BY <1>5 DEF RowOK, Late, RestoredStatus
<1> QED
  BY <1>1, <1>3, <1>6

LEMMA DeleteRow ==
    ASSUME NEW row \in Variant, NEW seen \in Variant, NEW l, NEW b,
           RowOK(row, l, b)
    PROVE  RowOK(Updated(row, seen, [status |-> "Archived"], {"archivedAt"}),
                 Late(row, seen, l, "delete"),
                 IF row.status = "Archived" THEN b ELSE row.status)
<1>1. PICK set : set = [status |-> "Archived"]
  OBVIOUS
<1>2. DOMAIN set = {"status"} /\ set["status"] = "Archived"
  BY <1>1
<1>3. PICK u : u = Updated(row, seen, set, {"archivedAt"})
  OBVIOUS
<1>4. \A c \in {"base", "job", "text", "status", "snapshot", "selections", "approvedAt", "archivedAt"} :
         u[c] = IF c \in {"archivedAt"} THEN TRUE
                ELSE IF c \in DOMAIN set /\ set[c] # seen[c] THEN set[c] ELSE row[c]
  BY <1>3 DEF Updated, Variant
<1>5. /\ u["status"] = IF seen["status"] # "Archived" THEN "Archived" ELSE row["status"]
      /\ u["text"] = row["text"]
      /\ u["snapshot"] = row["snapshot"]
      /\ u["approvedAt"] = row["approvedAt"]
      /\ u["archivedAt"]
  BY <1>2, <1>4 DEF RestoredStatus
<1>6. RowOK(u, Late(row, seen, l, "delete"),
            IF row.status = "Archived" THEN b ELSE row.status)
  BY <1>5 DEF RowOK, Late, RestoredStatus
<1> QED
  BY <1>1, <1>3, <1>6

LEMMA ApproveRow ==
    ASSUME NEW row \in Variant, NEW seen \in Variant, NEW l, NEW b, NEW s,
           RowOK(row, l, b), seen.status = "Draft"
    PROVE  RowOK(Updated(row, seen, [status |-> "Approved", snapshot |-> seen.text,
                                     selections |-> s], {"approvedAt"}),
                 Late(row, seen, l, "approve"), b)
<1>1. PICK set : set = [status |-> "Approved", snapshot |-> seen.text, selections |-> s]
  OBVIOUS
<1>2. /\ DOMAIN set = {"status", "snapshot", "selections"}
      /\ set["status"] = "Approved" /\ set["snapshot"] = seen["text"]
  BY <1>1
<1>3. PICK u : u = Updated(row, seen, set, {"approvedAt"})
  OBVIOUS
<1>4. \A c \in {"base", "job", "text", "status", "snapshot", "selections", "approvedAt", "archivedAt"} :
         u[c] = IF c \in {"approvedAt"} THEN TRUE
                ELSE IF c \in DOMAIN set /\ set[c] # seen[c] THEN set[c] ELSE row[c]
  BY <1>3 DEF Updated, Variant
<1>5. /\ u["status"] = "Approved"
      /\ u["text"] = row["text"]
      /\ u["snapshot"] = IF seen["text"] # seen["snapshot"] THEN seen["text"] ELSE row["snapshot"]
      /\ u["approvedAt"]
      /\ u["archivedAt"] = row["archivedAt"]
  BY <1>2, <1>4 DEF RestoredStatus
<1>6. RowOK(u, Late(row, seen, l, "approve"),
            b)
  BY <1>5 DEF RowOK, Late, RestoredStatus
<1> QED
  BY <1>1, <1>3, <1>6

LEMMA RestoreRow ==
    ASSUME NEW row \in Variant, NEW seen \in Variant, NEW l, NEW b,
           RowOK(row, l, b), seen.status = "Archived", seen.archivedAt
    PROVE  RowOK(Updated(row, seen, [status |-> RestoredStatus(seen), archivedAt |-> FALSE], {}),
                 Late(row, seen, l, "restore"), b)
<1>1. PICK set : set = [status |-> RestoredStatus(seen), archivedAt |-> FALSE]
  OBVIOUS
<1>2. /\ DOMAIN set = {"status", "archivedAt"}
      /\ set["status"] = RestoredStatus(seen) /\ set["archivedAt"] = FALSE
  BY <1>1
<1>3. PICK u : u = Updated(row, seen, set, {})
  OBVIOUS
<1>4. \A c \in {"base", "job", "text", "status", "snapshot", "selections", "approvedAt", "archivedAt"} :
         u[c] = IF c \in {} THEN TRUE
                ELSE IF c \in DOMAIN set /\ set[c] # seen[c] THEN set[c] ELSE row[c]
  BY <1>3 DEF Updated, Variant
<1>5. /\ u["status"] = RestoredStatus(seen)
      /\ u["text"] = row["text"]
      /\ u["snapshot"] = row["snapshot"]
      /\ u["approvedAt"] = row["approvedAt"]
      /\ ~u["archivedAt"]
  BY <1>2, <1>4 DEF RestoredStatus
<1>6. RowOK(u, Late(row, seen, l, "restore"),
            b)
  BY <1>5 DEF RowOK, Late, RestoredStatus
<1> QED
  BY <1>1, <1>3, <1>6

-----------------------------------------------------------------------------
(* A write to one row keeps what the lemmas above say of it, the index and *)
(* what was sent: the text of a row only changes by an update.             *)
LEMMA WriteRaces ==
    ASSUME RaceInv, Inv', NEW t \in Tabs, request[t] # None, VariantRequest(request[t]),
           NEW set, NEW stamps, WriteVariant(t, set, stamps), Assigns(set, stamps),
           "text" \in DOMAIN set => request[t].does = "update",
           RowOK(Updated(variant[request[t].on], request[t].row, set, stamps),
                 Late(variant[request[t].on], request[t].row, late[request[t].on], request[t].does),
                 before'[request[t].on]),
           "archivedAt" \in stamps \/ before' = before,
           \A u \in Variants \ {request[t].on} : before'[u] = before[u]
    PROVE  RaceInv'
<1> PICK v, seen, row :
       /\ v = request[t].on
       /\ seen = request[t].row
       /\ row = Updated(variant[v], seen, set, stamps)
  OBVIOUS
<1>1. v \in Variants /\ variant[v] \in Variant /\ variant[v] # None /\ seen \in Variant
  BY NoneIsNoRow DEF VariantRequest
<1>2. row \in Variant /\ row # None /\ (variant[v].approvedAt => row.approvedAt)
  BY <1>1, UpdatedVariant, NoneIsNoRow
<1>3. /\ row["base"] = variant[v]["base"]
      /\ row["job"] = variant[v]["job"]
      /\ "text" \notin DOMAIN set => row["text"] = variant[v]["text"]
      /\ "archivedAt" \in stamps => row["archivedAt"]
  BY <1>1 DEF Updated, Assigns, Variant
<1>4. /\ request' = [request EXCEPT ![t] = None]
      /\ UNCHANGED application
      /\ \/ Clash(v, row) /\ UNCHANGED <<variant, late>>
         \/ /\ ~Clash(v, row)
            /\ variant' = [variant EXCEPT ![v] = row]
            /\ late' = [late EXCEPT ![v] = Late(variant[v], seen, late[v], request[t].does)]
  <2>1. late = [late EXCEPT ![v] = late[v]]
    BY <1>1 DEF RaceInv, Inv, TypeOK
  <2> QED
    BY <2>1 DEF WriteVariant, Answered, Late
<1>5. ASSUME NEW u \in Tabs, request'[u] # None
      PROVE  SeenOK(request'[u])
  BY <1>4, <1>5 DEF RaceInv, Inv
<1>6. CASE Clash(v, row) /\ UNCHANGED <<variant, late>>
  <2>1. before' = before
    BY <1>3, <1>6 DEF Clash
  <2> QED
    BY <1>4, <1>5, <1>6, <2>1 DEF RaceInv, Rows, IndexHolds, SentOK
<1>7. CASE /\ ~Clash(v, row)
           /\ variant' = [variant EXCEPT ![v] = row]
           /\ late' = [late EXCEPT ![v] = Late(variant[v], seen, late[v], request[t].does)]
  <2>1. /\ variant'[v] = row
        /\ late'[v] = Late(variant[v], seen, late[v], request[t].does)
        /\ \A u \in Variants \ {v} : variant'[u] = variant[u] /\ late'[u] = late[u]
        /\ Rows' = Rows
    BY <1>1, <1>2, <1>7 DEF RaceInv, Inv, TypeOK, Rows
  <2>2. \A u \in Rows' : RowOK(variant'[u], late'[u], before'[u])
    BY <2>1 DEF RaceInv, Rows
  <2>3. ASSUME NEW u \in Rows, u # v, variant[u].base = row.base, variant[u].job = row.job
        PROVE  variant[u].archivedAt \/ row.archivedAt
    BY <1>7, <2>3 DEF Clash, Rows
  <2>4. IndexHolds'
    <3> SUFFICES ASSUME NEW u \in Rows, NEW w \in Rows, u # w,
                        variant'[u].base = variant'[w].base, variant'[u].job = variant'[w].job
                 PROVE  variant'[u].archivedAt \/ variant'[w].archivedAt
      BY <2>1 DEF IndexHolds
    <3>1. CASE u = v
      BY <2>1, <2>3, <3>1 DEF Rows
    <3>2. CASE w = v
      BY <2>1, <2>3, <3>2 DEF Rows
    <3>3. CASE u # v /\ w # v
      BY <2>1, <3>3 DEF RaceInv, IndexHolds, Rows
    <3> QED
      BY <3>1, <3>2, <3>3
  <2>5. ASSUME NEW j \in Jobs, application[j] # None, application[j].approved
        PROVE  /\ variant'[application[j].variant] \in Variant
               /\ variant'[application[j].variant].approvedAt
               /\ variant'[application[j].variant].text # application[j].sent
                     => late'[application[j].variant] \cap {"update", "restore"} # {}
    <3>1. /\ application[j].variant \in Variants
          /\ variant[application[j].variant] \in Variant
          /\ variant[application[j].variant].approvedAt
          /\ variant[application[j].variant].text # application[j].sent
                => late[application[j].variant] \cap {"update", "restore"} # {}
      BY <2>5 DEF RaceInv, SentOK, Inv, TypeOK, Application
    <3>2. CASE application[j].variant # v
      BY <2>1, <3>1, <3>2
    <3>3. CASE application[j].variant = v
      <4>1. late[v] \subseteq late'[v]
        BY <2>1 DEF Late
      <4>2. CASE "text" \notin DOMAIN set
        BY <1>2, <1>3, <2>1, <3>1, <3>3, <4>1, <4>2
      <4>3. CASE "text" \in DOMAIN set
        <5>1. request[t].does = "update" /\ seen.status = "Draft"
          BY <4>3 DEF RaceInv, SeenOK
        <5>2. CASE variant[v] = seen
          <6>1. "restore" \in late[v]
            BY <1>1, <3>1, <3>3, <5>1, <5>2 DEF RaceInv, RowOK, Rows
          <6> QED
            BY <1>2, <2>1, <3>1, <3>3, <4>1, <6>1
        <5>3. CASE variant[v] # seen
          <6>1. "update" \in late'[v]
            BY <2>1, <5>1, <5>3 DEF Late
          <6> QED
            BY <1>2, <2>1, <3>1, <3>3, <6>1
        <5> QED
          BY <5>2, <5>3
      <4> QED
        BY <4>2, <4>3
    <3> QED
      BY <3>2, <3>3
  <2>6. SentOK'
    BY <1>4, <2>5 DEF SentOK
  <2> QED
    BY <1>5, <2>2, <2>4, <2>6 DEF RaceInv
<1> QED
  BY <1>4, <1>6, <1>7

(* A read adds a request whose row has passed the checks.                  *)
LEMMA ReadRaces ==
    ASSUME RaceInv, Inv', NEW t \in Tabs, NEW r, Read(t, r), SeenOK(r)
    PROVE  RaceInv'
<1>1. /\ request' = [request EXCEPT ![t] = r]
      /\ UNCHANGED <<base, variant, letter, application, before, late>>
  BY DEF Read, rows, history
<1>2. ASSUME NEW u \in Tabs, request'[u] # None
      PROVE  SeenOK(request'[u])
  BY <1>1, <1>2 DEF RaceInv, Inv
<1> QED
  BY <1>1, <1>2 DEF RaceInv, Rows, IndexHolds, SentOK

LEMMA BeginRaces ==
    ASSUME RaceInv, NEW t \in Tabs, Begin(t)
    PROVE  RaceInv'
<1>0. Inv'
  BY BeginKeeps DEF RaceInv
<1>1. ASSUME NEW r, Read(t, r), r.does \notin VariantSteps
      PROVE  RaceInv'
  BY <1>0, <1>1, ReadRaces DEF SeenOK, VariantSteps
<1>2. ASSUME NEW v \in Variants, NEW x, NEW what, ReadVariant(t, what, v, x),
             what \in {"update", "approve"} => variant[v].status = "Draft",
             what = "restore" => variant[v].status = "Archived"
      PROVE  RaceInv'
  <2>1. PICK r : r = [does |-> what, on |-> v, row |-> variant[v], text |-> x]
    OBVIOUS
  <2>2. variant[v].status = "Archived" => variant[v].archivedAt
    BY <1>2 DEF ReadVariant, RaceInv, Rows, RowOK
  <2> QED
    BY <1>0, <1>2, <2>1, <2>2, ReadRaces DEF ReadVariant, SeenOK
<1>3. ASSUME NEW b \in Bases, NEW j \in Jobs, NEW m, ReadForCreate(t, b, j, m)
      PROVE  RaceInv'
  <2>1. PICK r : Read(t, r) /\ r.does = "create"
    BY <1>3 DEF ReadForCreate
  <2> QED
    BY <1>1, <2>1 DEF VariantSteps
<1>4. ASSUME NEW v \in Variants, NEW x \in Text, ReadForUpdate(t, v, x)
      PROVE  RaceInv'
  BY <1>2, <1>4 DEF ReadForUpdate
<1>5. ASSUME NEW v \in Variants, ReadForDelete(t, v) \/ ReadForApprove(t, v) \/ ReadForRestore(t, v)
      PROVE  RaceInv'
  BY <1>2, <1>5 DEF ReadForDelete, ReadForApprove, ReadForRestore
<1>6. ASSUME NEW b \in Bases, NEW what \in {"base", "generate"}, NEW set, ReadBase(t, b, what, set)
      PROVE  RaceInv'
  <2>1. PICK r : Read(t, r) /\ r.does = what
    BY <1>6 DEF ReadBase
  <2> QED
    BY <1>1, <2>1 DEF VariantSteps
<1>7. ASSUME NEW l \in Letters, NEW what \in {"letter", "archiveLetter"}, NEW to, NEW stamps,
             ReadLetter(t, l, what, to, stamps)
      PROVE  RaceInv'
  <2>1. PICK r : Read(t, r) /\ r.does = what
    BY <1>7 DEF ReadLetter
  <2> QED
    BY <1>1, <2>1 DEF VariantSteps
<1>8. ASSUME NEW l \in Letters, CreateLetter(t, l)
      PROVE  RaceInv'
  BY <1>0, <1>8 DEF CreateLetter, history, RaceInv, Rows, IndexHolds, SentOK
<1>9. ASSUME NEW j \in Jobs, NEW v \in Variants, NEW l \in Letters \cup {None}, Apply(t, j, v, l)
      PROVE  RaceInv'
  <2> DEFINE a == [variant |-> v, letter |-> l, sent |-> variant[v].text,
                   approved |-> variant[v].status = "Approved"]
  <2>1. /\ application' = [application EXCEPT ![j] = a]
        /\ variant[v] # None
        /\ UNCHANGED <<base, variant, letter, request, before, late>>
    BY <1>9 DEF Apply, history
  <2>2. variant[v] \in Variant /\ (variant[v].status = "Approved" => variant[v].approvedAt)
    BY <2>1 DEF RaceInv, Inv, TypeOK, ApprovedIsDated, Rows
  <2>3. SentOK'
    <3> SUFFICES ASSUME NEW k \in Jobs, application'[k] # None, application'[k].approved
                 PROVE  /\ variant[application'[k].variant] \in Variant
                        /\ variant[application'[k].variant].approvedAt
                        /\ variant[application'[k].variant].text # application'[k].sent
                              => late[application'[k].variant] \cap {"update", "restore"} # {}
      BY <2>1 DEF SentOK
    <3>1. CASE k = j
      BY <2>1, <2>2, <3>1 DEF RaceInv, Inv, TypeOK
    <3>2. CASE k # j
      BY <2>1, <3>2 DEF RaceInv, SentOK, Inv, TypeOK
    <3> QED
      BY <3>1, <3>2
  <2> QED
    BY <1>0, <2>1, <2>3 DEF RaceInv, Rows, IndexHolds
<1> QED
  <2>1. ASSUME NEW l \in Letters, ReadForDeleteLetter(t, l)
        PROVE  RaceInv'
    BY <1>7, <2>1 DEF ReadForDeleteLetter
  <2>2. ASSUME NEW l \in Letters, NEW to \in Status, ReadForUpdateLetter(t, l, to)
        PROVE  RaceInv'
    BY <1>7, <2>2 DEF ReadForUpdateLetter
  <2>3. ASSUME NEW b \in Bases, NEW x \in Text, NEW s \in Texts, ReadForUpdateBase(t, b, x, s)
        PROVE  RaceInv'
    BY <1>6, <2>3 DEF ReadForUpdateBase
  <2>4. ASSUME NEW b \in Bases, NEW x \in Texts, ReadForGenerate(t, b, x)
        PROVE  RaceInv'
    BY <1>6, <2>4 DEF ReadForGenerate
  <2> QED
    BY <1>3, <1>4, <1>5, <1>8, <1>9, <2>1, <2>2, <2>3, <2>4 DEF Begin

LEMMA FinishRaces ==
    ASSUME RaceInv, NEW t \in Tabs, Finish(t)
    PROVE  RaceInv'
<1>0. Inv'
  BY FinishKeeps DEF RaceInv
<1>1. ASSUME Answered(t), UNCHANGED <<variant, application, before, late>>
      PROVE  RaceInv'
  BY <1>0, <1>1 DEF Answered, RaceInv, Inv, Rows, IndexHolds, SentOK
<1>2. request[t] # None => RequestOK(request[t]) /\ SeenOK(request[t])
  BY DEF RaceInv, Inv
<1>3. ASSUME VariantRequest(request[t])
      PROVE  LET v == request[t].on
             IN  /\ v \in Variants
                 /\ variant[v] \in Variant
                 /\ request[t].row \in Variant
                 /\ RowOK(variant[v], late[v], before[v])
  BY <1>3, NoneIsNoRow DEF VariantRequest, RaceInv, Rows
<1>4. CASE Create(t)
  <2> PICK row : row = [base |-> request[t].on, job |-> request[t].job, text |-> request[t].text,
                        status |-> "Draft", snapshot |-> None, selections |-> None,
                        approvedAt |-> FALSE, archivedAt |-> FALSE]
    OBVIOUS
  <2>1. PICK v \in Variants : /\ variant[v] = None
                              /\ variant' = IF Clash(v, row) THEN variant
                                            ELSE [variant EXCEPT ![v] = row]
    BY <1>4 DEF Create
  <2>2. Answered(t) /\ UNCHANGED <<application, before, late>>
    BY <1>4 DEF Create, history
  <2>3. CASE Clash(v, row)
    BY <1>1, <2>1, <2>2, <2>3
  <2>4. CASE ~Clash(v, row)
    <3>1. /\ variant'[v] = row
          /\ \A u \in Variants \ {v} : variant'[u] = variant[u]
          /\ Rows' \subseteq Rows \cup {v}
      BY <2>1, <2>4 DEF RaceInv, Inv, TypeOK, Rows
    <3>2. RowOK(row, late[v], before[v])
      BY DEF RowOK, RestoredStatus
    <3>3. \A u \in Rows' : RowOK(variant'[u], late'[u], before'[u])
      BY <2>2, <3>1, <3>2 DEF RaceInv, Rows
    <3>4. ASSUME NEW u \in Rows, u # v, variant[u].base = row.base, variant[u].job = row.job
          PROVE  variant[u].archivedAt
      BY <2>4, <3>4 DEF Clash, Rows
    <3>5. IndexHolds'
      <4> SUFFICES ASSUME NEW u \in Rows', NEW w \in Rows', u # w,
                          variant'[u].base = variant'[w].base, variant'[u].job = variant'[w].job
                   PROVE  variant'[u].archivedAt \/ variant'[w].archivedAt
        BY DEF IndexHolds
      <4>1. CASE u = v
        BY <3>1, <3>4, <4>1 DEF Rows
      <4>2. CASE w = v
        BY <3>1, <3>4, <4>2 DEF Rows
      <4>3. CASE u # v /\ w # v
        BY <3>1, <4>3 DEF RaceInv, IndexHolds, Rows
      <4> QED
        BY <4>1, <4>2, <4>3
    <3>6. SentOK'
      <4>1. ASSUME NEW j \in Jobs, application[j] # None, application[j].approved
            PROVE  variant'[application[j].variant] = variant[application[j].variant]
        BY <2>1, <3>1, <4>1, NoneIsNoRow DEF RaceInv, SentOK, Inv, TypeOK, Application
      <4> QED
        BY <2>2, <4>1 DEF RaceInv, SentOK
    <3>7. \A u \in Tabs : request'[u] # None => SeenOK(request'[u])
      BY <2>2 DEF Answered, RaceInv, Inv
    <3> QED
      BY <1>0, <3>3, <3>5, <3>6, <3>7 DEF RaceInv
  <2> QED
    BY <2>3, <2>4
<1>5. CASE Update(t)
  <2>1. request[t] # None /\ request[t].does = "update" /\ VariantRequest(request[t])
    BY <1>2, <1>5 DEF Update, Doing, RequestOK, VariantSteps
  <2>2. PICK set, x : /\ x = request[t].text /\ set = [text |-> x]
                      /\ WriteVariant(t, set, {}) /\ before' = before
    BY <1>5 DEF Update
  <2>3. Assigns(set, {})
    BY <2>1, <2>2 DEF Assigns, VariantRequest
  <2>4. RowOK(Updated(variant[request[t].on], request[t].row, set, {}),
              Late(variant[request[t].on], request[t].row, late[request[t].on], "update"),
              before[request[t].on])
    <3>1. request[t].row.status = "Draft"
      BY <1>2, <2>1 DEF SeenOK
    <3>2. PICK row, seen, l, b : /\ row = variant[request[t].on] /\ seen = request[t].row
                                 /\ l = late[request[t].on] /\ b = before[request[t].on]
      OBVIOUS
    <3> QED
      BY <1>3, <2>1, <2>2, <3>1, <3>2, UpdateRow
  <2> QED
    BY <1>0, <2>1, <2>2, <2>3, <2>4, WriteRaces
<1>6. CASE Delete(t)
  <2>1. request[t] # None /\ request[t].does = "delete" /\ VariantRequest(request[t])
    BY <1>2, <1>6 DEF Delete, Doing, RequestOK, VariantSteps
  <2>2. PICK set, stamps, v :
           /\ set = [status |-> "Archived"] /\ stamps = {"archivedAt"} /\ v = request[t].on
           /\ WriteVariant(t, set, stamps)
           /\ before' = IF variant[v].status = "Archived" THEN before
                        ELSE [before EXCEPT ![v] = variant[v].status]
    BY <1>6 DEF Delete
  <2>3. Assigns(set, stamps) /\ "text" \notin DOMAIN set /\ "archivedAt" \in stamps
    BY <2>2 DEF Assigns, Status
  <2>4. /\ before'[v] = IF variant[v].status = "Archived" THEN before[v] ELSE variant[v].status
        /\ \A u \in Variants \ {v} : before'[u] = before[u]
    BY <1>3, <2>1, <2>2 DEF RaceInv, Inv, TypeOK
  <2>5. RowOK(Updated(variant[v], request[t].row, set, stamps),
              Late(variant[v], request[t].row, late[v], "delete"), before'[v])
    <3>1. PICK row, seen, l, b : /\ row = variant[v] /\ seen = request[t].row
                                 /\ l = late[v] /\ b = before[v]
      OBVIOUS
    <3> QED
      BY <1>3, <2>1, <2>2, <2>4, <3>1, DeleteRow
  <2> QED
    BY <1>0, <2>1, <2>2, <2>3, <2>4, <2>5, WriteRaces
<1>7. CASE LoadBase(t)
  <2>1. UNCHANGED <<variant, application, before, late>>
    BY <1>7 DEF LoadBase, rows, history
  <2>2. request[t] # None /\ request[t].does = "load" /\ VariantRequest(request[t])
    BY <1>2, <1>7 DEF LoadBase, Doing, RequestOK, VariantSteps
  <2>3. PICK r : /\ r = [request[t] EXCEPT !.does = "approve",
                                          !.text = base[request[t].row.base].selections]
                 /\ request' = [request EXCEPT ![t] = IF request[t].row.status = "Draft" THEN r ELSE None]
    BY <1>7 DEF LoadBase
  <2>4. request[t].row.status = "Draft" => SeenOK(r)
    BY <2>2, <2>3 DEF SeenOK, VariantRequest
  <2>5. \A u \in Tabs : request'[u] # None => SeenOK(request'[u])
    BY <2>3, <2>4 DEF RaceInv, Inv
  <2> QED
    BY <1>0, <2>1, <2>5 DEF RaceInv, Rows, IndexHolds, SentOK
<1>8. CASE Approve(t)
  <2>1. request[t] # None /\ request[t].does = "approve" /\ VariantRequest(request[t])
    BY <1>2, <1>8 DEF Approve, Doing, RequestOK, VariantSteps
  <2>2. PICK set, stamps, x :
           /\ x = request[t].text /\ stamps = {"approvedAt"}
           /\ set = [status |-> "Approved", snapshot |-> request[t].row.text, selections |-> x]
           /\ WriteVariant(t, set, stamps) /\ before' = before
    BY <1>8 DEF Approve
  <2>3. Assigns(set, stamps) /\ "text" \notin DOMAIN set
    BY <2>1, <2>2 DEF Assigns, VariantRequest, Variant, Status
  <2>4. RowOK(Updated(variant[request[t].on], request[t].row, set, stamps),
              Late(variant[request[t].on], request[t].row, late[request[t].on], "approve"),
              before[request[t].on])
    <3>1. request[t].row.status = "Draft"
      BY <1>2, <2>1 DEF SeenOK
    <3>2. PICK row, seen, l, b : /\ row = variant[request[t].on] /\ seen = request[t].row
                                 /\ l = late[request[t].on] /\ b = before[request[t].on]
      OBVIOUS
    <3> QED
      BY <1>3, <2>1, <2>2, <3>1, <3>2, ApproveRow
  <2> QED
    BY <1>0, <2>1, <2>2, <2>3, <2>4, WriteRaces
<1>9. CASE Restore(t)
  <2>1. request[t] # None /\ request[t].does = "restore" /\ VariantRequest(request[t])
    BY <1>2, <1>9 DEF Restore, Doing, RequestOK, VariantSteps
  <2>2. PICK set : /\ set = [status |-> RestoredStatus(request[t].row), archivedAt |-> FALSE]
                   /\ WriteVariant(t, set, {}) /\ before' = before
    BY <1>9 DEF Restore
  <2>3. Assigns(set, {}) /\ "text" \notin DOMAIN set
    BY <2>2 DEF Assigns, RestoredStatus, Status
  <2>4. RowOK(Updated(variant[request[t].on], request[t].row, set, {}),
              Late(variant[request[t].on], request[t].row, late[request[t].on], "restore"),
              before[request[t].on])
    <3>1. request[t].row.status = "Archived" /\ request[t].row.archivedAt
      BY <1>2, <2>1 DEF SeenOK, VariantSteps
    <3>2. PICK row, seen, l, b : /\ row = variant[request[t].on] /\ seen = request[t].row
                                 /\ l = late[request[t].on] /\ b = before[request[t].on]
      OBVIOUS
    <3> QED
      BY <1>3, <2>1, <2>2, <3>1, <3>2, RestoreRow
  <2> QED
    BY <1>0, <2>1, <2>2, <2>3, <2>4, WriteRaces
<1>10. CASE WriteBase(t) \/ WriteLetter(t)
  BY <1>1, <1>10 DEF WriteBase, WriteLetter, history
<1> QED
  BY <1>4, <1>5, <1>6, <1>7, <1>8, <1>9, <1>10 DEF Finish

-----------------------------------------------------------------------------
LEMMA RaceInvInit == Init => RaceInv
<1> SUFFICES ASSUME Init PROVE RaceInv
  OBVIOUS
<1>1. Inv
  BY MaxRequestsAssumption DEF Init, Inv, TypeOK, ApprovedIsDated, Rows
<1> QED
  BY <1>1 DEF Init, RaceInv, Rows, IndexHolds, SentOK

LEMMA RaceInvStep == RaceInv /\ [Next]_vars => RaceInv'
<1> SUFFICES ASSUME RaceInv, [Next]_vars PROVE RaceInv'
  OBVIOUS
<1>1. CASE Next
  BY <1>1, BeginRaces, FinishRaces DEF Next
<1>2. CASE UNCHANGED vars
  <2>1. Inv'
    BY <1>2, StutterKeeps DEF RaceInv
  <2> QED
    BY <1>2, <2>1 DEF vars, RaceInv, Rows, IndexHolds, SentOK
<1> QED
  BY <1>1, <1>2

LEMMA RaceInvHolds == Spec => []RaceInv
BY RaceInvInit, RaceInvStep, PTL DEF Spec

(* An approved variant keeps its text (job_variants.py:454-457) unless an  *)
(* update, approval or restore wrote over a change it had not read.        *)
THEOREM ApprovedFrozen == Spec => []ApprovedIsFrozen
<1>1. RaceInv => ApprovedIsFrozen
  BY DEF RaceInv, Inv, RowOK, ApprovedIsDated, ApprovedIsFrozen
<1> QED
  BY <1>1, RaceInvHolds, PTL

(* The partial unique index (models/resume.py:345-351) leaves one variant  *)
(* in use per resume and posting unless a delete or an approval wrote over *)
(* a change it had not read.                                               *)
THEOREM OnlyOneInUse == Spec => []OneInUse
<1>1. RaceInv => OneInUse
  BY DEF RaceInv, RowOK, IndexHolds, OneInUse
<1> QED
  BY <1>1, RaceInvHolds, PTL

(* What was sent with an application from an approved variant is kept,     *)
(* unless an update or a restore wrote over a change it had not read.      *)
THEOREM SentKept == Spec => []SentIsKept
<1>1. RaceInv => SentIsKept
  BY DEF RaceInv, SentOK, SentIsKept
<1> QED
  BY <1>1, RaceInvHolds, PTL

-----------------------------------------------------------------------------
(* Only an approval changes approved_at, and it read the row as a Draft.   *)
LEMMA DateStep ==
    ASSUME RaceInv, [Next]_vars, NEW v \in Rows
    PROVE  /\ v \in Rows'
           /\ late[v] \subseteq late'[v]
           /\ \/ variant'[v].approvedAt = variant[v].approvedAt
              \/ variant[v].status = "Draft"
              \/ "approve" \in late'[v]
           /\ variant[v].status = "Archived" => before'[v] = before[v]
<1>1. CASE variant' = variant /\ late' = late /\ before' = before
  BY <1>1 DEF Rows
<1>2. ASSUME NEW t \in Tabs, Create(t)
      PROVE  variant'[v] = variant[v] /\ late' = late /\ before' = before
  BY <1>2 DEF Create, history, Rows, RaceInv, Inv, TypeOK
<1>3. ASSUME NEW t \in Tabs, NEW set, NEW stamps, WriteVariant(t, set, stamps),
             request[t] # None, VariantRequest(request[t]), Assigns(set, stamps),
             "approvedAt" \in stamps
                => request[t].does = "approve" /\ request[t].row.status = "Draft"
      PROVE  /\ v \in Rows'
             /\ late[v] \subseteq late'[v]
             /\ \/ variant'[v].approvedAt = variant[v].approvedAt
                \/ variant[v].status = "Draft"
                \/ "approve" \in late'[v]
  <2> PICK w, seen, row :
         /\ w = request[t].on
         /\ seen = request[t].row
         /\ row = Updated(variant[w], seen, set, stamps)
    OBVIOUS
  <2>1. w \in Variants /\ variant[w] \in Variant
    BY <1>3 DEF VariantRequest
  <2>2. /\ row \in Variant /\ row # None
        /\ "approvedAt" \notin stamps => row["approvedAt"] = variant[w]["approvedAt"]
    <3>1. row \in Variant
      BY <1>3, <2>1, UpdatedVariant
    <3>2. "approvedAt" \notin stamps => row["approvedAt"] = variant[w]["approvedAt"]
      BY <1>3, <2>1 DEF Updated, Assigns, Variant
    <3> QED
      BY <3>1, <3>2, NoneIsNoRow
  <2>3. \/ UNCHANGED <<variant, late>>
        \/ /\ variant' = [variant EXCEPT ![w] = row]
           /\ late' = IF variant[w] = seen THEN late
                      ELSE [late EXCEPT ![w] = @ \cup {request[t].does}]
    BY <1>3 DEF WriteVariant
  <2>4. CASE v # w \/ UNCHANGED <<variant, late>>
    BY <2>1, <2>2, <2>3, <2>4 DEF Rows, RaceInv, Inv, TypeOK
  <2>5. CASE /\ v = w
             /\ variant' = [variant EXCEPT ![w] = row]
             /\ late' = IF variant[w] = seen THEN late
                        ELSE [late EXCEPT ![w] = @ \cup {request[t].does}]
    BY <1>3, <2>1, <2>2, <2>5 DEF Rows, RaceInv, Inv, TypeOK
  <2> QED
    BY <2>3, <2>4, <2>5
<1>4. ASSUME NEW t \in Tabs
      PROVE  request[t] # None => RequestOK(request[t]) /\ SeenOK(request[t])
  BY DEF RaceInv, Inv
<1>5. ASSUME NEW t \in Tabs, Update(t) \/ Delete(t) \/ Approve(t) \/ Restore(t)
      PROVE  /\ v \in Rows'
             /\ late[v] \subseteq late'[v]
             /\ \/ variant'[v].approvedAt = variant[v].approvedAt
                \/ variant[v].status = "Draft"
                \/ "approve" \in late'[v]
  <2>1. CASE Update(t)
    <3>1. request[t] # None /\ VariantRequest(request[t])
      BY <1>4, <2>1 DEF Update, Doing, RequestOK, VariantSteps
    <3>2. PICK set : set = [text |-> request[t].text] /\ WriteVariant(t, set, {})
      BY <2>1 DEF Update
    <3>3. Assigns(set, {})
      BY <3>1, <3>2 DEF Assigns, VariantRequest
    <3> QED
      BY <1>3, <3>1, <3>2, <3>3
  <2>2. CASE Delete(t)
    <3>1. request[t] # None /\ VariantRequest(request[t])
      BY <1>4, <2>2 DEF Delete, Doing, RequestOK, VariantSteps
    <3>2. PICK set, stamps : /\ set = [status |-> "Archived"] /\ stamps = {"archivedAt"}
                             /\ WriteVariant(t, set, stamps)
      BY <2>2 DEF Delete
    <3>3. Assigns(set, stamps) /\ "approvedAt" \notin stamps
      BY <3>2 DEF Assigns, Status
    <3> QED
      BY <1>3, <3>1, <3>2, <3>3
  <2>3. CASE Approve(t)
    <3>1. request[t] # None /\ request[t].does = "approve" /\ VariantRequest(request[t])
      BY <1>4, <2>3 DEF Approve, Doing, RequestOK, VariantSteps
    <3>2. PICK set, stamps :
             /\ set = [status |-> "Approved", snapshot |-> request[t].row.text,
                       selections |-> request[t].text]
             /\ stamps = {"approvedAt"}
             /\ WriteVariant(t, set, stamps)
      BY <2>3 DEF Approve
    <3>3. Assigns(set, stamps) /\ request[t].row.status = "Draft"
      BY <1>4, <3>1, <3>2 DEF Assigns, VariantRequest, Variant, Status, SeenOK
    <3> QED
      BY <1>3, <3>1, <3>2, <3>3
  <2>4. CASE Restore(t)
    <3>1. request[t] # None /\ VariantRequest(request[t])
      BY <1>4, <2>4 DEF Restore, Doing, RequestOK, VariantSteps
    <3>2. PICK set : /\ set = [status |-> RestoredStatus(request[t].row), archivedAt |-> FALSE]
                     /\ WriteVariant(t, set, {})
      BY <2>4 DEF Restore
    <3>3. Assigns(set, {})
      BY <3>2 DEF Assigns, RestoredStatus, Status
    <3> QED
      BY <1>3, <3>1, <3>2, <3>3
  <2> QED
    BY <1>5, <2>1, <2>2, <2>3, <2>4
<1>6. ASSUME NEW t \in Tabs, Update(t) \/ Delete(t) \/ Approve(t) \/ Restore(t),
             variant[v].status = "Archived"
      PROVE  before'[v] = before[v]
  <2>1. CASE Delete(t)
    <3>1. before' = IF variant[request[t].on].status = "Archived" THEN before
                    ELSE [before EXCEPT ![request[t].on] = variant[request[t].on].status]
      BY <2>1 DEF Delete
    <3> QED
      BY <1>6, <3>1 DEF Rows, RaceInv, Inv, TypeOK
  <2> QED
    BY <1>6, <2>1 DEF Update, Approve, Restore
<1>7. ASSUME NEW t \in Tabs, Begin(t)
      PROVE  variant' = variant /\ late' = late /\ before' = before
  BY <1>7 DEF Begin, ReadForCreate, ReadForUpdate, ReadForDelete, ReadForApprove, ReadForRestore,
     ReadVariant, ReadForUpdateBase, ReadForGenerate, ReadBase, CreateLetter, ReadForDeleteLetter,
     ReadForUpdateLetter, ReadLetter, Apply, Read, rows, history
<1>8. ASSUME NEW t \in Tabs, LoadBase(t) \/ WriteBase(t) \/ WriteLetter(t)
      PROVE  variant' = variant /\ late' = late /\ before' = before
  BY <1>8 DEF LoadBase, WriteBase, WriteLetter, rows, history
<1>9. CASE UNCHANGED vars
  BY <1>1, <1>9 DEF vars
<1>10. ASSUME NEW t \in Tabs, Create(t)
       PROVE  v \in Rows'
  BY <1>2, <1>10 DEF Rows
<1> QED
  BY <1>1, <1>2, <1>5, <1>6, <1>7, <1>8, <1>9, <1>10 DEF Next, Finish

(* A restored variant has the status it was archived in, unless an         *)
(* approval or a restore wrote over a change it had not read.              *)
THEOREM RestoreReturns == Spec => RestoredAsBefore
<1> DEFINE Step == \A v \in Rows :
              variant[v].status = "Archived" /\ variant'[v].status # "Archived"
                 => \/ variant'[v].status = before[v]
                    \/ late'[v] \cap {"approve", "restore"} # {}
<1>1. RaceInv /\ [Next]_vars => [Step]_vars
  <2> SUFFICES ASSUME RaceInv, [Next]_vars, NEW v \in Rows,
                      variant[v].status = "Archived", variant'[v].status # "Archived",
                      late'[v] \cap {"approve", "restore"} = {}
               PROVE  variant'[v].status = before[v]
    OBVIOUS
  <2>1. /\ v \in Rows'
        /\ late[v] \cap {"approve", "restore"} = {}
        /\ variant'[v].approvedAt = variant[v].approvedAt
    BY DateStep
  <2>2. RestoredStatus(variant[v]) = before[v]
    BY <2>1 DEF RaceInv, RowOK
  <2>3. RestoredStatus(variant'[v]) = variant'[v].status
    <3>1. RowOK(variant'[v], late'[v], before'[v])
      BY <2>1, RaceInvStep DEF RaceInv
    <3> QED
      BY <3>1 DEF RowOK
  <2> QED
    BY <2>1, <2>2, <2>3 DEF RestoredStatus
<1> QED
  BY <1>1, RaceInvHolds, PTL DEF RestoredAsBefore, Spec
=============================================================================
