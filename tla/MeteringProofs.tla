--------------------------- MODULE MeteringProofs ---------------------------
(***************************************************************************)
(* Theorems about Metering, for every number of users, requests, sweeps,   *)
(* calls, prices and faults.                                               *)
(***************************************************************************)
EXTENDS Metering, TLAPS

-----------------------------------------------------------------------------
(* The inductive invariant, first the part about the two versions of rows *)

TypeDb == /\ acct \in [Users -> Account] /\ dbAcct \in [Users -> Account]
          /\ rsv \in [Rsv -> Row] /\ dbRsv \in [Rsv -> Row]
          /\ lock \in [Users -> Sessions \cup {NoOne}]
          /\ rowLock \in [Rsv -> Sessions \cup {NoOne}]

\* A row nobody has locked has one version.
Unlocked == /\ \A u \in Users : lock[u] = NoOne => acct[u] = dbAcct[u]
            /\ \A r \in Rsv : rowLock[r] = NoOne => rsv[r] = dbRsv[r]

\* A sweep locks only committed holds, a request only rows it has inserted.
LockedRows == \A r \in Rsv :
    /\ rowLock[r] \in Sweepers => dbRsv[r].status = "held"
    /\ rowLock[r] \in Requests => dbRsv[r].status = "none" /\ rowLock[r] = r[1]

Balanced(row) == row.balance = row.ledger
Books == \A u \in Users : Balanced(acct[u]) /\ Balanced(dbAcct[u])

DebitsOf(row) == row.debits = IF row.status = "settled" THEN 1 ELSE 0
Debits == \A r \in Rsv : DebitsOf(rsv[r]) /\ DebitsOf(dbRsv[r])

DbInv == TypeDb /\ Unlocked /\ LockedRows /\ Books /\ Debits

(* Then the part about the sessions *)

\* What a sweep works on, it has locked.
SweptRows == \A w \in Sweepers :
    /\ \A r \in sweep[w].todo : rowLock[r] = w
    /\ sweep[w].at = Idle => sweep[w].tier = 0
    /\ sweep[w].at # Idle => rowLock[sweep[w].at] = w
    /\ sweep[w].tier = 1 => rsv[sweep[w].at].meta # NoMeta

\* A call in progress has its reservation, inserted by the request.
CallRows == \A q \in Requests :
    pc[q] \in {"calling", "answered", "persisted"} =>
        /\ calls[q] > 0
        /\ rowLock[Current(q)] = q
        /\ pc[q] # "calling" => answer[q] # NoMeta

\* A reservation a request has not made yet has no row.
FutureRows == \A r \in Rsv :
    r[2] > calls[r[1]] => /\ rsv[r] = NoRow /\ dbRsv[r] = NoRow
                          /\ rowLock[r] = NoOne

\* What a sweep has in hand.
Work == [todo : SUBSET Rsv, at : Rsv \cup {Idle}, tier : 0..3]

TypeRest ==
    /\ pc \in [Requests -> {"new", "ready", "calling", "answered", "persisted"} \cup Over]
    /\ calls \in [Requests -> 0..MaxCalls]
    /\ answer \in [Requests -> Responses \cup {NoMeta}]
    /\ poisoned \subseteq Requests
    /\ usage \in [Rsv -> {"none", "answered", "recorded"}]
    /\ due \subseteq Rsv
    /\ sweep \in [Sweepers -> Work]
    /\ price \in Prices \cup {NoPrice}
    /\ faults \in 0..MaxFaults
    /\ priceChanges \in 0..MaxPriceChanges
    /\ topUps \in 0..MaxTopUps

IInv == DbInv /\ SweptRows /\ CallRows /\ FutureRows /\ TypeRest

-----------------------------------------------------------------------------
(* Facts about identifiers and amounts *)

LEMMA RsvFacts ==
    /\ \A r \in Rsv : r[1] \in Requests /\ r[2] \in 1..MaxCalls /\ r = <<r[1], r[2]>>
    /\ \A q \in Requests : \A k \in 1..MaxCalls : <<q, k>> \in Rsv
    /\ \A r \in Rsv : UserOf[r] \in Users
  BY UsersAssumption DEF Rsv, UserOf

LEMMA Products == \A a, b \in Nat : a * b \in Nat
  OBVIOUS

LEMMA NoOneIsNoSession == NoOne \notin Sessions
  BY SessionsAssumption DEF Sessions

-----------------------------------------------------------------------------
(* What each effect on the database preserves *)

LEMMA PublishKeepsDbInv ==
    ASSUME DbInv, NEW s \in Sessions, Publish(s)
    PROVE  DbInv'
<1> USE DEF DbInv
<1>1. TypeDb'
  BY DEF TypeDb, Publish
<1>2. Unlocked'
  BY NoOneIsNoSession DEF TypeDb, Unlocked, Publish
<1>3. LockedRows'
  BY SessionsAssumption DEF TypeDb, LockedRows, Publish
<1>4. Books'
  BY DEF TypeDb, Books, Balanced, Publish
<1>5. Debits'
  BY DEF TypeDb, Debits, DebitsOf, Publish
<1> QED BY <1>1, <1>2, <1>3, <1>4, <1>5

LEMMA UndoKeepsDbInv ==
    ASSUME DbInv, NEW s \in Sessions, Undo(s)
    PROVE  DbInv'
<1> USE DEF DbInv
<1>1. TypeDb'
  BY DEF TypeDb, Undo
<1>2. Unlocked'
  BY NoOneIsNoSession DEF TypeDb, Unlocked, Undo
<1>3. LockedRows'
  BY SessionsAssumption DEF TypeDb, LockedRows, Undo
<1>4. Books'
  BY DEF TypeDb, Books, Balanced, Undo
<1>5. Debits'
  BY DEF TypeDb, Debits, DebitsOf, Undo
<1> QED BY <1>1, <1>2, <1>3, <1>4, <1>5

\* A settlement by the session that holds the reservation row.
LEMMA ChargeKeepsDbInv ==
    ASSUME DbInv, NEW s \in Sessions, NEW r \in Rsv, rowLock[r] = s,
           NEW cost \in Nat, Charge(s, r, cost)
    PROVE  DbInv'
<1> DEFINE u == UserOf[r]
<1> USE DEF DbInv
<1>0. u \in Users
  BY RsvFacts
<1>1. /\ acct' = [acct EXCEPT ![u] = Debited(acct[u], cost, rsv[r].est)]
      /\ rsv' = [rsv EXCEPT ![r] = SettledRow(rsv[r], cost)]
      /\ lock' = [lock EXCEPT ![u] = s]
      /\ UNCHANGED <<dbAcct, dbRsv, rowLock>>
      /\ rsv[r].status = "held"
  BY DEF Charge, IsHeld
<1> HIDE DEF u
<1>2. Debited(acct[u], cost, rsv[r].est) \in Account
  BY <1>0 DEF TypeDb, Account, Row, Debited
<1>3. SettledRow(rsv[r], cost) \in Row
  <2>1. rsv[r] \in Row
    BY DEF TypeDb
  <2>2. rsv[r].est \in Nat /\ rsv[r].meta \in Responses \cup {NoMeta} /\ rsv[r].debits + 1 \in Nat
    BY <2>1 DEF Row
  <2> QED BY <2>1, <2>2 DEF Row, SettledRow, Statuses
<1>4. TypeDb'
  BY <1>0, <1>1, <1>2, <1>3 DEF TypeDb
<1>5. Unlocked'
  BY <1>0, <1>1, NoOneIsNoSession DEF TypeDb, Unlocked
<1>6. LockedRows'
  BY <1>1 DEF LockedRows
<1>7. Books'
  BY <1>0, <1>1 DEF TypeDb, Account, Row, Books, Balanced, Debited
<1>8. Debits'
  BY <1>0, <1>1 DEF TypeDb, Row, Debits, DebitsOf, SettledRow
<1> QED BY <1>4, <1>5, <1>6, <1>7, <1>8

\* A release by the session that holds the reservation row.
LEMMA GiveBackKeepsDbInv ==
    ASSUME DbInv, NEW s \in Sessions, NEW r \in Rsv, rowLock[r] = s,
           NEW status \in {"released", "stale"}, GiveBack(s, r, status)
    PROVE  DbInv'
<1> DEFINE u == UserOf[r]
<1> USE DEF DbInv
<1>0. u \in Users
  BY RsvFacts
<1>1. /\ acct' = [acct EXCEPT ![u].held = @ - rsv[r].est]
      /\ rsv' = [rsv EXCEPT ![r].status = status]
      /\ lock' = [lock EXCEPT ![u] = s]
      /\ UNCHANGED <<dbAcct, dbRsv, rowLock>>
      /\ rsv[r].status = "held"
  BY DEF GiveBack, IsHeld
<1> HIDE DEF u
<1>2. [acct[u] EXCEPT !.held = @ - rsv[r].est] \in Account
  BY <1>0 DEF TypeDb, Account, Row
<1>3. [rsv[r] EXCEPT !.status = status] \in Row
  <2>1. rsv[r] \in Row /\ status \in Statuses
    BY DEF TypeDb, Statuses
  <2> QED BY <2>1 DEF Row
<1>4. TypeDb'
  BY <1>0, <1>1, <1>2, <1>3 DEF TypeDb
<1>5. Unlocked'
  BY <1>0, <1>1, NoOneIsNoSession DEF TypeDb, Unlocked
<1>6. LockedRows'
  BY <1>1 DEF LockedRows
<1>7. Books'
  BY <1>0, <1>1 DEF TypeDb, Account, Row, Books, Balanced
<1>8. Debits'
  BY <1>0, <1>1 DEF TypeDb, Row, Debits, DebitsOf
<1> QED BY <1>4, <1>5, <1>6, <1>7, <1>8

-----------------------------------------------------------------------------
(* The invariant holds initially *)

LEMMA InitEstablishesIInv == Init => IInv
<1> SUFFICES ASSUME Init PROVE IInv
  OBVIOUS
<1>1. NoRow \in Row
  BY DEF NoRow, Row, Statuses
<1>2. \A b \in OpeningBalances : [balance |-> b, held |-> 0, ledger |-> b] \in Account
  BY AmountsAssumption DEF Account
<1>3. TypeDb
  BY <1>1, <1>2 DEF Init, TypeDb
<1>4. Unlocked
  BY DEF Init, Unlocked
<1>5. LockedRows
  BY SessionsAssumption DEF Init, LockedRows
<1>6. Books
  BY DEF Init, Books, Balanced
<1>7. Debits
  BY DEF Init, Debits, DebitsOf, NoRow
<1>8. SweptRows
  BY DEF Init, SweptRows, NoWork
<1>9. CallRows
  BY DEF Init, CallRows
<1>10. FutureRows
  BY DEF Init, FutureRows
<1>11. TypeRest
  BY AmountsAssumption DEF Init, TypeRest, Work, NoWork
<1> QED
  BY <1>3, <1>4, <1>5, <1>6, <1>7, <1>8, <1>9, <1>10, <1>11 DEF IInv, DbInv

-----------------------------------------------------------------------------
(* What a step need not disturb *)

LEMMA DbFrame == ASSUME IInv, UNCHANGED db PROVE DbInv'
  BY DEF IInv, DbInv, TypeDb, Unlocked, LockedRows, Books, Balanced, Debits, DebitsOf, db

LEMMA SweptFrame == ASSUME IInv, UNCHANGED <<rsv, rowLock, sweep>> PROVE SweptRows'
  BY DEF IInv, SweptRows

LEMMA CallFrame == ASSUME IInv, UNCHANGED <<pc, calls, answer, rowLock>> PROVE CallRows'
  BY DEF IInv, CallRows, Current

LEMMA FutureFrame == ASSUME IInv, UNCHANGED <<rsv, dbRsv, rowLock, calls>> PROVE FutureRows'
  BY DEF IInv, FutureRows

-----------------------------------------------------------------------------
(* Steps that leave the database alone *)

LEMMA GateKeepsIInv == ASSUME IInv, NEW q \in Requests, Gate(q) PROVE IInv'
<1> USE DEF Gate, Goto, db, environment
<1>1. DbInv'
  BY DbFrame
<1>2. SweptRows'
  BY SweptFrame
<1>3. CallRows'
  BY DEF IInv, CallRows, Current, TypeRest
<1>4. FutureRows'
  BY FutureFrame
<1>5. TypeRest'
  BY AmountsAssumption DEF IInv, TypeRest, Over, Fault
<1> QED BY <1>1, <1>2, <1>3, <1>4, <1>5 DEF IInv

LEMMA ProviderAnswersKeepsIInv == ASSUME IInv, NEW q \in Requests, ProviderAnswers(q) PROVE IInv'
<1> USE DEF ProviderAnswers, Goto, db, environment
<1>1. DbInv'
  BY DbFrame
<1>2. SweptRows'
  BY SweptFrame
<1>3. CallRows'
  BY AmountsAssumption DEF IInv, CallRows, Current, TypeRest
<1>4. FutureRows'
  BY FutureFrame
<1>5. TypeRest'
  BY RsvFacts DEF IInv, TypeRest, Over, Fault, CallRows, Current
<1> QED BY <1>1, <1>2, <1>3, <1>4, <1>5 DEF IInv

LEMMA ReleaseFailsKeepsIInv == ASSUME IInv, NEW q \in Requests, ReleaseFails(q) PROVE IInv'
<1> USE DEF ReleaseFails, Goto, db, environment
<1>1. DbInv'
  BY DbFrame
<1>2. SweptRows'
  BY SweptFrame
<1>3. CallRows'
  BY DEF IInv, CallRows, Current, TypeRest
<1>4. FutureRows'
  BY FutureFrame
<1>5. TypeRest'
  BY AmountsAssumption DEF IInv, TypeRest, Over, Fault
<1> QED BY <1>1, <1>2, <1>3, <1>4, <1>5 DEF IInv

LEMMA PersistFailsKeepsIInv == ASSUME IInv, NEW q \in Requests, PersistFails(q) PROVE IInv'
<1> USE DEF PersistFails, Goto, db, environment
<1>1. DbInv'
  BY DbFrame
<1>2. SweptRows'
  BY SweptFrame
<1>3. CallRows'
  BY DEF IInv, CallRows, Current, TypeRest
<1>4. FutureRows'
  BY FutureFrame
<1>5. TypeRest'
  BY AmountsAssumption DEF IInv, TypeRest, Over, Fault
<1> QED BY <1>1, <1>2, <1>3, <1>4, <1>5 DEF IInv

LEMMA SettleFailsKeepsIInv == ASSUME IInv, NEW q \in Requests, SettleFails(q) PROVE IInv'
<1> USE DEF SettleFails, Goto, db, environment
<1>1. DbInv'
  BY DbFrame
<1>2. SweptRows'
  BY SweptFrame
<1>3. CallRows'
  BY DEF IInv, CallRows, Current, TypeRest
<1>4. FutureRows'
  BY FutureFrame
<1>5. TypeRest'
  BY AmountsAssumption DEF IInv, TypeRest, Over, Fault
<1> QED BY <1>1, <1>2, <1>3, <1>4, <1>5 DEF IInv

LEMMA SweepNextKeepsIInv == ASSUME IInv, NEW w \in Sweepers, SweepNext(w) PROVE IInv'
<1> USE DEF SweepNext, db, request, environment
<1>1. DbInv'
  BY DbFrame
<1>2. SweptRows'
  BY IdleAssumption DEF IInv, SweptRows, TypeRest, Work, FirstTier
<1>3. CallRows'
  BY CallFrame
<1>4. FutureRows'
  BY FutureFrame
<1>5. TypeRest'
  BY DEF IInv, TypeRest, Work, FirstTier
<1> QED BY <1>1, <1>2, <1>3, <1>4, <1>5 DEF IInv

\* The place of a sweep stays one of the three tiers.
LEMMA LeaveTypes ==
    ASSUME IInv, NEW w \in Sweepers, Leave(w)
    PROVE  sweep' \in [Sweepers -> Work]
  BY DEF IInv, TypeRest, Work, NoWork, Leave

LEMMA FallThroughTypes ==
    ASSUME IInv, NEW w \in Sweepers, FallThrough(w)
    PROVE  sweep' \in [Sweepers -> Work]
<1>1. sweep \in [Sweepers -> Work]
  BY DEF IInv, TypeRest, Work
<1>2. CASE sweep[w].tier = 3
  BY <1>2, LeaveTypes DEF FallThrough
<1>3. CASE sweep[w].tier # 3
  <2>1. sweep[w].tier + 1 \in 0..3
    BY <1>1, <1>3 DEF Work
  <2>2. sweep[w].todo \in SUBSET Rsv /\ sweep[w].at \in Rsv \cup {Idle}
    BY <1>1 DEF Work
  <2>3. [sweep[w] EXCEPT !.tier = @ + 1] \in Work
    BY <1>1, <2>1, <2>2 DEF Work
  <2> QED BY <1>1, <1>3, <2>3 DEF FallThrough, NextTier
<1> QED BY <1>2, <1>3

LEMMA RetryUnpricedKeepsIInv == ASSUME IInv, NEW w \in Sweepers, RetryUnpriced(w) PROVE IInv'
<1> USE DEF RetryUnpriced, db, request, environment
<1>1. DbInv'
  BY DbFrame
<1>2. SweptRows'
  BY DEF IInv, SweptRows, TypeRest, Work, FallThrough, Leave, NoWork, NextTier
<1>3. CallRows'
  BY CallFrame
<1>4. FutureRows'
  BY FutureFrame
<1>5. TypeRest'
  BY FallThroughTypes, AmountsAssumption DEF IInv, TypeRest, Fault
<1> QED BY <1>1, <1>2, <1>3, <1>4, <1>5 DEF IInv

LEMMA TierFailsKeepsIInv == ASSUME IInv, NEW w \in Sweepers, TierFails(w) PROVE IInv'
<1> USE DEF TierFails, db, request, environment
<1>1. DbInv'
  BY DbFrame
<1>2. SweptRows'
  BY DEF IInv, SweptRows, TypeRest, Work, FallThrough, Leave, NoWork, NextTier
<1>3. CallRows'
  BY CallFrame
<1>4. FutureRows'
  BY FutureFrame
<1>5. TypeRest'
  BY FallThroughTypes, AmountsAssumption DEF IInv, TypeRest, Fault
<1> QED BY <1>1, <1>2, <1>3, <1>4, <1>5 DEF IInv

LEMMA DeadlockVictimKeepsIInv == ASSUME IInv, NEW w \in Sweepers, DeadlockVictim(w) PROVE IInv'
<1> USE DEF DeadlockVictim, db, request, environment
<1>1. DbInv'
  BY DbFrame
<1>2. SweptRows'
  BY DEF IInv, SweptRows, TypeRest, Work, Needs, FallThrough, Leave, NoWork, NextTier
<1>3. CallRows'
  BY CallFrame
<1>4. FutureRows'
  BY FutureFrame
<1>5. TypeRest'
  BY FallThroughTypes, AmountsAssumption DEF IInv, TypeRest
<1> QED BY <1>1, <1>2, <1>3, <1>4, <1>5 DEF IInv

LEMMA AgeKeepsIInv == ASSUME IInv, NEW r \in Rsv, Age(r) PROVE IInv'
<1> USE DEF Age, db, request
<1>1. DbInv' /\ SweptRows' /\ CallRows' /\ FutureRows'
  BY DbFrame, SweptFrame, CallFrame, FutureFrame
<1>2. TypeRest'
  BY DEF IInv, TypeRest
<1> QED BY <1>1, <1>2 DEF IInv

LEMMA SetPriceKeepsIInv == ASSUME IInv, SetPrice PROVE IInv'
<1> USE DEF SetPrice, db, request
<1>1. DbInv' /\ SweptRows' /\ CallRows' /\ FutureRows'
  BY DbFrame, SweptFrame, CallFrame, FutureFrame
<1>2. TypeRest'
  BY AmountsAssumption DEF IInv, TypeRest
<1> QED BY <1>1, <1>2 DEF IInv

LEMMA StutterKeepsIInv == ASSUME IInv, UNCHANGED vars PROVE IInv'
<1> USE DEF vars, db, request, environment
<1>1. DbInv' /\ SweptRows' /\ CallRows' /\ FutureRows'
  BY DbFrame, SweptFrame, CallFrame, FutureFrame
<1>2. TypeRest'
  BY DEF IInv, TypeRest
<1> QED BY <1>1, <1>2 DEF IInv

-----------------------------------------------------------------------------
(* The ends of transactions *)

\* A session that ends keeps no row, and touches no row of another session.
LEMMA EndOfTransaction ==
    ASSUME IInv, NEW s \in Sessions, Publish(s) \/ Undo(s)
    PROVE  /\ \A r \in Rsv : rowLock[r] # s => rowLock'[r] = rowLock[r] /\ rsv'[r] = rsv[r]
           /\ \A r \in Rsv : rowLock[r] = s => rowLock'[r] = NoOne
           /\ DbInv'
  BY PublishKeepsDbInv, UndoKeepsDbInv DEF IInv, Publish, Undo

LEMMA EndKeepsFutureRows ==
    ASSUME IInv, NEW s \in Sessions, Publish(s) \/ Undo(s), UNCHANGED calls
    PROVE  FutureRows'
  BY NoOneIsNoSession DEF IInv, FutureRows, Publish, Undo

LEMMA EndOfRequestKeepsIInv ==
    ASSUME IInv, NEW q \in Requests, NEW where \in {"done", "aborted"},
           Publish(q) \/ Undo(q), Goto(q, where),
           UNCHANGED <<calls, answer, poisoned, usage, environment, sweep, faults>>
    PROVE  IInv'
<1> USE DEF environment, Goto
<1>0. q \in Sessions
  BY DEF Sessions
<1>1. DbInv' /\ FutureRows'
  BY <1>0, EndOfTransaction, EndKeepsFutureRows
<1>2. SweptRows'
  BY <1>0, EndOfTransaction, SessionsAssumption DEF IInv, SweptRows, TypeRest, Work
<1>3. CallRows'
  <2>1. ASSUME NEW p \in Requests, p # q, pc[p] \in {"calling", "answered", "persisted"}
        PROVE  rowLock'[Current(p)] = p
    <3>1. rowLock[Current(p)] = p /\ Current(p) \in Rsv
      BY <2>1, RsvFacts DEF IInv, CallRows, TypeRest, Current
    <3> QED BY <1>0, <2>1, <3>1, EndOfTransaction
  <2> QED BY <2>1 DEF IInv, CallRows, TypeRest, Current
<1>4. TypeRest'
  BY DEF IInv, TypeRest, Over
<1> QED BY <1>1, <1>2, <1>3, <1>4 DEF IInv

LEMMA CommitKeepsIInv == ASSUME IInv, NEW q \in Requests, Commit(q) PROVE IInv'
  BY EndOfRequestKeepsIInv DEF Commit

LEMMA AbortKeepsIInv == ASSUME IInv, NEW q \in Requests, Abort(q) PROVE IInv'
  BY EndOfRequestKeepsIInv DEF Abort

LEMMA EndOfSweepKeepsIInv ==
    ASSUME IInv, NEW w \in Sweepers, Publish(w) \/ Undo(w),
           \/ sweep' = [sweep EXCEPT ![w] = NoWork]
           \/ (UNCHANGED sweep /\ sweep[w].at = Idle /\ sweep[w].todo = {}),
           faults' \in 0..MaxFaults, UNCHANGED <<request, environment>>
    PROVE  IInv'
<1> USE DEF request, environment
<1>0. w \in Sessions /\ w \notin Requests
  BY SessionsAssumption DEF Sessions
<1>1. DbInv' /\ FutureRows'
  BY <1>0, EndOfTransaction, EndKeepsFutureRows
<1>2. SweptRows'
  BY <1>0, EndOfTransaction DEF IInv, SweptRows, TypeRest, Work, NoWork
<1>3. CallRows'
  <2>1. ASSUME NEW p \in Requests, pc[p] \in {"calling", "answered", "persisted"}
        PROVE  rowLock'[Current(p)] = p
    <3>1. rowLock[Current(p)] = p /\ Current(p) \in Rsv
      BY <2>1, RsvFacts DEF IInv, CallRows, TypeRest, Current
    <3> QED BY <1>0, <2>1, <3>1, EndOfTransaction
  <2> QED BY <2>1 DEF IInv, CallRows, Current
<1>4. TypeRest'
  BY DEF IInv, TypeRest, Work, NoWork
<1> QED BY <1>1, <1>2, <1>3, <1>4 DEF IInv

LEMMA SweepCommitKeepsIInv == ASSUME IInv, NEW w \in Sweepers, SweepCommit(w) PROVE IInv'
<1>1. faults' \in 0..MaxFaults
  BY DEF IInv, TypeRest, SweepCommit
<1> QED BY <1>1, EndOfSweepKeepsIInv DEF SweepCommit

LEMMA SweepCrashKeepsIInv == ASSUME IInv, NEW w \in Sweepers, SweepCrash(w) PROVE IInv'
<1>1. faults' \in 0..MaxFaults
  BY AmountsAssumption DEF IInv, TypeRest, SweepCrash, Fault
<1> QED BY <1>1, EndOfSweepKeepsIInv DEF SweepCrash
-----------------------------------------------------------------------------
(* Settlements and releases *)

\* A reservation that is resolved keeps its locks and its metadata.
LEMMA Resolution ==
    ASSUME IInv, NEW s \in Sessions, NEW r \in Rsv, rowLock[r] = s,
           \/ \E cost \in Nat : Charge(s, r, cost)
           \/ \E status \in {"released", "stale"} : GiveBack(s, r, status)
    PROVE  /\ DbInv'
           /\ UNCHANGED <<dbRsv, rowLock>>
           /\ \A x \in Rsv : rsv'[x].meta = rsv[x].meta
           /\ \A x \in Rsv : x # r => rsv'[x] = rsv[x]
<1>1. DbInv'
  BY ChargeKeepsDbInv, GiveBackKeepsDbInv DEF IInv
<1>2. rsv \in [Rsv -> Row]
  BY DEF IInv, DbInv, TypeDb
<1>3. rsv[r] \in Row
  BY <1>2
<1>4. ASSUME NEW cost \in Nat PROVE SettledRow(rsv[r], cost).meta = rsv[r].meta
  BY <1>3 DEF SettledRow, Row
<1>5. ASSUME NEW status \in {"released", "stale"}
      PROVE  [rsv[r] EXCEPT !.status = status].meta = rsv[r].meta
  BY <1>3 DEF Row
<1>6. /\ UNCHANGED <<dbRsv, rowLock>>
      /\ \A x \in Rsv : rsv'[x].meta = rsv[x].meta
      /\ \A x \in Rsv : x # r => rsv'[x] = rsv[x]
  BY <1>2, <1>4, <1>5 DEF Charge, GiveBack
<1> QED BY <1>1, <1>6

LEMMA ResolutionKeepsRows ==
    ASSUME IInv, NEW s \in Sessions, NEW r \in Rsv, rowLock[r] = s,
           \/ \E cost \in Nat : Charge(s, r, cost)
           \/ \E status \in {"released", "stale"} : GiveBack(s, r, status)
    PROVE  /\ UNCHANGED sweep => SweptRows'
           /\ UNCHANGED calls => FutureRows'
<1>1. UNCHANGED sweep => SweptRows'
  BY Resolution, SessionsAssumption, IdleAssumption DEF IInv, SweptRows, TypeRest, Work
<1>2. UNCHANGED calls => FutureRows'
  BY Resolution, NoOneIsNoSession DEF IInv, FutureRows
<1> QED BY <1>1, <1>2

LEMMA CurrentRow ==
    ASSUME IInv, NEW q \in Requests, pc[q] \in {"calling", "answered", "persisted"}
    PROVE  Current(q) \in Rsv /\ rowLock[Current(q)] = q
  BY RsvFacts DEF IInv, CallRows, TypeRest, Current

LEMMA SettleKeepsIInv == ASSUME IInv, NEW q \in Requests, Settle(q) PROVE IInv'
<1> USE DEF Settle, Goto, environment
<1>1. q \in Sessions /\ Current(q) \in Rsv /\ rowLock[Current(q)] = q
  BY CurrentRow DEF Sessions
<1>2. answer[q] \in Nat /\ price \in Nat
  BY AmountsAssumption DEF IInv, TypeRest, CallRows, Priced
<1>3. \E cost \in Nat : Charge(q, Current(q), cost)
  BY <1>2, Products
<1>4. DbInv' /\ SweptRows' /\ FutureRows'
  BY <1>1, <1>3, Resolution, ResolutionKeepsRows
<1>5. CallRows'
  <2>1. UNCHANGED rowLock
    BY <1>1, <1>3, Resolution
  <2> QED BY <2>1 DEF IInv, CallRows, TypeRest, Current
<1>6. TypeRest'
  BY <1>1 DEF IInv, TypeRest
<1> QED BY <1>4, <1>5, <1>6 DEF IInv

LEMMA ProviderFailsKeepsIInv == ASSUME IInv, NEW q \in Requests, ProviderFails(q) PROVE IInv'
<1> USE DEF ProviderFails, Goto, environment
<1>1. q \in Sessions /\ Current(q) \in Rsv /\ rowLock[Current(q)] = q
  BY CurrentRow DEF Sessions
<1>2. DbInv' /\ SweptRows' /\ FutureRows'
  BY <1>1, Resolution, ResolutionKeepsRows
<1>3. CallRows'
  BY DEF IInv, CallRows, TypeRest, Current, GiveBack
<1>4. TypeRest'
  BY DEF IInv, TypeRest
<1> QED BY <1>2, <1>3, <1>4 DEF IInv

\* A tier that resolves the reservation in hand.
LEMMA TierKeepsIInv ==
    ASSUME IInv, NEW w \in Sweepers, sweep[w].tier > 0,
           \/ \E cost \in Nat : Charge(w, sweep[w].at, cost)
           \/ \E status \in {"released", "stale"} : GiveBack(w, sweep[w].at, status),
           Leave(w), UNCHANGED <<request, environment, faults>>
    PROVE  IInv'
<1> USE DEF request, environment
<1> DEFINE r == sweep[w].at
<1>1. w \in Sessions /\ r \in Rsv /\ rowLock[r] = w
  BY DEF Sessions, IInv, SweptRows, TypeRest, Work
<1> HIDE DEF r
<1>2. \/ \E cost \in Nat : Charge(w, r, cost)
      \/ \E status \in {"released", "stale"} : GiveBack(w, r, status)
  BY DEF r
<1>3. DbInv' /\ FutureRows' /\ UNCHANGED <<dbRsv, rowLock>>
  BY <1>1, <1>2, Resolution, ResolutionKeepsRows
<1>4. SweptRows'
  <2>1. /\ UNCHANGED rowLock
        /\ \A x \in Rsv : rsv'[x].meta = rsv[x].meta
    BY <1>1, <1>2, Resolution
  <2> QED BY <2>1, IdleAssumption DEF IInv, SweptRows, TypeRest, Work, NoWork, Leave
<1>5. CallRows'
  BY <1>3, CallFrame
<1>6. TypeRest'
  BY LeaveTypes DEF IInv, TypeRest
<1> QED BY <1>3, <1>4, <1>5, <1>6 DEF IInv

LEMMA RetrySettleKeepsIInv == ASSUME IInv, NEW w \in Sweepers, RetrySettle(w) PROVE IInv'
<1>1. sweep[w].at \in Rsv /\ sweep[w].tier = 1
  BY DEF RetrySettle, IInv, SweptRows, TypeRest, Work
<1>2. rsv[sweep[w].at].meta \in Nat /\ price \in Nat
  BY <1>1, AmountsAssumption DEF RetrySettle, Priced, IInv, SweptRows, TypeRest, DbInv, TypeDb, Row
<1>3. \E cost \in Nat : Charge(w, sweep[w].at, cost)
  BY <1>2, Products DEF RetrySettle
<1> QED BY <1>1, <1>3, TierKeepsIInv DEF RetrySettle

LEMMA RetryAtEstimateKeepsIInv == ASSUME IInv, NEW w \in Sweepers, RetryAtEstimate(w) PROVE IInv'
<1>1. sweep[w].at \in Rsv /\ sweep[w].tier = 2
  BY DEF RetryAtEstimate, IInv, SweptRows, TypeRest, Work
<1>2. rsv[sweep[w].at].est \in Nat
  BY <1>1 DEF IInv, DbInv, TypeDb, Row
<1> QED BY <1>1, <1>2, TierKeepsIInv DEF RetryAtEstimate

LEMMA ReleaseStaleKeepsIInv == ASSUME IInv, NEW w \in Sweepers, ReleaseStale(w) PROVE IInv'
  BY TierKeepsIInv DEF ReleaseStale
-----------------------------------------------------------------------------
(* The other steps that write *)

LEMMA ReserveKeepsIInv == ASSUME IInv, NEW q \in Requests, Reserve(q) PROVE IInv'
<1> DEFINE u == Owner[q]
           r == <<q, calls[q] + 1>>
           row == [NoRow EXCEPT !.status = "held", !.est = Estimate]
<1> USE DEF Goto, environment
<1>1. /\ q \in Sessions /\ q \notin Sweepers /\ u \in Users /\ r \in Rsv
      /\ r[1] = q /\ r[2] = calls[q] + 1 /\ calls[q] \in Nat
  <2>1. calls[q] \in 0..MaxCalls /\ calls[q] < MaxCalls /\ MaxCalls \in Nat
    BY AmountsAssumption DEF Reserve, IInv, TypeRest
  <2>2. calls[q] \in Nat /\ calls[q] + 1 \in 1..MaxCalls
    BY <2>1
  <2>3. r \in Rsv
    BY <2>2, RsvFacts
  <2>4. u \in Users /\ q \in Sessions /\ q \notin Sweepers
    BY UsersAssumption, SessionsAssumption DEF Sessions
  <2> QED BY <2>2, <2>3, <2>4
<1>2. Estimate \in Nat
  BY AmountsAssumption, Products DEF Estimate, Reserve, IInv, TypeRest
<1>3. /\ rsv' = [rsv EXCEPT ![r] = row]
      /\ acct' = [acct EXCEPT ![u].held = @ + Estimate]
      /\ lock' = [lock EXCEPT ![u] = q]
      /\ rowLock' = [rowLock EXCEPT ![r] = q]
      /\ calls' = [calls EXCEPT ![q] = @ + 1]
      /\ pc' = [pc EXCEPT ![q] = "calling"]
      /\ UNCHANGED <<dbAcct, dbRsv, answer, poisoned, usage, environment, sweep, faults>>
      /\ calls[q] < MaxCalls
  BY DEF Reserve
<1>4. rsv[r] = NoRow /\ dbRsv[r] = NoRow /\ rowLock[r] = NoOne
  BY <1>1 DEF IInv, FutureRows
<1>5. row.status = "held" /\ row.debits = 0 /\ row.meta = NoMeta /\ row \in Row
  BY <1>2 DEF NoRow, Row, Statuses
<1> HIDE DEF u, r, row
<1>6. TypeDb'
  <2>1. [acct[u] EXCEPT !.held = @ + Estimate] \in Account
    BY <1>1, <1>2 DEF IInv, DbInv, TypeDb, Account
  <2> QED BY <1>1, <1>3, <1>5, <2>1 DEF IInv, DbInv, TypeDb
<1>7. Unlocked'
  BY <1>1, <1>3, NoOneIsNoSession DEF IInv, DbInv, TypeDb, Unlocked
<1>8. LockedRows'
  BY <1>1, <1>3, <1>4 DEF IInv, DbInv, TypeDb, LockedRows, NoRow
<1>9. Books' /\ Debits'
  BY <1>1, <1>3, <1>5 DEF IInv, DbInv, TypeDb, Account, Books, Balanced, Debits, DebitsOf
<1>10. SweptRows'
  BY <1>1, <1>3, <1>4, NoOneIsNoSession
  DEF IInv, DbInv, TypeDb, SweptRows, TypeRest, Work, Sessions
<1>11. CallRows'
  <2>1. ASSUME NEW p \in Requests, p # q, pc[p] \in {"calling", "answered", "persisted"}
        PROVE  rowLock'[Current(p)] = p /\ Current(p)' = Current(p)
    BY <1>1, <1>3, <1>4, <2>1, CurrentRow, NoOneIsNoSession
    DEF IInv, DbInv, TypeDb, TypeRest, Sessions, Current
  <2>2. Current(q)' = r /\ calls'[q] > 0 /\ rowLock'[r] = q
    BY <1>1, <1>3 DEF IInv, DbInv, TypeDb, TypeRest, Current, r
  <2> QED BY <1>3, <2>1, <2>2 DEF IInv, CallRows, TypeRest, Current
<1>12. FutureRows'
  BY <1>1, <1>3, RsvFacts DEF IInv, DbInv, TypeDb, TypeRest, FutureRows
<1>13. TypeRest'
  BY <1>1, <1>3, AmountsAssumption DEF IInv, TypeRest
<1> QED BY <1>6, <1>7, <1>8, <1>9, <1>10, <1>11, <1>12, <1>13 DEF IInv, DbInv

LEMMA PersistKeepsIInv == ASSUME IInv, NEW q \in Requests, Persist(q) PROVE IInv'
<1> DEFINE r == Current(q)
<1> USE DEF Goto, environment
<1>1. q \in Sessions /\ q \notin Sweepers /\ r \in Rsv /\ rowLock[r] = q /\ answer[q] \in Responses \cup {NoMeta}
  BY CurrentRow, SessionsAssumption DEF Persist, Sessions, IInv, TypeRest
<1>2. /\ rsv' = [rsv EXCEPT ![r].meta = answer[q]]
      /\ pc[q] = "answered" /\ pc' = [pc EXCEPT ![q] = "persisted"]
      /\ usage' = [usage EXCEPT ![r] = "recorded"]
      /\ UNCHANGED <<acct, dbAcct, dbRsv, lock, rowLock, calls, answer, poisoned,
                     environment, sweep, faults>>
  BY DEF Persist
<1> HIDE DEF r
<1>3. [rsv[r] EXCEPT !.meta = answer[q]] \in Row
  <2>1. rsv[r] \in Row
    BY <1>1 DEF IInv, DbInv, TypeDb
  <2> QED BY <1>1, <2>1 DEF Row
<1>4. TypeDb'
  BY <1>1, <1>2, <1>3 DEF IInv, DbInv, TypeDb
<1>5. Unlocked' /\ LockedRows' /\ Books'
  BY <1>1, <1>2, NoOneIsNoSession DEF IInv, DbInv, TypeDb, Unlocked, LockedRows, Books, Balanced
<1>6. Debits'
  BY <1>1, <1>2 DEF IInv, DbInv, TypeDb, Row, Debits, DebitsOf
<1>7. SweptRows'
  BY <1>1, <1>2 DEF IInv, DbInv, TypeDb, SweptRows, TypeRest, Work
<1>8. CallRows'
  BY <1>2 DEF IInv, CallRows, TypeRest, Current
<1>9. FutureRows'
  BY <1>1, <1>2, NoOneIsNoSession DEF IInv, DbInv, TypeDb, FutureRows
<1>10. TypeRest'
  BY <1>1, <1>2 DEF IInv, TypeRest
<1> QED BY <1>4, <1>5, <1>6, <1>7, <1>8, <1>9, <1>10 DEF IInv, DbInv

LEMMA SweepSelectKeepsIInv == ASSUME IInv, NEW w \in Sweepers, SweepSelect(w) PROVE IInv'
<1> USE DEF request, environment
<1>1. PICK batch \in SUBSET Claimable :
         /\ sweep' = [sweep EXCEPT ![w].todo = batch]
         /\ rowLock' = [r \in Rsv |-> IF r \in batch THEN w ELSE rowLock[r]]
  BY DEF SweepSelect
<1>2. /\ UNCHANGED <<acct, dbAcct, rsv, dbRsv, lock, request, environment, faults>>
      /\ sweep[w] = NoWork
  BY DEF SweepSelect
<1>3. /\ batch \subseteq Rsv
      /\ \A r \in batch : dbRsv[r].status = "held" /\ rowLock[r] = NoOne
  BY DEF Claimable, IsHeld, IInv, TypeRest
<1>4. w \in Sessions /\ w \notin Requests
  BY SessionsAssumption DEF Sessions
<1>5. DbInv'
  BY <1>1, <1>2, <1>3, <1>4, NoOneIsNoSession
  DEF IInv, DbInv, TypeDb, Unlocked, LockedRows, Books, Balanced, Debits, DebitsOf
<1>6. SweptRows'
  BY <1>1, <1>2, <1>3, <1>4, NoOneIsNoSession
  DEF IInv, SweptRows, TypeRest, Work, NoWork, Sessions
<1>7. CallRows'
  <2>1. ASSUME NEW p \in Requests, pc[p] \in {"calling", "answered", "persisted"}
        PROVE  rowLock'[Current(p)] = p
    BY <1>1, <1>3, <2>1, CurrentRow, NoOneIsNoSession DEF Sessions
  <2> QED BY <1>2, <2>1 DEF IInv, CallRows, Current
<1>8. FutureRows'
  BY <1>1, <1>2, <1>3 DEF IInv, FutureRows, NoRow
<1>9. TypeRest'
  <2>1. [sweep[w] EXCEPT !.todo = batch] \in Work
    BY <1>2, <1>3 DEF NoWork, Work
  <2> QED BY <1>1, <1>2, <2>1 DEF IInv, TypeRest
<1> QED BY <1>5, <1>6, <1>7, <1>8, <1>9 DEF IInv

LEMMA TopUpKeepsIInv == ASSUME IInv, NEW u \in Users, TopUp(u) PROVE IInv'
<1> USE DEF request
<1>1. PICK a \in TopUps : acct' = [acct EXCEPT ![u] = Credited(@, a)]
  BY DEF TopUp
<1>2. /\ dbAcct' = [dbAcct EXCEPT ![u] = acct'[u]]
      /\ lock[u] = NoOne /\ topUps < MaxTopUps /\ topUps' = topUps + 1
      /\ UNCHANGED <<rsv, dbRsv, lock, rowLock, request, sweep, faults, due, price, priceChanges>>
  BY DEF TopUp
<1>3. acct \in [Users -> Account] /\ dbAcct \in [Users -> Account]
  BY DEF IInv, DbInv, TypeDb
<1>4. acct'[u] \in Account /\ acct'[u].balance = acct[u].balance + a /\ acct'[u].ledger = acct[u].ledger + a
  BY <1>1, <1>3, AmountsAssumption DEF Account, Credited
<1>5. acct' \in [Users -> Account] /\ \A v \in Users : v # u => acct'[v] = acct[v]
  BY <1>1, <1>3, <1>4
<1>6. TypeDb' /\ Unlocked' /\ LockedRows' /\ Debits'
  BY <1>2, <1>3, <1>4, <1>5 DEF IInv, DbInv, TypeDb, Unlocked, LockedRows, Debits, DebitsOf
<1>7. Books'
  BY <1>2, <1>3, <1>4, <1>5 DEF IInv, DbInv, Books, Balanced
<1>8. SweptRows' /\ CallRows' /\ FutureRows'
  BY <1>2, SweptFrame, CallFrame, FutureFrame
<1>9. TypeRest'
  BY <1>2, AmountsAssumption DEF IInv, TypeRest
<1> QED BY <1>6, <1>7, <1>8, <1>9 DEF IInv, DbInv
-----------------------------------------------------------------------------
(* The theorems *)

LEMMA NextKeepsIInv == IInv /\ [Next]_vars => IInv'
<1> SUFFICES ASSUME IInv, [Next]_vars PROVE IInv'
  OBVIOUS
<1>1. ASSUME NEW q \in Requests, RequestStep(q) PROVE IInv'
  BY <1>1, GateKeepsIInv, ReserveKeepsIInv, ProviderAnswersKeepsIInv, ProviderFailsKeepsIInv,
     ReleaseFailsKeepsIInv, PersistKeepsIInv, PersistFailsKeepsIInv, SettleKeepsIInv,
     SettleFailsKeepsIInv, CommitKeepsIInv, AbortKeepsIInv DEF RequestStep
<1>2. ASSUME NEW w \in Sweepers, SweepStep(w) \/ TierFails(w) \/ SweepCrash(w) PROVE IInv'
  BY <1>2, SweepSelectKeepsIInv, SweepNextKeepsIInv, RetrySettleKeepsIInv,
     RetryAtEstimateKeepsIInv, ReleaseStaleKeepsIInv, RetryUnpricedKeepsIInv,
     DeadlockVictimKeepsIInv, SweepCommitKeepsIInv, TierFailsKeepsIInv, SweepCrashKeepsIInv
  DEF SweepStep
<1>3. ASSUME NEW r \in Rsv, Age(r) PROVE IInv'
  BY <1>3, AgeKeepsIInv
<1>4. ASSUME NEW u \in Users, TopUp(u) PROVE IInv'
  BY <1>4, TopUpKeepsIInv
<1>5. CASE SetPrice
  BY <1>5, SetPriceKeepsIInv
<1>6. CASE Finished \/ UNCHANGED vars
  BY <1>6, StutterKeepsIInv DEF Finished
<1> QED BY <1>1, <1>2, <1>3, <1>4, <1>5, <1>6 DEF Next

LEMMA InductiveInvariant == Spec => []IInv
<1>1. Init => IInv
  BY InitEstablishesIInv
<1>2. IInv /\ [Next]_vars => IInv'
  BY NextKeepsIInv
<1> QED BY <1>1, <1>2, PTL DEF Spec

\* Every variable keeps its type, for any number of users, requests, sweeps,
\* calls, prices and faults: no settlement or sweep leaves a malformed row.
THEOREM TypeCorrect == Spec => []TypeOK
<1>1. IInv => TypeOK
  BY DEF IInv, DbInv, TypeDb, TypeRest, Work, TypeOK
<1> QED BY <1>1, InductiveInvariant, PTL

\* The stored balance of a user equals the sum of the credit transactions,
\* whatever commits, fails, is rolled back or is swept (the first drift check).
THEOREM BalanceIsLedger == Spec => []LedgerMatchesBalance
<1>1. IInv => LedgerMatchesBalance
  BY DEF IInv, DbInv, Books, Balanced, LedgerMatchesBalance
<1> QED BY <1>1, InductiveInvariant, PTL

\* A settled reservation was debited exactly once, any other one never: the
\* request and the sweeps cannot both charge it.
THEOREM ChargedExactlyOnce == Spec => []DebitedIffSettled
<1>1. IInv => DebitedIffSettled
  BY DEF IInv, DbInv, Debits, DebitsOf, DebitedIffSettled
<1> QED BY <1>1, InductiveInvariant, PTL

\* The committed rows change only where the session that commits holds them,
\* and no session holds a row that is resolved.
LEMMA OnlyHoldersPublish ==
    ASSUME IInv, Next PROVE ResolvedStays
<1>1. ASSUME NEW s \in Sessions, Publish(s) PROVE ResolvedStays
  BY <1>1 DEF IInv, DbInv, TypeDb, LockedRows, Sessions, ResolvedStays, Publish, Final
<1>2. ASSUME UNCHANGED dbRsv PROVE ResolvedStays
  BY <1>2 DEF ResolvedStays
<1>3. ASSUME NEW q \in Requests, RequestStep(q)
      PROVE  UNCHANGED dbRsv \/ Publish(q)
  BY <1>3 DEF RequestStep, Gate, Reserve, ProviderAnswers, ProviderFails, ReleaseFails, Persist,
     PersistFails, Settle, SettleFails, Commit, Abort, Charge, GiveBack, Undo, db
<1>4. ASSUME NEW w \in Sweepers, SweepStep(w) \/ TierFails(w) \/ SweepCrash(w)
      PROVE  UNCHANGED dbRsv \/ Publish(w)
  BY <1>4 DEF SweepStep, SweepSelect, SweepNext, RetrySettle, RetryAtEstimate, ReleaseStale,
     RetryUnpriced, DeadlockVictim, SweepCommit, TierFails, SweepCrash, Charge, GiveBack, Undo, db
<1>5. ASSUME (\E r \in Rsv : Age(r)) \/ (\E u \in Users : TopUp(u)) \/ SetPrice \/ Finished
      PROVE  UNCHANGED dbRsv
  BY <1>5 DEF Age, TopUp, SetPrice, Finished, vars, db
<1> QED BY <1>1, <1>2, <1>3, <1>4, <1>5 DEF Next, Sessions

\* A reservation that is settled, released or stale is never touched again, by
\* a late settle(), a second sweep or a rollback.
THEOREM ResolvedNeverReopened == Spec => ResolvedForGood
<1>1. IInv /\ [Next]_vars => [ResolvedStays]_vars
  BY OnlyHoldersPublish
<1> QED BY <1>1, InductiveInvariant, PTL DEF Spec, ResolvedForGood
-----------------------------------------------------------------------------
(* No forgiveness without a fault.  The invariant follows an answer from the *)
(* call through the row its request writes to the sweep that reads the row.  *)
(* It needs a single sweep worker: of two that wait for each other           *)
(* PostgreSQL ends a statement, which can drive a sweep to its last tier.    *)

OneSweep == \A v, w \in Sweepers : v = w

\* A row a sweep settles.
Chargeable(row) == row.meta # NoMeta /\ row.status \in {"held", "settled"}

\* Where the usage of a call is, as long as its request's transaction is open.
OpenRow(r) ==
    LET q == r[1] IN
    /\ r[2] > calls[q] => usage[r] = "none"
    /\ r[2] = calls[q] /\ pc[q] = "calling" => usage[r] = "none"
    /\ r[2] = calls[q] /\ pc[q] = "persisted" => usage[r] = "recorded"
    /\ usage[r] # "none" /\ pc[q] \notin Over => rowLock[r] = q
    /\ usage[r] = "answered" /\ pc[q] # "aborted" => pc[q] = "answered" /\ r[2] = calls[q]
OpenUsage == poisoned = {} /\ \A r \in Rsv : OpenRow(r)

\* What is recorded stays chargeable, in both versions of the row.
RecordedRow(r) ==
    usage[r] = "recorded" /\ pc[r[1]] # "aborted" =>
        Chargeable(rsv[r]) /\ (pc[r[1]] = "done" => Chargeable(dbRsv[r]))
Recorded == \A r \in Rsv : RecordedRow(r)

\* A sweep forgives only a row without metadata.
LastTier == \A w \in Sweepers : sweep[w].tier = 3 => rsv[sweep[w].at].meta = NoMeta

Usage == OpenUsage /\ Recorded /\ LastTier
FInv == faults = 0 => Usage

LEMMA InitEstablishesFInv == Init => FInv
<1> SUFFICES ASSUME Init PROVE FInv
  OBVIOUS
<1>1. \A r \in Rsv : pc[r[1]] = "new" /\ calls[r[1]] = 0 /\ usage[r] = "none"
  BY RsvFacts DEF Init
<1>2. OpenUsage
  BY <1>1 DEF Init, OpenUsage, OpenRow
<1>3. Recorded /\ LastTier
  BY <1>1 DEF Init, Recorded, RecordedRow, LastTier, NoWork
<1> QED BY <1>2, <1>3 DEF FInv, Usage

\* A step that counts a fault has nothing to keep.
LEMMA FaultKeepsFInv == ASSUME IInv, Fault PROVE FInv'
  BY AmountsAssumption DEF IInv, TypeRest, Fault, FInv

\* The identifiers of two rows of a request differ in the number of the call.
LEMMA CurrentIs == ASSUME NEW q \in Requests, NEW r \in Rsv PROVE r = Current(q) <=> r[1] = q /\ r[2] = calls[q]
  BY RsvFacts DEF Current

\* What a sweep works on is locked by it, so other sessions leave it alone.
LEMMA LastTierFrame ==
    ASSUME IInv, LastTier, UNCHANGED sweep,
           \A r \in Rsv : rowLock[r] \in Sweepers => rsv'[r].meta = rsv[r].meta
    PROVE  LastTier'
  BY DEF IInv, SweptRows, TypeRest, Work, LastTier

\* A step of a request disturbs only the request's own rows.
LEMMA RequestFrame ==
    ASSUME IInv, Usage, NEW q \in Requests, UNCHANGED <<poisoned, sweep>>,
           \A p \in Requests : p # q => pc'[p] = pc[p] /\ calls'[p] = calls[p],
           \A r \in Rsv : r[1] # q =>
               usage'[r] = usage[r] /\ rowLock'[r] = rowLock[r] /\ rsv'[r] = rsv[r] /\ dbRsv'[r] = dbRsv[r],
           \A r \in Rsv : r[1] = q => OpenRow(r)' /\ RecordedRow(r)',
           \A r \in Rsv : rowLock[r] \in Sweepers => rsv'[r].meta = rsv[r].meta
    PROVE  Usage'
<1>1. ASSUME NEW r \in Rsv, r[1] # q PROVE OpenRow(r)' /\ RecordedRow(r)'
  BY <1>1, RsvFacts DEF Usage, OpenUsage, OpenRow, Recorded, RecordedRow
<1>2. OpenUsage' /\ Recorded'
  BY <1>1 DEF Usage, OpenUsage, Recorded
<1> QED BY <1>2, LastTierFrame DEF Usage

\* A step of a sweep leaves the requests' rows alone, and keeps chargeable
\* what is.
LEMMA SweepFrame ==
    ASSUME Usage, UNCHANGED request,
           \A r \in Rsv : rowLock[r] \in Requests => rowLock'[r] = rowLock[r],
           \A r \in Rsv : Chargeable(rsv[r]) => Chargeable(rsv'[r]),
           \A r \in Rsv : dbRsv'[r] \in {dbRsv[r], rsv[r]}
    PROVE  OpenUsage' /\ Recorded'
<1>1. ASSUME NEW r \in Rsv PROVE OpenRow(r)'
  BY RsvFacts DEF Usage, OpenUsage, OpenRow, request
<1>2. ASSUME NEW r \in Rsv PROVE RecordedRow(r)'
  BY DEF Usage, Recorded, RecordedRow, request
<1> QED BY <1>1, <1>2 DEF Usage, OpenUsage, Recorded, request
-----------------------------------------------------------------------------
(* The steps of a request *)

LEMMA GateKeepsFInv == ASSUME IInv, FInv, NEW q \in Requests, Gate(q) PROVE FInv'
<1> SUFFICES ASSUME Usage PROVE Usage'
  BY DEF FInv, Gate
<1>1. UNCHANGED <<rsv, dbRsv, rowLock, calls, poisoned, usage, sweep>>
  BY DEF Gate, db, environment
<1>2. /\ pc[q] = "new" /\ pc'[q] \in {"ready", "rejected"}
      /\ \A p \in Requests : p # q => pc'[p] = pc[p]
  BY DEF Gate, Goto, IInv, TypeRest
<1>3. ASSUME NEW r \in Rsv, r[1] = q PROVE OpenRow(r)' /\ RecordedRow(r)'
  BY <1>1, <1>2, <1>3 DEF Usage, OpenUsage, OpenRow, Recorded, RecordedRow, Over
<1> QED BY <1>1, <1>2, <1>3, RequestFrame

LEMMA ReserveKeepsFInv == ASSUME IInv, FInv, NEW q \in Requests, Reserve(q) PROVE FInv'
<1> SUFFICES ASSUME Usage PROVE Usage'
  BY DEF FInv, Reserve
<1> DEFINE x == <<q, calls[q] + 1>>
           row == [NoRow EXCEPT !.status = "held", !.est = Estimate]
<1>1. /\ UNCHANGED <<dbRsv, poisoned, usage, sweep>>
      /\ pc[q] = "ready" /\ pc' = [pc EXCEPT ![q] = "calling"]
      /\ calls' = [calls EXCEPT ![q] = @ + 1]
      /\ rsv' = [rsv EXCEPT ![x] = row]
      /\ rowLock' = [rowLock EXCEPT ![x] = q]
  BY DEF Reserve, Goto, environment
<1>2. calls[q] \in Nat /\ x[1] = q /\ x[2] = calls[q] + 1
  BY AmountsAssumption DEF IInv, TypeRest
<1> HIDE DEF x, row
<1>3. /\ pc'[q] = "calling" /\ calls'[q] = calls[q] + 1
      /\ \A p \in Requests : p # q => pc'[p] = pc[p] /\ calls'[p] = calls[p]
      /\ \A r \in Rsv : r # x => rsv'[r] = rsv[r] /\ rowLock'[r] = rowLock[r]
  BY <1>1 DEF IInv, TypeRest, DbInv, TypeDb
<1>4. \A r \in Rsv : r = x <=> r[1] = q /\ r[2] = calls[q] + 1
  BY RsvFacts DEF x
<1>5. x \in Rsv => usage[x] = "none" /\ rowLock[x] = NoOne
  BY <1>2 DEF Usage, OpenUsage, OpenRow, IInv, FutureRows
<1>6. ASSUME NEW r \in Rsv, r[1] = q PROVE OpenRow(r)' /\ RecordedRow(r)'
  <2>1. r[2] \in Nat
    BY RsvFacts
  <2>2. CASE r = x
    BY <1>1, <1>2, <1>3, <1>5, <2>2 DEF OpenRow, RecordedRow
  <2>3. CASE r # x
    BY <1>1, <1>2, <1>3, <1>4, <1>6, <2>1, <2>3
    DEF Usage, OpenUsage, OpenRow, Recorded, RecordedRow, Over
  <2> QED BY <2>2, <2>3
<1>7. \A r \in Rsv : rowLock[r] \in Sweepers => r # x
  BY <1>5, NoOneIsNoSession DEF Sessions
<1> QED BY <1>1, <1>2, <1>3, <1>6, <1>7, RequestFrame

LEMMA ProviderAnswersKeepsFInv == ASSUME IInv, FInv, NEW q \in Requests, ProviderAnswers(q) PROVE FInv'
<1> SUFFICES ASSUME Usage PROVE Usage'
  BY DEF FInv, ProviderAnswers
<1>1. UNCHANGED <<rsv, dbRsv, rowLock, calls, poisoned, sweep>>
  BY DEF ProviderAnswers, db, environment
<1>2. /\ pc[q] = "calling" /\ pc'[q] = "answered"
      /\ \A p \in Requests : p # q => pc'[p] = pc[p]
  BY DEF ProviderAnswers, Goto, IInv, TypeRest
<1>3. Current(q) \in Rsv /\ rowLock[Current(q)] = q
  BY <1>2, CurrentRow
<1>4. /\ usage'[Current(q)] = "answered"
      /\ \A r \in Rsv : r # Current(q) => usage'[r] = usage[r]
  BY <1>3 DEF ProviderAnswers, IInv, TypeRest
<1>5. ASSUME NEW r \in Rsv, r[1] = q PROVE OpenRow(r)' /\ RecordedRow(r)'
  <2>1. r = Current(q) <=> r[2] = calls[q]
    BY <1>5, CurrentIs
  <2>2. r[2] \in Nat /\ calls[q] \in Nat
    BY RsvFacts DEF IInv, TypeRest
  <2>3. CASE r = Current(q)
    BY <1>1, <1>2, <1>3, <1>4, <1>5, <2>1, <2>2, <2>3 DEF OpenRow, RecordedRow
  <2>4. CASE r # Current(q)
    BY <1>1, <1>2, <1>4, <1>5, <2>1, <2>4
    DEF Usage, OpenUsage, OpenRow, Recorded, RecordedRow, Over
  <2> QED BY <2>3, <2>4
<1>6. \A r \in Rsv : r[1] # q => usage'[r] = usage[r]
  BY <1>4, CurrentIs
<1> QED BY <1>1, <1>2, <1>5, <1>6, RequestFrame

\* A resolution of the request's own row in hand; its usage is none before a
\* release, recorded before a settlement.
LEMMA ProviderFailsKeepsFInv == ASSUME IInv, FInv, NEW q \in Requests, ProviderFails(q) PROVE FInv'
<1> SUFFICES ASSUME Usage PROVE Usage'
  BY DEF FInv, ProviderFails
<1> DEFINE x == Current(q)
<1>1. /\ UNCHANGED <<calls, poisoned, usage, sweep>>
      /\ pc[q] = "calling" /\ pc'[q] = "ready"
      /\ \A p \in Requests : p # q => pc'[p] = pc[p]
      /\ GiveBack(q, x, "released")
  BY DEF ProviderFails, Goto, environment, IInv, TypeRest
<1>2. q \in Sessions /\ x \in Rsv /\ rowLock[x] = q
  BY <1>1, CurrentRow DEF Sessions
<1>3. x[1] = q /\ x[2] = calls[q] /\ usage[x] = "none"
  BY <1>1, <1>2 DEF Usage, OpenUsage, OpenRow, Current
<1> HIDE DEF x
<1>4. /\ UNCHANGED <<dbRsv, rowLock>>
      /\ \A r \in Rsv : rsv'[r].meta = rsv[r].meta
      /\ \A r \in Rsv : r # x => rsv'[r] = rsv[r]
  BY <1>1, <1>2, Resolution
<1>5. ASSUME NEW r \in Rsv, r[1] = q PROVE OpenRow(r)' /\ RecordedRow(r)'
  <2>1. RecordedRow(r)'
    BY <1>1, <1>3, <1>4, <1>5 DEF Usage, Recorded, RecordedRow
  <2>2. OpenRow(r)'
    BY <1>1, <1>4, <1>5 DEF Usage, OpenUsage, OpenRow, Over
  <2> QED BY <2>1, <2>2
<1> QED BY <1>1, <1>3, <1>4, <1>5, RequestFrame

LEMMA PersistKeepsFInv == ASSUME IInv, FInv, NEW q \in Requests, Persist(q) PROVE FInv'
<1> SUFFICES ASSUME Usage PROVE Usage'
  BY DEF FInv, Persist
<1> DEFINE x == Current(q)
<1>1. /\ UNCHANGED <<dbRsv, rowLock, calls, poisoned, sweep>>
      /\ pc[q] = "answered" /\ pc'[q] = "persisted"
      /\ \A p \in Requests : p # q => pc'[p] = pc[p]
      /\ rsv' = [rsv EXCEPT ![x].meta = answer[q]]
      /\ usage' = [usage EXCEPT ![x] = "recorded"]
      /\ rsv[x].status = "held"
  BY DEF Persist, IsHeld, Goto, environment, IInv, TypeRest
<1>2. x \in Rsv /\ rowLock[x] = q /\ answer[q] # NoMeta
  BY <1>1, CurrentRow DEF IInv, CallRows
<1>3. /\ usage'[x] = "recorded"
      /\ \A r \in Rsv : r # x => usage'[r] = usage[r] /\ rsv'[r] = rsv[r]
      /\ rsv'[x].status = "held" /\ rsv'[x].meta = answer[q]
  <2>1. rsv[x] \in Row
    BY <1>2 DEF IInv, DbInv, TypeDb
  <2>2. rsv'[x] = [rsv[x] EXCEPT !.meta = answer[q]] /\ \A r \in Rsv : r # x => rsv'[r] = rsv[r]
    BY <1>1, <1>2 DEF IInv, DbInv, TypeDb
  <2>3. rsv'[x].status = "held" /\ rsv'[x].meta = answer[q]
    BY <1>1, <2>1, <2>2 DEF Row
  <2> QED BY <1>1, <1>2, <2>2, <2>3 DEF IInv, TypeRest
<1>4. x[1] = q /\ x[2] = calls[q]
  BY DEF Current
<1>5. Chargeable(rsv'[x])
  BY <1>2, <1>3 DEF Chargeable
<1>6. \A r \in Rsv : r = x <=> r[1] = q /\ r[2] = calls[q]
  BY CurrentIs
<1> HIDE DEF x
<1>7. ASSUME NEW r \in Rsv, r[1] = q PROVE OpenRow(r)' /\ RecordedRow(r)'
  <2>1. r[2] \in Nat /\ calls[q] \in Nat
    BY RsvFacts DEF IInv, TypeRest
  <2>2. CASE r = x
    <3>1. OpenRow(r)'
      BY <1>1, <1>2, <1>3, <1>4, <2>1, <2>2 DEF OpenRow
    <3>2. RecordedRow(r)'
      BY <1>1, <1>4, <1>5, <2>2 DEF RecordedRow
    <3> QED BY <3>1, <3>2
  <2>3. CASE r # x
    BY <1>1, <1>3, <1>6, <1>7, <2>3
    DEF Usage, OpenUsage, OpenRow, Recorded, RecordedRow, Over
  <2> QED BY <2>2, <2>3
<1>8. \A r \in Rsv : rowLock[r] \in Sweepers => r # x
  BY <1>2, SessionsAssumption
<1> QED BY <1>1, <1>3, <1>4, <1>7, <1>8, RequestFrame

LEMMA SettleKeepsFInv == ASSUME IInv, FInv, NEW q \in Requests, Settle(q) PROVE FInv'
<1> SUFFICES ASSUME Usage PROVE Usage'
  BY DEF FInv, Settle
<1> DEFINE x == Current(q)
<1>1. /\ UNCHANGED <<calls, poisoned, sweep>>
      /\ pc[q] = "persisted" /\ pc'[q] = "ready"
      /\ \A p \in Requests : p # q => pc'[p] = pc[p]
      /\ usage' = [usage EXCEPT ![x] = "recorded"]
      /\ Charge(q, x, answer[q] * price)
  BY DEF Settle, Goto, environment, IInv, TypeRest
<1>2. q \in Sessions /\ x \in Rsv /\ rowLock[x] = q
  BY <1>1, CurrentRow DEF Sessions
<1>3. x[1] = q /\ x[2] = calls[q]
  BY DEF Current
<1>4. \E cost \in Nat : Charge(q, x, cost)
  <2>1. answer[q] \in Nat /\ price \in Nat
    BY AmountsAssumption DEF IInv, TypeRest, CallRows, Priced, Settle
  <2> QED BY <1>1, <2>1, Products
<1> HIDE DEF x
<1>5. usage[x] = "recorded" /\ UNCHANGED usage
  <2>1. usage[x] = "recorded"
    BY <1>1, <1>2, <1>3 DEF Usage, OpenUsage, OpenRow
  <2> QED BY <1>1, <1>2, <2>1 DEF IInv, TypeRest
<1>6. /\ UNCHANGED <<dbRsv, rowLock>>
      /\ \A r \in Rsv : rsv'[r].meta = rsv[r].meta
      /\ \A r \in Rsv : r # x => rsv'[r] = rsv[r]
  BY <1>2, <1>4, Resolution
<1>7. rsv'[x].status = "settled"
  BY <1>1, <1>2 DEF Charge, SettledRow, IInv, DbInv, TypeDb, Row
<1>8. Chargeable(rsv'[x])
  BY <1>1, <1>2, <1>3, <1>5, <1>6, <1>7 DEF Usage, Recorded, RecordedRow, Chargeable
<1>9. ASSUME NEW r \in Rsv, r[1] = q PROVE OpenRow(r)' /\ RecordedRow(r)'
  <2>1. OpenRow(r)'
    BY <1>1, <1>5, <1>6, <1>9 DEF Usage, OpenUsage, OpenRow, Over
  <2>2. RecordedRow(r)'
    BY <1>1, <1>5, <1>6, <1>8, <1>9 DEF Usage, Recorded, RecordedRow
  <2> QED BY <2>1, <2>2
<1> QED BY <1>1, <1>3, <1>5, <1>6, <1>9, RequestFrame

LEMMA SettleFailsKeepsFInv == ASSUME IInv, FInv, NEW q \in Requests, SettleFails(q) PROVE FInv'
<1>1. CASE Fault
  BY <1>1, FaultKeepsFInv
<1>2. CASE UNCHANGED faults
  <2> SUFFICES ASSUME Usage PROVE Usage'
    BY <1>2 DEF FInv
  <2>1. UNCHANGED <<rsv, dbRsv, rowLock, calls, poisoned, usage, sweep>>
    BY DEF SettleFails, db, environment
  <2>2. /\ pc[q] = "persisted" /\ pc'[q] = "ready"
        /\ \A p \in Requests : p # q => pc'[p] = pc[p]
    BY DEF SettleFails, Goto, IInv, TypeRest
  <2>3. ASSUME NEW r \in Rsv, r[1] = q PROVE OpenRow(r)' /\ RecordedRow(r)'
    BY <2>1, <2>2, <2>3 DEF Usage, OpenUsage, OpenRow, Recorded, RecordedRow, Over
  <2> QED BY <2>1, <2>2, <2>3, RequestFrame
<1> QED BY <1>1, <1>2 DEF SettleFails

\* Everything a request has been answered is recorded when it may commit, in
\* rows it has locked.
LEMMA CommitKeepsFInv == ASSUME IInv, FInv, NEW q \in Requests, Commit(q) PROVE FInv'
<1> SUFFICES ASSUME Usage PROVE Usage'
  BY DEF FInv, Commit
<1>1. /\ UNCHANGED <<calls, poisoned, usage, sweep>>
      /\ pc[q] = "ready" /\ pc'[q] = "done"
      /\ \A p \in Requests : p # q => pc'[p] = pc[p]
      /\ Publish(q)
  BY DEF Commit, Goto, environment, IInv, TypeRest, Usage, OpenUsage
<1>2. /\ UNCHANGED rsv
      /\ \A r \in Rsv : rowLock[r] = q => dbRsv'[r] = rsv[r]
      /\ \A r \in Rsv : rowLock[r] # q => dbRsv'[r] = dbRsv[r] /\ rowLock'[r] = rowLock[r]
  BY <1>1 DEF Publish
<1>3. \A r \in Rsv : r[1] # q => rowLock[r] # q
  BY DEF IInv, DbInv, LockedRows
<1>4. ASSUME NEW r \in Rsv, r[1] = q PROVE OpenRow(r)' /\ RecordedRow(r)'
  <2>1. OpenRow(r)'
    BY <1>1, <1>4 DEF Usage, OpenUsage, OpenRow, Over
  <2>2. usage[r] # "none" => rowLock[r] = q
    BY <1>1, <1>4 DEF Usage, OpenUsage, OpenRow, Over
  <2>3. RecordedRow(r)'
    BY <1>1, <1>2, <1>4, <2>2 DEF Usage, Recorded, RecordedRow
  <2> QED BY <2>1, <2>3
<1> QED BY <1>1, <1>2, <1>3, <1>4, RequestFrame

LEMMA AbortKeepsFInv == ASSUME IInv, FInv, NEW q \in Requests, Abort(q) PROVE FInv'
<1> SUFFICES ASSUME Usage PROVE Usage'
  BY DEF FInv, Abort
<1>1. /\ UNCHANGED <<calls, poisoned, usage, sweep, dbRsv>>
      /\ pc[q] \notin Over /\ pc'[q] = "aborted"
      /\ \A p \in Requests : p # q => pc'[p] = pc[p]
      /\ Undo(q)
  BY DEF Abort, Undo, Goto, environment, IInv, TypeRest, Over
<1>2. \A r \in Rsv : rowLock[r] # q => rsv'[r] = rsv[r] /\ rowLock'[r] = rowLock[r]
  BY <1>1 DEF Undo
<1>3. \A r \in Rsv : r[1] # q => rowLock[r] # q
  BY DEF IInv, DbInv, LockedRows
<1>4. ASSUME NEW r \in Rsv, r[1] = q PROVE OpenRow(r)' /\ RecordedRow(r)'
  BY <1>1, <1>4 DEF Usage, OpenUsage, OpenRow, RecordedRow, Over
<1>5. q \notin Sweepers
  BY SessionsAssumption
<1> QED BY <1>1, <1>2, <1>3, <1>4, <1>5, RequestFrame
-----------------------------------------------------------------------------
(* The steps of the sweep *)

LEMMA SweepSelectKeepsFInv == ASSUME IInv, FInv, NEW w \in Sweepers, SweepSelect(w) PROVE FInv'
<1> SUFFICES ASSUME Usage PROVE Usage'
  BY DEF FInv, SweepSelect
<1>1. PICK batch \in SUBSET Claimable :
         /\ sweep' = [sweep EXCEPT ![w].todo = batch]
         /\ rowLock' = [r \in Rsv |-> IF r \in batch THEN w ELSE rowLock[r]]
  BY DEF SweepSelect
<1>2. UNCHANGED <<rsv, dbRsv, request>>
  BY DEF SweepSelect
<1>3. \A r \in Rsv : rowLock[r] \in Requests => rowLock'[r] = rowLock[r]
  BY <1>1, NoOneIsNoSession DEF Claimable, Sessions
<1>4. OpenUsage' /\ Recorded'
  BY <1>2, <1>3, SweepFrame DEF Chargeable
<1>5. \A v \in Sweepers : sweep'[v].tier = sweep[v].tier /\ sweep'[v].at = sweep[v].at
  BY <1>1 DEF IInv, TypeRest, Work
<1>6. LastTier'
  BY <1>2, <1>5 DEF Usage, LastTier
<1> QED BY <1>4, <1>6 DEF Usage

LEMMA SweepNextKeepsFInv == ASSUME IInv, FInv, NEW w \in Sweepers, SweepNext(w) PROVE FInv'
<1> SUFFICES ASSUME Usage PROVE Usage'
  BY DEF FInv, SweepNext
<1>1. PICK r \in sweep[w].todo :
         sweep' = [sweep EXCEPT ![w] = [todo |-> @.todo \ {r}, at |-> r, tier |-> FirstTier(r)]]
  BY DEF SweepNext
<1>2. UNCHANGED <<rsv, dbRsv, rowLock, request>>
  BY DEF SweepNext, db
<1>3. OpenUsage' /\ Recorded'
  BY <1>2, SweepFrame DEF Chargeable
<1>4. LastTier'
  BY <1>1, <1>2 DEF Usage, LastTier, FirstTier, IInv, TypeRest
<1> QED BY <1>3, <1>4 DEF Usage

LEMMA LeaveKeepsLastTier ==
    ASSUME IInv, LastTier, NEW w \in Sweepers, Leave(w),
           \A r \in Rsv : rsv'[r].meta = rsv[r].meta
    PROVE  LastTier'
  BY DEF IInv, SweptRows, TypeRest, Work, NoWork, Leave, LastTier

\* A settlement by the sweep leaves a chargeable row chargeable.
LEMMA SweptChargeKeepsFInv ==
    ASSUME IInv, FInv, NEW w \in Sweepers, sweep[w].tier > 0, NEW cost \in Nat,
           Charge(w, sweep[w].at, cost), Leave(w), UNCHANGED <<request, faults>>
    PROVE  FInv'
<1> SUFFICES ASSUME Usage PROVE Usage'
  BY DEF FInv
<1> DEFINE x == sweep[w].at
<1>1. w \in Sessions /\ x \in Rsv /\ rowLock[x] = w
  BY DEF Sessions, IInv, SweptRows, TypeRest, Work
<1> HIDE DEF x
<1>2. Charge(w, x, cost)
  BY DEF x
<1>3. /\ UNCHANGED <<dbRsv, rowLock>>
      /\ \A r \in Rsv : rsv'[r].meta = rsv[r].meta
      /\ \A r \in Rsv : r # x => rsv'[r] = rsv[r]
  BY <1>1, <1>2, Resolution
<1>4. rsv'[x].status = "settled"
  <2>1. rsv[x] \in Row /\ rsv'[x] = SettledRow(rsv[x], cost)
    BY <1>1, <1>2 DEF Charge, IInv, DbInv, TypeDb
  <2> QED BY <2>1 DEF SettledRow, Row
<1>5. \A r \in Rsv : Chargeable(rsv[r]) => Chargeable(rsv'[r])
  BY <1>3, <1>4 DEF Chargeable
<1>6. OpenUsage' /\ Recorded'
  BY <1>3, <1>5, SweepFrame
<1>7. LastTier'
  BY <1>3, LeaveKeepsLastTier DEF Usage
<1> QED BY <1>6, <1>7 DEF Usage

LEMMA RetrySettleKeepsFInv == ASSUME IInv, FInv, NEW w \in Sweepers, RetrySettle(w) PROVE FInv'
<1>1. sweep[w].at \in Rsv /\ sweep[w].tier = 1
  BY DEF RetrySettle, IInv, SweptRows, TypeRest, Work
<1>2. rsv[sweep[w].at].meta \in Nat /\ price \in Nat
  BY <1>1, AmountsAssumption DEF RetrySettle, Priced, IInv, SweptRows, TypeRest, DbInv, TypeDb, Row
<1> QED BY <1>1, <1>2, Products, SweptChargeKeepsFInv DEF RetrySettle

LEMMA RetryAtEstimateKeepsFInv == ASSUME IInv, FInv, NEW w \in Sweepers, RetryAtEstimate(w) PROVE FInv'
<1>1. sweep[w].at \in Rsv /\ sweep[w].tier = 2
  BY DEF RetryAtEstimate, IInv, SweptRows, TypeRest, Work
<1>2. rsv[sweep[w].at].est \in Nat
  BY <1>1 DEF IInv, DbInv, TypeDb, Row
<1> QED BY <1>1, <1>2, SweptChargeKeepsFInv DEF RetryAtEstimate

\* The row the last tier releases has no metadata, so it was not recorded.
LEMMA ReleaseStaleKeepsFInv == ASSUME IInv, FInv, NEW w \in Sweepers, ReleaseStale(w) PROVE FInv'
<1> SUFFICES ASSUME Usage PROVE Usage'
  BY DEF FInv, ReleaseStale
<1> DEFINE x == sweep[w].at
<1>1. w \in Sessions /\ x \in Rsv /\ rowLock[x] = w /\ rsv[x].meta = NoMeta
  BY DEF ReleaseStale, Sessions, Usage, LastTier, IInv, SweptRows, TypeRest, Work
<1>2. GiveBack(w, x, "stale") /\ Leave(w) /\ UNCHANGED request
  BY DEF ReleaseStale
<1> HIDE DEF x
<1>3. /\ UNCHANGED <<dbRsv, rowLock>>
      /\ \A r \in Rsv : rsv'[r].meta = rsv[r].meta
      /\ \A r \in Rsv : r # x => rsv'[r] = rsv[r]
  BY <1>1, <1>2, Resolution
<1>4. \A r \in Rsv : Chargeable(rsv[r]) => Chargeable(rsv'[r])
  BY <1>1, <1>3 DEF Chargeable
<1>5. OpenUsage' /\ Recorded'
  BY <1>2, <1>3, <1>4, SweepFrame
<1>6. LastTier'
  BY <1>2, <1>3, LeaveKeepsLastTier DEF Usage
<1> QED BY <1>5, <1>6 DEF Usage

\* A settlement without a price goes to the estimate, never to the release.
LEMMA RetryUnpricedKeepsFInv == ASSUME IInv, FInv, NEW w \in Sweepers, RetryUnpriced(w) PROVE FInv'
<1> SUFFICES ASSUME Usage PROVE Usage'
  BY DEF FInv, RetryUnpriced
<1>1. UNCHANGED <<rsv, dbRsv, rowLock, request>> /\ sweep[w].tier = 1
  BY DEF RetryUnpriced, db
<1>2. OpenUsage' /\ Recorded'
  BY <1>1, SweepFrame DEF Chargeable
<1>3. LastTier'
  BY <1>1 DEF RetryUnpriced, FallThrough, NextTier, Usage, LastTier, IInv, TypeRest, Work
<1> QED BY <1>2, <1>3 DEF Usage

LEMMA SweepCommitKeepsFInv == ASSUME IInv, FInv, NEW w \in Sweepers, SweepCommit(w) PROVE FInv'
<1> SUFFICES ASSUME Usage PROVE Usage'
  BY DEF FInv, SweepCommit
<1>1. UNCHANGED <<rsv, request, sweep>> /\ Publish(w)
  BY DEF SweepCommit, Publish
<1>2. \A r \in Rsv : rowLock[r] \in Requests => rowLock'[r] = rowLock[r]
  BY <1>1, SessionsAssumption DEF Publish
<1>3. \A r \in Rsv : dbRsv'[r] \in {dbRsv[r], rsv[r]}
  BY <1>1 DEF Publish
<1>4. OpenUsage' /\ Recorded'
  BY <1>1, <1>2, <1>3, SweepFrame DEF Chargeable
<1>5. LastTier'
  BY <1>1 DEF Usage, LastTier
<1> QED BY <1>4, <1>5 DEF Usage

\* The steps that touch neither a reservation row nor a request nor a sweep.
LEMMA EnvironmentKeepsFInv ==
    ASSUME FInv, UNCHANGED <<rsv, dbRsv, rowLock, request, sweep, faults>> PROVE FInv'
<1> SUFFICES ASSUME Usage PROVE Usage'
  BY DEF FInv
<1>1. OpenUsage' /\ Recorded'
  BY SweepFrame DEF Chargeable
<1>2. LastTier'
  BY DEF Usage, LastTier
<1> QED BY <1>1, <1>2 DEF Usage
-----------------------------------------------------------------------------
LEMMA NextKeepsFInv == ASSUME OneSweep, IInv, FInv, [Next]_vars PROVE FInv'
<1>1. ASSUME NEW q \in Requests, RequestStep(q) PROVE FInv'
  <2>1. CASE ReleaseFails(q) \/ PersistFails(q)
    BY <2>1, FaultKeepsFInv DEF ReleaseFails, PersistFails
  <2> QED BY <1>1, <2>1, GateKeepsFInv, ReserveKeepsFInv, ProviderAnswersKeepsFInv,
             ProviderFailsKeepsFInv, PersistKeepsFInv, SettleKeepsFInv, SettleFailsKeepsFInv,
             CommitKeepsFInv, AbortKeepsFInv DEF RequestStep
<1>2. ASSUME NEW w \in Sweepers, SweepStep(w) \/ TierFails(w) \/ SweepCrash(w) PROVE FInv'
  <2>1. CASE TierFails(w) \/ SweepCrash(w)
    BY <2>1, FaultKeepsFInv DEF TierFails, SweepCrash
  <2>2. ~DeadlockVictim(w)
    BY DEF OneSweep, DeadlockVictim
  <2> QED BY <1>2, <2>1, <2>2, SweepSelectKeepsFInv, SweepNextKeepsFInv, RetrySettleKeepsFInv,
             RetryAtEstimateKeepsFInv, ReleaseStaleKeepsFInv, RetryUnpricedKeepsFInv,
             SweepCommitKeepsFInv DEF SweepStep
<1>3. CASE (\E r \in Rsv : Age(r)) \/ (\E u \in Users : TopUp(u)) \/ SetPrice \/ UNCHANGED vars
  BY <1>3, EnvironmentKeepsFInv DEF Age, TopUp, SetPrice, vars, db
<1> QED BY <1>1, <1>2, <1>3 DEF Next, Finished

\* With one sweep worker and no database error, every call the provider
\* answered in a request that commits is charged or still held for a charge,
\* whatever becomes of the price: usage is forgiven only after a fault.
THEOREM OneSweepForgivesNothing ==
    ASSUME OneSweep PROVE Spec => []ForgivenOnlyAfterFault
<1>1. Init => FInv
  BY InitEstablishesFInv
<1>2. IInv /\ FInv /\ [Next]_vars => FInv'
  BY NextKeepsFInv
<1>3. IInv /\ FInv => ForgivenOnlyAfterFault
  <2> SUFFICES ASSUME IInv, FInv, NEW r \in Rsv, faults = 0, pc[r[1]] = "done", usage[r] # "none"
               PROVE  dbRsv[r].status \in {"held", "settled"}
    BY DEF ForgivenOnlyAfterFault
  <2>1. usage[r] = "recorded"
    BY DEF IInv, TypeRest, FInv, Usage, OpenUsage, OpenRow
  <2> QED BY <2>1 DEF FInv, Usage, Recorded, RecordedRow, Chargeable
<1> QED BY <1>1, <1>2, <1>3, InductiveInvariant, PTL DEF Spec
=============================================================================
