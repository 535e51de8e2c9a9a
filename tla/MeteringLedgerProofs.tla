------------------------ MODULE MeteringLedgerProofs ------------------------
(***************************************************************************)
(* Holds and charges, for every instance.                                  *)
(*                                                                         *)
(* First the second drift check of the sweep worker: what a user's         *)
(* held_balance_usd says is what the user's held reservations say.  The    *)
(* committed equation is not inductive.  It needs the same equation of the *)
(* tip versions, and a fact that ties the two row locks together: a        *)
(* session that has changed a reservation holds the users row too, so the  *)
(* two are committed, or rolled back, together.                            *)
(*                                                                         *)
(* Then the refinement: Metering implements CreditLedger.  Every commit of *)
(* a session is one transaction of the ledger, a credit is an adjustment,  *)
(* and every other step, each failure and rollback among them, is          *)
(* invisible.                                                              *)
(***************************************************************************)
EXTENDS MeteringProofs, AmountsProofs

HeldRows(row, u) == {r \in Rsv : UserOf[r] = u /\ row[r].status = "held"}
HoldOf(row, u) == SumOver(HeldRows(row, u), [r \in Rsv |-> row[r].est])

\* Whoever changed a reservation holds it, and its users row.
DirtyRows == \A r \in Rsv :
    rsv[r] # dbRsv[r] => rowLock[r] # NoOne /\ lock[UserOf[r]] = rowLock[r]

HeldTip == \A u \in Users : acct[u].held = HoldOf(rsv, u)
HeldDb == \A u \in Users : dbAcct[u].held = HoldOf(dbRsv, u)

HInv == DirtyRows /\ HeldTip /\ HeldDb

-----------------------------------------------------------------------------
(* Facts about holds *)

LEMMA RsvFinite == IsFiniteSet(Rsv)
<1> DEFINE Numbers == 1..MaxCalls
<1>1. IsFiniteSet(Requests)
  BY UsersAssumption
<1>2. IsFiniteSet(Numbers)
  BY AmountsAssumption, FS_Interval
<1> HIDE DEF Numbers
<1>3. IsFiniteSet(Requests \X Numbers)
  BY <1>1, <1>2, FS_Product
<1> QED BY <1>3 DEF Numbers, Rsv

LEMMA HeldRowsFinite == ASSUME NEW row, NEW u PROVE IsFiniteSet(HeldRows(row, u))
<1>1. HeldRows(row, u) \in SUBSET Rsv
  BY DEF HeldRows
<1> QED BY <1>1, RsvFinite, FS_Subset

\* The hold of a user depends on the status and the estimate of the user's rows.
LEMMA HoldSame ==
    ASSUME NEW a, NEW b, NEW u,
           \A r \in Rsv : UserOf[r] = u => a[r].status = b[r].status /\ a[r].est = b[r].est
    PROVE  HoldOf(a, u) = HoldOf(b, u)
<1>1. HeldRows(a, u) = HeldRows(b, u)
  BY DEF HeldRows
<1>2. \A r \in HeldRows(a, u) : [x \in Rsv |-> a[x].est][r] = [x \in Rsv |-> b[x].est][r]
  BY DEF HeldRows
<1>3. SumOver(HeldRows(a, u), [x \in Rsv |-> a[x].est]) = SumOver(HeldRows(a, u), [x \in Rsv |-> b[x].est])
  BY <1>2, SumSame
<1> QED BY <1>1, <1>3 DEF HoldOf

\* A hold given back: one row is no longer held.
LEMMA HoldRemoved ==
    ASSUME NEW a \in [Rsv -> Row], NEW b \in [Rsv -> Row], NEW r \in Rsv,
           a[r].status = "held", b[r].status # "held",
           \A x \in Rsv : x # r => b[x] = a[x]
    PROVE  /\ HoldOf(b, UserOf[r]) = HoldOf(a, UserOf[r]) - a[r].est
           /\ \A v \in Users : v # UserOf[r] => HoldOf(b, v) = HoldOf(a, v)
<1> DEFINE u == UserOf[r]
           S == HeldRows(a, u)
           amount == [x \in Rsv |-> a[x].est]
<1>1. S \subseteq Rsv /\ r \in S /\ IsFiniteSet(S)
  BY HeldRowsFinite DEF HeldRows
<1>2. \A x \in S : amount[x] \in Nat
  BY <1>1 DEF Row
<1>3. HeldRows(b, u) = S \ {r}
  BY DEF HeldRows
<1>4. \A x \in S \ {r} : amount[x] = [y \in Rsv |-> b[y].est][x]
  BY <1>1
<1>5. amount[r] = a[r].est
  OBVIOUS
<1>6. HoldOf(a, u) = SumOver(S, amount)
  BY DEF HoldOf
<1>7. HoldOf(b, u) = SumOver(S \ {r}, [y \in Rsv |-> b[y].est])
  BY <1>3 DEF HoldOf
<1> HIDE DEF S, amount
<1>8. SumOver(S \ {r}, amount) = SumOver(S \ {r}, [y \in Rsv |-> b[y].est])
  BY <1>4, SumSame
<1>9. SumOver(S \ {r}, amount) = SumOver(S, amount) - amount[r]
  BY <1>1, <1>2, SumRemove
<1>10. HoldOf(b, u) = HoldOf(a, u) - a[r].est
  BY <1>5, <1>6, <1>7, <1>8, <1>9
<1>11. ASSUME NEW v \in Users, v # u PROVE HoldOf(b, v) = HoldOf(a, v)
  BY <1>11, HoldSame
<1> QED BY <1>10, <1>11

\* A hold taken: one row more is held.
LEMMA HoldAdded ==
    ASSUME NEW a \in [Rsv -> Row], NEW b \in [Rsv -> Row], NEW r \in Rsv,
           a[r].status # "held", b[r].status = "held",
           \A x \in Rsv : x # r => b[x] = a[x]
    PROVE  /\ HoldOf(b, UserOf[r]) = HoldOf(a, UserOf[r]) + b[r].est
           /\ \A v \in Users : v # UserOf[r] => HoldOf(b, v) = HoldOf(a, v)
<1>1. /\ HoldOf(a, UserOf[r]) = HoldOf(b, UserOf[r]) - b[r].est
      /\ \A v \in Users : v # UserOf[r] => HoldOf(a, v) = HoldOf(b, v)
  BY HoldRemoved
<1>2. HoldOf(b, UserOf[r]) \in Nat
  <2>1. \A x \in HeldRows(b, UserOf[r]) : [y \in Rsv |-> b[y].est][x] \in Nat
    BY DEF HeldRows, Row
  <2> QED BY <2>1, HeldRowsFinite, SumType DEF HoldOf
<1>3. b[r].est \in Nat
  BY DEF Row
<1> QED BY <1>1, <1>2, <1>3

-----------------------------------------------------------------------------
(* What each effect on the database preserves *)

LEMMA HoldFrame == ASSUME HInv, UNCHANGED db PROVE HInv'
  BY DEF HInv, DirtyRows, HeldTip, HeldDb, HoldOf, HeldRows, db

LEMMA PublishKeepsHInv ==
    ASSUME IInv, HInv, NEW s \in Sessions, Publish(s)
    PROVE  HInv'
<1>1. DirtyRows'
  BY NoOneIsNoSession, RsvFacts DEF HInv, DirtyRows, Publish
<1>2. HeldTip'
  BY DEF HInv, HeldTip, HoldOf, HeldRows, Publish
<1>3. ASSUME NEW u \in Users PROVE dbAcct'[u].held = HoldOf(dbRsv', u)
  <2>1. CASE lock[u] = s
    <3>1. \A r \in Rsv : UserOf[r] = u => dbRsv'[r] = rsv[r]
      BY <2>1 DEF HInv, DirtyRows, Publish
    <3>2. HoldOf(dbRsv', u) = HoldOf(rsv, u)
      BY <3>1, HoldSame
    <3> QED BY <2>1, <3>2 DEF HInv, HeldTip, Publish
  <2>2. CASE lock[u] # s
    <3>1. \A r \in Rsv : UserOf[r] = u => dbRsv'[r] = dbRsv[r]
      BY <2>2 DEF HInv, DirtyRows, Publish
    <3>2. HoldOf(dbRsv', u) = HoldOf(dbRsv, u)
      BY <3>1, HoldSame
    <3> QED BY <2>2, <3>2 DEF HInv, HeldDb, Publish
  <2> QED BY <2>1, <2>2
<1> QED BY <1>1, <1>2, <1>3 DEF HInv, HeldDb

LEMMA UndoKeepsHInv ==
    ASSUME IInv, HInv, NEW s \in Sessions, Undo(s)
    PROVE  HInv'
<1>1. DirtyRows'
  BY NoOneIsNoSession, RsvFacts DEF HInv, DirtyRows, Undo
<1>2. HeldDb'
  BY DEF HInv, HeldDb, HoldOf, HeldRows, Undo
<1>3. ASSUME NEW u \in Users PROVE acct'[u].held = HoldOf(rsv', u)
  <2>1. CASE lock[u] = s
    <3>1. \A r \in Rsv : UserOf[r] = u => rsv'[r] = dbRsv[r]
      BY <2>1 DEF HInv, DirtyRows, Undo
    <3>2. HoldOf(rsv', u) = HoldOf(dbRsv, u)
      BY <3>1, HoldSame
    <3> QED BY <2>1, <3>2 DEF HInv, HeldDb, Undo
  <2>2. CASE lock[u] # s
    <3>1. \A r \in Rsv : UserOf[r] = u => rsv'[r] = rsv[r]
      BY <2>2 DEF HInv, DirtyRows, Undo
    <3>2. HoldOf(rsv', u) = HoldOf(rsv, u)
      BY <3>1, HoldSame
    <3> QED BY <2>2, <3>2 DEF HInv, HeldTip, Undo
  <2> QED BY <2>1, <2>2
<1> QED BY <1>1, <1>2, <1>3 DEF HInv, HeldTip

\* A settlement or a release takes the hold off by the estimate of its row.
LEMMA ResolutionKeepsHInv ==
    ASSUME IInv, HInv, NEW s \in Sessions, NEW r \in Rsv, rowLock[r] = s,
           \/ \E cost \in Nat : Charge(s, r, cost)
           \/ \E status \in {"released", "stale"} : GiveBack(s, r, status)
    PROVE  HInv'
<1> DEFINE u == UserOf[r]
<1>1. /\ rsv \in [Rsv -> Row] /\ acct \in [Users -> Account] /\ u \in Users
      /\ lock \in [Users -> Sessions \cup {NoOne}]
  BY RsvFacts DEF IInv, DbInv, TypeDb
<1>2. rsv' \in [Rsv -> Row] /\ UNCHANGED <<dbRsv, rowLock>> /\ \A x \in Rsv : x # r => rsv'[x] = rsv[x]
  BY Resolution DEF DbInv, TypeDb
<1>3. /\ rsv[r].status = "held" /\ rsv'[r].status # "held" /\ MayLock(s, u)
      /\ acct'[u].held = acct[u].held - rsv[r].est
      /\ \A v \in Users : v # u => acct'[v] = acct[v]
      /\ lock' = [lock EXCEPT ![u] = s]
      /\ UNCHANGED dbAcct
  <2>1. ASSUME NEW cost \in Nat, Charge(s, r, cost) PROVE <1>3!:
    BY <1>1, <2>1 DEF Charge, IsHeld, Debited, SettledRow, Account, Row
  <2>2. ASSUME NEW status \in {"released", "stale"}, GiveBack(s, r, status) PROVE <1>3!:
    BY <1>1, <2>2 DEF GiveBack, IsHeld, Account, Row
  <2> QED BY <2>1, <2>2
<1> HIDE DEF u
<1>4. DirtyRows'
  BY <1>1, <1>2, <1>3, NoOneIsNoSession, RsvFacts DEF HInv, DirtyRows, MayLock, u
<1>5. HeldTip'
  <2>1. HoldOf(rsv', u) = HoldOf(rsv, u) - rsv[r].est
    BY <1>1, <1>2, <1>3, HoldRemoved DEF u
  <2>2. \A v \in Users : v # u => HoldOf(rsv', v) = HoldOf(rsv, v)
    BY <1>1, <1>2, <1>3, HoldRemoved DEF u
  <2> QED BY <1>1, <1>3, <2>1, <2>2 DEF HInv, HeldTip
<1>6. HeldDb'
  BY <1>2, <1>3 DEF HInv, HeldDb, HoldOf, HeldRows
<1> QED BY <1>4, <1>5, <1>6 DEF HInv

\* A reservation adds its estimate to the hold of its user.
LEMMA ReserveKeepsHInv == ASSUME IInv, HInv, NEW q \in Requests, Reserve(q) PROVE HInv'
<1> DEFINE u == Owner[q]
           r == <<q, calls[q] + 1>>
           row == [NoRow EXCEPT !.status = "held", !.est = Estimate]
<1>1. /\ q \in Sessions /\ u \in Users /\ r \in Rsv /\ UserOf[r] = u
      /\ r[1] = q /\ r[2] > calls[q]
  <2>1. calls[q] \in 0..MaxCalls /\ calls[q] < MaxCalls /\ MaxCalls \in Nat
    BY AmountsAssumption DEF Reserve, IInv, TypeRest
  <2>2. calls[q] + 1 \in 1..MaxCalls
    BY <2>1
  <2>3. r \in Rsv
    BY <2>2, RsvFacts
  <2> QED BY <2>1, <2>3, UsersAssumption DEF Sessions, UserOf
<1>2. /\ rsv' = [rsv EXCEPT ![r] = row]
      /\ acct' = [acct EXCEPT ![u].held = @ + Estimate]
      /\ lock' = [lock EXCEPT ![u] = q]
      /\ rowLock' = [rowLock EXCEPT ![r] = q]
      /\ MayLock(q, u)
      /\ UNCHANGED <<dbAcct, dbRsv>>
  BY DEF Reserve
<1>3. rsv[r] = NoRow
  BY <1>1 DEF IInv, FutureRows
<1>4. NoRow.status # "held" /\ row.status = "held" /\ row.est = Estimate
  BY DEF NoRow
<1>5. /\ rsv \in [Rsv -> Row] /\ acct \in [Users -> Account]
      /\ lock \in [Users -> Sessions \cup {NoOne}]
      /\ rowLock \in [Rsv -> Sessions \cup {NoOne}]
  BY DEF IInv, DbInv, TypeDb
<1>6. rsv' \in [Rsv -> Row]
  BY ReserveKeepsIInv DEF IInv, DbInv, TypeDb
<1> HIDE DEF u, r, row
<1>7. DirtyRows'
  BY <1>1, <1>2, <1>5, NoOneIsNoSession, RsvFacts DEF HInv, DirtyRows, MayLock
<1>8. HeldTip'
  <2>1. rsv[r].status # "held" /\ rsv'[r] = row /\ \A x \in Rsv : x # r => rsv'[x] = rsv[x]
    BY <1>1, <1>2, <1>3, <1>4, <1>5
  <2>2. HoldOf(rsv', u) = HoldOf(rsv, u) + Estimate
    BY <1>1, <1>4, <1>5, <1>6, <2>1, HoldAdded
  <2>3. \A v \in Users : v # u => HoldOf(rsv', v) = HoldOf(rsv, v)
    BY <1>1, <1>4, <1>5, <1>6, <2>1, HoldAdded
  <2>4. acct'[u].held = acct[u].held + Estimate /\ \A v \in Users : v # u => acct'[v] = acct[v]
    BY <1>1, <1>2, <1>5 DEF Account
  <2> QED BY <1>1, <2>2, <2>3, <2>4 DEF HInv, HeldTip
<1>9. HeldDb'
  BY <1>2 DEF HInv, HeldDb, HoldOf, HeldRows
<1> QED BY <1>7, <1>8, <1>9 DEF HInv

\* Response metadata goes to a row that is new, so already its request's.
LEMMA PersistKeepsHInv == ASSUME IInv, HInv, NEW q \in Requests, Persist(q) PROVE HInv'
<1> DEFINE r == Current(q)
<1>1. r \in Rsv /\ rowLock[r] = q /\ q \in Requests /\ rsv[r].status = "held"
  BY CurrentRow DEF Persist, IsHeld
<1>2. /\ rsv' = [rsv EXCEPT ![r].meta = answer[q]]
      /\ UNCHANGED <<acct, dbAcct, dbRsv, lock, rowLock>>
  BY DEF Persist
<1>3. rsv \in [Rsv -> Row]
  BY DEF IInv, DbInv, TypeDb
<1> HIDE DEF r
<1>4. \A x \in Rsv : /\ x # r => rsv'[x] = rsv[x]
                     /\ rsv'[x].status = rsv[x].status /\ rsv'[x].est = rsv[x].est
  BY <1>1, <1>2, <1>3 DEF Row
<1>5. rsv[r] # dbRsv[r]
  BY <1>1 DEF IInv, DbInv, LockedRows
<1>6. DirtyRows'
  BY <1>1, <1>2, <1>4, <1>5 DEF HInv, DirtyRows
<1>7. \A u \in Users : HoldOf(rsv', u) = HoldOf(rsv, u)
  BY <1>4, HoldSame
<1>8. HeldTip' /\ HeldDb'
  BY <1>2, <1>7 DEF HInv, HeldTip, HeldDb, HoldOf, HeldRows
<1> QED BY <1>6, <1>8 DEF HInv

\* A sweep claims rows that nobody has changed.
LEMMA SweepSelectKeepsHInv == ASSUME IInv, HInv, NEW w \in Sweepers, SweepSelect(w) PROVE HInv'
<1>1. PICK batch \in SUBSET Claimable :
         rowLock' = [r \in Rsv |-> IF r \in batch THEN w ELSE rowLock[r]]
  BY DEF SweepSelect
<1>2. UNCHANGED <<acct, dbAcct, rsv, dbRsv, lock>>
  BY DEF SweepSelect
<1>3. \A r \in batch : rowLock[r] = NoOne
  BY DEF Claimable
<1>4. DirtyRows'
  BY <1>1, <1>2, <1>3 DEF HInv, DirtyRows
<1>5. HeldTip' /\ HeldDb'
  BY <1>2 DEF HInv, HeldTip, HeldDb, HoldOf, HeldRows
<1> QED BY <1>4, <1>5 DEF HInv

\* A credit leaves every hold alone.
LEMMA TopUpKeepsHInv == ASSUME IInv, HInv, NEW u \in Users, TopUp(u) PROVE HInv'
<1>1. acct \in [Users -> Account] /\ dbAcct \in [Users -> Account] /\ acct[u] = dbAcct[u]
  BY DEF TopUp, IInv, DbInv, TypeDb, Unlocked
<1>2. \A v \in Users : acct'[v].held = acct[v].held /\ dbAcct'[v].held = dbAcct[v].held
  BY <1>1 DEF TopUp, Credited
<1>3. UNCHANGED <<rsv, dbRsv, lock, rowLock>>
  BY DEF TopUp
<1> QED BY <1>2, <1>3 DEF HInv, DirtyRows, HeldTip, HeldDb, HoldOf, HeldRows

-----------------------------------------------------------------------------
(* The theorem *)

LEMMA InitEstablishesHInv == Init => HInv
<1> SUFFICES ASSUME Init PROVE HInv
  OBVIOUS
<1>1. rsv = [r \in Rsv |-> NoRow] /\ dbRsv = rsv
  BY DEF Init
<1>2. \A u \in Users : HeldRows(rsv, u) = {}
  BY <1>1 DEF HeldRows, NoRow
<1>3. \A u \in Users : HoldOf(rsv, u) = 0
  BY <1>2, SumEmpty DEF HoldOf
<1>4. \A u \in Users : acct[u].held = 0 /\ dbAcct[u].held = 0
  BY DEF Init
<1>5. HeldTip /\ HeldDb
  BY <1>1, <1>3, <1>4 DEF HeldTip, HeldDb
<1>6. DirtyRows
  BY <1>1 DEF DirtyRows
<1> QED BY <1>5, <1>6 DEF HInv

LEMMA NextKeepsHInv == IInv /\ HInv /\ [Next]_vars => HInv'
<1> SUFFICES ASSUME IInv, HInv, [Next]_vars PROVE HInv'
  OBVIOUS
<1>1. ASSUME NEW q \in Requests, RequestStep(q) PROVE HInv'
  <2>1. q \in Sessions
    BY DEF Sessions
  <2>2. CASE Commit(q) \/ Abort(q)
    BY <2>1, <2>2, PublishKeepsHInv, UndoKeepsHInv DEF Commit, Abort
  <2>3. CASE Settle(q)
    <3>1. /\ answer[q] * price \in Nat
          /\ Charge(q, Current(q), answer[q] * price)
          /\ Current(q) \in Rsv /\ rowLock[Current(q)] = q
      BY <2>3, CurrentRow, Products, AmountsAssumption DEF IInv, TypeRest, CallRows, Priced, Settle
    <3> QED BY <2>1, <3>1, ResolutionKeepsHInv
  <2>4. CASE ProviderFails(q)
    <3>1. /\ GiveBack(q, Current(q), "released")
          /\ Current(q) \in Rsv /\ rowLock[Current(q)] = q
      BY <2>4, CurrentRow DEF ProviderFails
    <3> QED BY <2>1, <3>1, ResolutionKeepsHInv
  <2>5. CASE Reserve(q)
    BY <2>5, ReserveKeepsHInv
  <2>6. CASE Persist(q)
    BY <2>6, PersistKeepsHInv
  <2>7. CASE Gate(q) \/ ProviderAnswers(q) \/ ReleaseFails(q) \/ PersistFails(q) \/ SettleFails(q)
    BY <2>7, HoldFrame DEF Gate, ProviderAnswers, ReleaseFails, PersistFails, SettleFails
  <2> QED BY <1>1, <2>2, <2>3, <2>4, <2>5, <2>6, <2>7 DEF RequestStep
<1>2. ASSUME NEW w \in Sweepers, SweepStep(w) \/ TierFails(w) \/ SweepCrash(w) PROVE HInv'
  <2>1. w \in Sessions
    BY DEF Sessions
  <2>2. CASE SweepCommit(w) \/ SweepCrash(w)
    BY <2>1, <2>2, PublishKeepsHInv, UndoKeepsHInv DEF SweepCommit, SweepCrash
  <2>3. ASSUME sweep[w].tier > 0
        PROVE  sweep[w].at \in Rsv /\ rowLock[sweep[w].at] = w
    BY <2>3 DEF IInv, SweptRows, TypeRest, Work
  <2>4. CASE RetrySettle(w)
    <3>1. sweep[w].at \in Rsv /\ rowLock[sweep[w].at] = w /\ sweep[w].tier = 1
      BY <2>3, <2>4 DEF RetrySettle
    <3>2. rsv[sweep[w].at].meta \in Nat /\ price \in Nat
      BY <2>4, <3>1, AmountsAssumption
      DEF RetrySettle, Priced, IInv, SweptRows, TypeRest, DbInv, TypeDb, Row
    <3>3. \E cost \in Nat : Charge(w, sweep[w].at, cost)
      BY <2>4, <3>2, Products DEF RetrySettle
    <3> QED BY <2>1, <3>1, <3>3, ResolutionKeepsHInv
  <2>5. CASE RetryAtEstimate(w)
    <3>1. sweep[w].at \in Rsv /\ rowLock[sweep[w].at] = w
      BY <2>3, <2>5 DEF RetryAtEstimate
    <3>2. rsv[sweep[w].at].est \in Nat
      BY <3>1 DEF IInv, DbInv, TypeDb, Row
    <3> QED BY <2>1, <2>5, <3>1, <3>2, ResolutionKeepsHInv DEF RetryAtEstimate
  <2>6. CASE ReleaseStale(w)
    <3>1. sweep[w].at \in Rsv /\ rowLock[sweep[w].at] = w
      BY <2>3, <2>6 DEF ReleaseStale
    <3> QED BY <2>1, <2>6, <3>1, ResolutionKeepsHInv DEF ReleaseStale
  <2>7. CASE SweepSelect(w)
    BY <2>7, SweepSelectKeepsHInv
  <2>8. CASE SweepNext(w) \/ RetryUnpriced(w) \/ DeadlockVictim(w) \/ TierFails(w)
    BY <2>8, HoldFrame DEF SweepNext, RetryUnpriced, DeadlockVictim, TierFails
  <2> QED BY <1>2, <2>2, <2>4, <2>5, <2>6, <2>7, <2>8 DEF SweepStep
<1>3. ASSUME NEW u \in Users, TopUp(u) PROVE HInv'
  BY <1>3, TopUpKeepsHInv
<1>4. CASE (\E r \in Rsv : Age(r)) \/ SetPrice \/ Finished \/ UNCHANGED vars
  BY <1>4, HoldFrame DEF Age, SetPrice, Finished, vars
<1> QED BY <1>1, <1>2, <1>3, <1>4 DEF Next

LEMMA HoldInvariant == Spec => []HInv
<1>1. Init => HInv
  BY InitEstablishesHInv
<1>2. IInv /\ HInv /\ [Next]_vars => HInv'
  BY NextKeepsHInv
<1> QED BY <1>1, <1>2, InductiveInvariant, PTL DEF Spec

\* users.held_balance_usd is the sum of the estimates of the user's held
\* reservations (the second drift check), for any number of requests and
\* sweeps of a user, whatever fails between a reservation and its resolution.
THEOREM HoldsAreBacked == Spec => []HeldMatchesReservations
<1>1. HInv => HeldMatchesReservations
  BY DEF HInv, HeldDb, HoldOf, HeldRows, HeldMatchesReservations, HeldBy
<1> QED BY <1>1, HoldInvariant, PTL
-----------------------------------------------------------------------------
(* The refinement relates the two versions of a user's rows: what an         *)
(* uncommitted session has made of a reservation is what one ledger          *)
(* transaction may make of it, and the balances differ by exactly the        *)
(* charges it has not committed yet.                                         *)

\* What one transaction may make of a committed row.
Moved(a, b) ==
    \/ b.status = a.status /\ b.est = a.est /\ b.actual = a.actual
    \/ a.status = "none" /\ b.status \in {"held", "settled", "released"} /\ b.est > 0
    \/ a.status = "held" /\ b.status \in {"settled", "stale"} /\ b.est = a.est
RowMoves == \A r \in Rsv : Moved(dbRsv[r], rsv[r])

Charged(row) == row.actual > 0 => row.status = "settled"
Charges == \A r \in Rsv : Charged(rsv[r]) /\ Charged(dbRsv[r])

\* Reservations of a user whose settlement is not committed.
Pending(u) == {r \in Rsv : UserOf[r] = u /\ rsv[r].status = "settled" /\ dbRsv[r].status # "settled"}
Costs(row) == [r \in Rsv |-> row[r].actual]

PendingCharges ==
    \A u \in Users : acct[u].balance = dbAcct[u].balance - SumOver(Pending(u), Costs(rsv))

LInv == RowMoves /\ Charges /\ PendingCharges

-----------------------------------------------------------------------------
(* Facts about pending charges *)

LEMMA PendingFinite == ASSUME NEW u PROVE IsFiniteSet(Pending(u))
<1>1. Pending(u) \in SUBSET Rsv
  BY DEF Pending
<1> QED BY <1>1, RsvFinite, FS_Subset

\* Nothing is pending where the two versions agree.
LEMMA NothingPending ==
    ASSUME NEW u, \A r \in Rsv : UserOf[r] = u => rsv[r] = dbRsv[r]
    PROVE  SumOver(Pending(u), Costs(rsv)) = 0
<1>1. Pending(u) = {}
  BY DEF Pending
<1> QED BY <1>1, SumEmpty

-----------------------------------------------------------------------------
(* What each effect on the database preserves *)

LEMMA LedgerFrame == ASSUME LInv, UNCHANGED <<acct, dbAcct, rsv, dbRsv>> PROVE LInv'
  BY DEF LInv, RowMoves, Charges, PendingCharges, Pending, Costs

\* When a session ends, the versions of what it held agree.
LEMMA EndKeepsLInv ==
    ASSUME IInv, HInv, LInv, NEW s \in Sessions, Publish(s) \/ Undo(s)
    PROVE  LInv'
<1>1. RowMoves'
  BY DEF LInv, RowMoves, Moved, IInv, DbInv, TypeDb, Publish, Undo
<1>2. Charges'
  BY DEF LInv, Charges, Charged, Publish, Undo
<1>3. ASSUME NEW u \in Users
      PROVE  acct'[u].balance = dbAcct'[u].balance - SumOver(Pending(u)', Costs(rsv'))
  <2>1. acct'[u].balance \in Int
    BY EndOfTransaction DEF DbInv, TypeDb, Account
  <2>2. CASE lock[u] = s
    <3>1. \A r \in Rsv : UserOf[r] = u => rsv'[r] = dbRsv'[r]
      BY <2>2 DEF HInv, DirtyRows, Publish, Undo
    <3>2. Pending(u)' = {}
      BY <3>1 DEF Pending
    <3>3. acct'[u] = dbAcct'[u]
      BY <2>2 DEF Publish, Undo
    <3> QED BY <2>1, <3>2, <3>3, SumEmpty
  <2>3. CASE lock[u] # s
    <3>1. \A r \in Rsv : UserOf[r] = u => rsv'[r] = rsv[r] /\ dbRsv'[r] = dbRsv[r]
      BY <2>3 DEF HInv, DirtyRows, Publish, Undo
    <3>2. Pending(u)' = Pending(u)
      BY <3>1 DEF Pending
    <3>3. \A r \in Pending(u) : Costs(rsv')[r] = Costs(rsv)[r]
      BY <3>1 DEF Pending, Costs
    <3>4. SumOver(Pending(u), Costs(rsv')) = SumOver(Pending(u), Costs(rsv))
      BY <3>3, SumSame
    <3>5. acct'[u] = acct[u] /\ dbAcct'[u] = dbAcct[u]
      BY <2>3 DEF Publish, Undo
    <3> QED BY <3>2, <3>4, <3>5 DEF LInv, PendingCharges
  <2> QED BY <2>2, <2>3
<1>4. PendingCharges'
  BY <1>3 DEF PendingCharges, Costs
<1> QED BY <1>1, <1>2, <1>4 DEF LInv

\* A settlement is pending with its cost until it is committed.
LEMMA ChargeKeepsLInv ==
    ASSUME IInv, LInv, NEW s \in Sessions, NEW r \in Rsv, rowLock[r] = s,
           NEW cost \in Nat, Charge(s, r, cost)
    PROVE  LInv'
<1> DEFINE u == UserOf[r]
<1>1. /\ rsv \in [Rsv -> Row] /\ dbRsv \in [Rsv -> Row] /\ acct \in [Users -> Account]
      /\ dbAcct \in [Users -> Account] /\ u \in Users
  BY RsvFacts DEF IInv, DbInv, TypeDb
<1>2. dbRsv[r].status \in {"none", "held"}
  BY DEF IInv, DbInv, LockedRows, Sessions
<1>3. /\ rsv[r].status = "held"
      /\ acct'[u].balance = acct[u].balance - cost
      /\ \A v \in Users : v # u => acct'[v] = acct[v]
      /\ rsv'[r].status = "settled" /\ rsv'[r].actual = cost /\ rsv'[r].est = rsv[r].est
      /\ \A x \in Rsv : x # r => rsv'[x] = rsv[x]
      /\ UNCHANGED <<dbAcct, dbRsv>>
  BY <1>1 DEF Charge, IsHeld, Debited, SettledRow, Row
<1> HIDE DEF u
<1>4. RowMoves'
  BY <1>1, <1>2, <1>3 DEF LInv, RowMoves, Moved, Row
<1>5. Charges'
  BY <1>3 DEF LInv, Charges, Charged
<1>6. SumOver(Pending(u)', Costs(rsv')) = SumOver(Pending(u), Costs(rsv)) + cost
  <2>1. r \notin Pending(u) /\ Pending(u)' = Pending(u) \cup {r}
    BY <1>2, <1>3 DEF Pending, u
  <2>2. \A x \in Pending(u) : Costs(rsv')[x] = Costs(rsv)[x]
    BY <1>3, <2>1 DEF Costs, Pending
  <2>3. rsv' \in [Rsv -> Row]
    BY ChargeKeepsDbInv DEF IInv, DbInv, TypeDb
  <2>4. \A x \in Pending(u) \cup {r} : Costs(rsv')[x] \in Nat
    BY <2>3 DEF Costs, Pending, Row
  <2>5. Costs(rsv')[r] = cost
    BY <1>3 DEF Costs
  <2>6. SumOver(Pending(u) \cup {r}, Costs(rsv')) = SumOver(Pending(u), Costs(rsv')) + cost
    BY <2>1, <2>4, <2>5, PendingFinite, SumAdd
  <2>7. SumOver(Pending(u), Costs(rsv')) = SumOver(Pending(u), Costs(rsv))
    BY <2>2, SumSame
  <2> QED BY <2>1, <2>6, <2>7
<1>7. ASSUME NEW v \in Users, v # u
      PROVE  SumOver(Pending(v)', Costs(rsv')) = SumOver(Pending(v), Costs(rsv))
  <2>1. Pending(v)' = Pending(v) /\ \A x \in Pending(v) : Costs(rsv')[x] = Costs(rsv)[x]
    BY <1>3, <1>7 DEF Costs, Pending, u
  <2> QED BY <2>1, SumSame
<1>8. SumOver(Pending(u), Costs(rsv)) \in Nat
  <2>1. \A x \in Pending(u) : Costs(rsv)[x] \in Nat
    BY <1>1 DEF Pending, Costs, Row
  <2> QED BY <2>1, PendingFinite, SumType
<1>9. PendingCharges'
  <2>1. Costs(rsv)' = Costs(rsv')
    BY DEF Costs
  <2>2. ASSUME NEW v \in Users
        PROVE  acct'[v].balance = dbAcct'[v].balance - SumOver(Pending(v)', Costs(rsv'))
    <3>1. acct[v].balance = dbAcct[v].balance - SumOver(Pending(v), Costs(rsv))
      BY DEF LInv, PendingCharges
    <3>2. dbAcct[v].balance \in Int
      BY <1>1 DEF Account
    <3> QED BY <1>3, <1>6, <1>7, <1>8, <3>1, <3>2
  <2> QED BY <2>1, <2>2 DEF PendingCharges
<1> QED BY <1>4, <1>5, <1>9 DEF LInv

\* A step that settles nothing and moves no balance leaves the charges pending
\* that were pending.
LEMMA PendingFrame ==
    ASSUME LInv, UNCHANGED <<dbAcct, dbRsv>>,
           \A u \in Users : acct'[u].balance = acct[u].balance,
           \A r \in Rsv : rsv'[r].status = "settled" \/ rsv[r].status = "settled" => rsv'[r] = rsv[r]
    PROVE  PendingCharges'
<1>1. ASSUME NEW u \in Users
      PROVE  SumOver(Pending(u)', Costs(rsv')) = SumOver(Pending(u), Costs(rsv))
  <2>1. Pending(u)' = Pending(u) /\ \A x \in Pending(u) : Costs(rsv')[x] = Costs(rsv)[x]
    BY DEF Costs, Pending
  <2> QED BY <2>1, SumSame
<1>2. Costs(rsv)' = Costs(rsv')
  BY DEF Costs
<1> QED BY <1>1, <1>2 DEF LInv, PendingCharges

\* A request releases rows it has inserted, a sweep calls committed ones stale.
LEMMA GiveBackKeepsLInv ==
    ASSUME IInv, LInv, NEW s \in Sessions, NEW r \in Rsv, rowLock[r] = s,
           NEW status \in {"released", "stale"}, GiveBack(s, r, status),
           s \in Requests <=> status = "released"
    PROVE  LInv'
<1>1. /\ rsv \in [Rsv -> Row] /\ dbRsv \in [Rsv -> Row] /\ acct \in [Users -> Account] /\ UserOf[r] \in Users
  BY RsvFacts DEF IInv, DbInv, TypeDb
<1>2. dbRsv[r].status = IF status = "released" THEN "none" ELSE "held"
  BY SessionsAssumption DEF IInv, DbInv, LockedRows, Sessions
<1>3. /\ rsv[r].status = "held" /\ rsv'[r].status = status
      /\ rsv'[r].actual = rsv[r].actual /\ rsv'[r].est = rsv[r].est
      /\ \A x \in Rsv : x # r => rsv'[x] = rsv[x]
      /\ \A u \in Users : acct'[u].balance = acct[u].balance
      /\ UNCHANGED <<dbAcct, dbRsv>>
  BY <1>1 DEF GiveBack, IsHeld, Row, Account
<1>4. RowMoves'
  BY <1>1, <1>2, <1>3 DEF LInv, RowMoves, Moved, Row
<1>5. Charges'
  BY <1>3 DEF LInv, Charges, Charged
<1>6. \A x \in Rsv : rsv'[x].status = "settled" \/ rsv[x].status = "settled" => rsv'[x] = rsv[x]
  BY <1>3
<1>7. PendingCharges'
  BY <1>3, <1>6, PendingFrame
<1> QED BY <1>4, <1>5, <1>7 DEF LInv

\* A reservation is a row the ledger may create.
LEMMA ReserveKeepsLInv == ASSUME IInv, LInv, NEW q \in Requests, Reserve(q) PROVE LInv'
<1> DEFINE r == <<q, calls[q] + 1>>
           row == [NoRow EXCEPT !.status = "held", !.est = Estimate]
<1>1. calls[q] \in 0..MaxCalls /\ calls[q] < MaxCalls /\ MaxCalls \in Nat
  BY AmountsAssumption DEF Reserve, IInv, TypeRest
<1>2. r \in Rsv /\ r[1] = q /\ r[2] > calls[q]
  BY <1>1, RsvFacts
<1>3. rsv[r] = NoRow /\ dbRsv[r] = NoRow
  BY <1>2 DEF IInv, FutureRows
<1>4. Ceiling * price \in Nat
  BY AmountsAssumption, Products DEF Reserve, IInv, TypeRest
<1>5. row.status = "held" /\ row.est > 0 /\ row.actual = 0
  BY <1>4 DEF NoRow, Estimate
<1>6. rsv \in [Rsv -> Row] /\ acct \in [Users -> Account]
  BY DEF IInv, DbInv, TypeDb
<1>7. /\ rsv' = [rsv EXCEPT ![r] = row]
      /\ \A u \in Users : acct'[u].balance = acct[u].balance
      /\ UNCHANGED <<dbAcct, dbRsv>>
  BY <1>6 DEF Reserve, Account
<1> HIDE DEF r, row
<1>8. rsv'[r] = row /\ \A x \in Rsv : x # r => rsv'[x] = rsv[x]
  BY <1>2, <1>6, <1>7
<1>9. RowMoves'
  BY <1>2, <1>3, <1>5, <1>7, <1>8 DEF LInv, RowMoves, Moved, NoRow
<1>10. Charges'
  BY <1>5, <1>7, <1>8 DEF LInv, Charges, Charged
<1>11. \A x \in Rsv : rsv'[x].status = "settled" \/ rsv[x].status = "settled" => rsv'[x] = rsv[x]
  BY <1>3, <1>5, <1>8 DEF NoRow
<1>12. PendingCharges'
  BY <1>7, <1>11, PendingFrame
<1> QED BY <1>9, <1>10, <1>12 DEF LInv

\* The ledger does not know response metadata.
LEMMA PersistKeepsLInv == ASSUME IInv, LInv, NEW q \in Requests, Persist(q) PROVE LInv'
<1> DEFINE r == Current(q)
<1>1. r \in Rsv /\ rsv[r].status = "held" /\ rsv' = [rsv EXCEPT ![r].meta = answer[q]]
  BY CurrentRow DEF Persist, IsHeld
<1>2. UNCHANGED <<acct, dbAcct, dbRsv>>
  BY DEF Persist
<1>3. rsv \in [Rsv -> Row]
  BY DEF IInv, DbInv, TypeDb
<1> HIDE DEF r
<1>4. /\ \A x \in Rsv : x # r => rsv'[x] = rsv[x]
      /\ rsv'[r].status = rsv[r].status /\ rsv'[r].est = rsv[r].est /\ rsv'[r].actual = rsv[r].actual
  BY <1>1, <1>3 DEF Row
<1>5. RowMoves' /\ Charges'
  BY <1>2, <1>4 DEF LInv, RowMoves, Moved, Charges, Charged
<1>6. \A x \in Rsv : rsv'[x].status = "settled" \/ rsv[x].status = "settled" => rsv'[x] = rsv[x]
  BY <1>1, <1>4
<1>7. PendingCharges'
  BY <1>2, <1>6, PendingFrame
<1> QED BY <1>5, <1>7 DEF LInv

\* A credit moves both versions of a balance that nobody has changed.
LEMMA TopUpKeepsLInv == ASSUME IInv, LInv, NEW u \in Users, TopUp(u) PROVE LInv'
<1>1. acct \in [Users -> Account] /\ dbAcct \in [Users -> Account] /\ acct[u] = dbAcct[u]
  BY DEF TopUp, IInv, DbInv, TypeDb, Unlocked
<1>2. UNCHANGED <<rsv, dbRsv>>
  BY DEF TopUp
<1>3. /\ acct'[u] = dbAcct'[u] /\ acct'[u].balance \in Int
      /\ \A v \in Users : v # u => acct'[v] = acct[v] /\ dbAcct'[v] = dbAcct[v]
  BY <1>1, AmountsAssumption DEF TopUp, Credited, Account
<1>4. SumOver(Pending(u), Costs(rsv)) \in Nat
  <2>1. \A x \in Pending(u) : Costs(rsv)[x] \in Nat
    BY DEF Pending, Costs, Row, IInv, DbInv, TypeDb
  <2> QED BY <2>1, PendingFinite, SumType
<1>5. SumOver(Pending(u), Costs(rsv)) = 0
  <2>1. acct[u].balance = dbAcct[u].balance - SumOver(Pending(u), Costs(rsv)) /\ acct[u].balance \in Int
    BY <1>1 DEF LInv, PendingCharges, Account
  <2> QED BY <1>1, <1>4, <2>1
<1>6. RowMoves' /\ Charges'
  BY <1>2 DEF LInv, RowMoves, Charges, Charged
<1>7. \A v \in Users : Pending(v)' = Pending(v) /\ Costs(rsv)' = Costs(rsv)
  BY <1>2 DEF Pending, Costs
<1>8. PendingCharges'
  BY <1>3, <1>5, <1>7 DEF LInv, PendingCharges
<1> QED BY <1>6, <1>8 DEF LInv

-----------------------------------------------------------------------------
(* The invariant *)

LEMMA InitEstablishesLInv == Init => LInv
<1> SUFFICES ASSUME Init PROVE LInv
  OBVIOUS
<1>1. rsv = [r \in Rsv |-> NoRow] /\ dbRsv = rsv /\ dbAcct = acct
  BY DEF Init
<1>2. RowMoves /\ Charges
  BY <1>1 DEF RowMoves, Moved, Charges, Charged, NoRow
<1>3. ASSUME NEW u \in Users
      PROVE  acct[u].balance = dbAcct[u].balance - SumOver(Pending(u), Costs(rsv))
  <2>1. SumOver(Pending(u), Costs(rsv)) = 0
    BY <1>1, NothingPending
  <2>2. acct[u].balance \in Int
    BY InitEstablishesIInv DEF IInv, DbInv, TypeDb, Account
  <2> QED BY <1>1, <2>1, <2>2
<1> QED BY <1>2, <1>3 DEF LInv, PendingCharges

LEMMA NextKeepsLInv == IInv /\ HInv /\ LInv /\ [Next]_vars => LInv'
<1> SUFFICES ASSUME IInv, HInv, LInv, [Next]_vars PROVE LInv'
  OBVIOUS
<1>1. ASSUME NEW q \in Requests, RequestStep(q) PROVE LInv'
  <2>1. q \in Sessions
    BY DEF Sessions
  <2>2. CASE Commit(q) \/ Abort(q)
    BY <2>1, <2>2, EndKeepsLInv DEF Commit, Abort
  <2>3. CASE Settle(q)
    <3>1. /\ answer[q] * price \in Nat
          /\ Charge(q, Current(q), answer[q] * price)
          /\ Current(q) \in Rsv /\ rowLock[Current(q)] = q
      BY <2>3, CurrentRow, Products, AmountsAssumption DEF IInv, TypeRest, CallRows, Priced, Settle
    <3> QED BY <2>1, <3>1, ChargeKeepsLInv
  <2>4. CASE ProviderFails(q)
    <3>1. /\ GiveBack(q, Current(q), "released")
          /\ Current(q) \in Rsv /\ rowLock[Current(q)] = q
      BY <2>4, CurrentRow DEF ProviderFails
    <3> QED BY <2>1, <3>1, GiveBackKeepsLInv
  <2>5. CASE Reserve(q)
    BY <2>5, ReserveKeepsLInv
  <2>6. CASE Persist(q)
    BY <2>6, PersistKeepsLInv
  <2>7. CASE Gate(q) \/ ProviderAnswers(q) \/ ReleaseFails(q) \/ PersistFails(q) \/ SettleFails(q)
    BY <2>7, LedgerFrame DEF Gate, ProviderAnswers, ReleaseFails, PersistFails, SettleFails, db
  <2> QED BY <1>1, <2>2, <2>3, <2>4, <2>5, <2>6, <2>7 DEF RequestStep
<1>2. ASSUME NEW w \in Sweepers, SweepStep(w) \/ TierFails(w) \/ SweepCrash(w) PROVE LInv'
  <2>1. w \in Sessions /\ w \notin Requests
    BY SessionsAssumption DEF Sessions
  <2>2. CASE SweepCommit(w) \/ SweepCrash(w)
    BY <2>1, <2>2, EndKeepsLInv DEF SweepCommit, SweepCrash
  <2>3. ASSUME sweep[w].tier > 0
        PROVE  sweep[w].at \in Rsv /\ rowLock[sweep[w].at] = w
    BY <2>3 DEF IInv, SweptRows, TypeRest, Work
  <2>4. CASE RetrySettle(w)
    <3>1. sweep[w].at \in Rsv /\ rowLock[sweep[w].at] = w /\ sweep[w].tier = 1
      BY <2>3, <2>4 DEF RetrySettle
    <3>2. rsv[sweep[w].at].meta \in Nat /\ price \in Nat
      BY <2>4, <3>1, AmountsAssumption
      DEF RetrySettle, Priced, IInv, SweptRows, TypeRest, DbInv, TypeDb, Row
    <3>3. \E cost \in Nat : Charge(w, sweep[w].at, cost)
      BY <2>4, <3>2, Products DEF RetrySettle
    <3> QED BY <2>1, <3>1, <3>3, ChargeKeepsLInv
  <2>5. CASE RetryAtEstimate(w)
    <3>1. sweep[w].at \in Rsv /\ rowLock[sweep[w].at] = w
      BY <2>3, <2>5 DEF RetryAtEstimate
    <3>2. rsv[sweep[w].at].est \in Nat
      BY <3>1 DEF IInv, DbInv, TypeDb, Row
    <3> QED BY <2>1, <2>5, <3>1, <3>2, ChargeKeepsLInv DEF RetryAtEstimate
  <2>6. CASE ReleaseStale(w)
    <3>1. sweep[w].at \in Rsv /\ rowLock[sweep[w].at] = w
      BY <2>3, <2>6 DEF ReleaseStale
    <3> QED BY <2>1, <2>6, <3>1, GiveBackKeepsLInv DEF ReleaseStale
  <2>7. CASE SweepSelect(w) \/ SweepNext(w) \/ RetryUnpriced(w) \/ DeadlockVictim(w) \/ TierFails(w)
    BY <2>7, LedgerFrame DEF SweepSelect, SweepNext, RetryUnpriced, DeadlockVictim, TierFails, db
  <2> QED BY <1>2, <2>2, <2>4, <2>5, <2>6, <2>7 DEF SweepStep
<1>3. ASSUME NEW u \in Users, TopUp(u) PROVE LInv'
  BY <1>3, TopUpKeepsLInv
<1>4. CASE (\E r \in Rsv : Age(r)) \/ SetPrice \/ Finished \/ UNCHANGED vars
  BY <1>4, LedgerFrame DEF Age, SetPrice, Finished, vars, db
<1> QED BY <1>1, <1>2, <1>3, <1>4 DEF Next

LEMMA LedgerInvariant == Spec => []LInv
<1>1. Init => LInv
  BY InitEstablishesLInv
<1>2. IInv /\ HInv /\ LInv /\ [Next]_vars => LInv'
  BY NextKeepsLInv
<1> QED BY <1>1, <1>2, InductiveInvariant, HoldInvariant, PTL DEF Spec

-----------------------------------------------------------------------------
(* The refinement *)

LEMMA InitIsLedgerInit == Init => Ledger!Init
<1> SUFFICES ASSUME Init PROVE Ledger!Init
  OBVIOUS
<1>1. dbRsv = [r \in Rsv |-> NoRow]
  BY DEF Init
<1>2. \A u \in Users : dbAcct[u].held = 0 /\ dbAcct[u].balance \in Int
  BY InitEstablishesIInv DEF Init, IInv, DbInv, TypeDb, Account
<1> QED BY <1>1, <1>2 DEF Ledger!Init, NoRow

\* What the ledger does not see.
LEMMA InvisibleStep == ASSUME UNCHANGED <<dbAcct, dbRsv>> PROVE UNCHANGED Ledger!vars
  BY DEF Ledger!vars

\* The ledger sums as the metering does.
LEMMA OneSum == ASSUME NEW S, NEW amount PROVE Ledger!SumOver(S, amount) = SumOver(S, amount)
<1>1. Ledger!Units(S, amount) = Units(S, amount)
  BY DEF Ledger!Units, Units
<1>2. \A T : Ledger!Cardinality(T) = Cardinality(T)
  BY DEF Ledger!Cardinality, Cardinality
<1> QED BY <1>1, <1>2 DEF Ledger!SumOver, SumOver

\* A commit is one transaction of the ledger.
LEMMA PublishIsTransact ==
    ASSUME IInv, HInv, LInv, NEW s \in Sessions, Publish(s)
    PROVE  Ledger!Transact
<1>1. ASSUME NEW r \in Rsv PROVE Ledger!Keeps(r) \/ Ledger!Creates(r) \/ Ledger!Resolves(r)
  <2>1. Moved(dbRsv[r], dbRsv'[r])
    BY DEF LInv, RowMoves, Moved, Publish
  <2>2. Charged(dbRsv'[r]) /\ dbRsv'[r].actual \in Nat
    BY PublishKeepsDbInv, EndKeepsLInv DEF LInv, Charges, IInv, DbInv, TypeDb, Row
  <2> QED BY <2>1, <2>2 DEF Moved, Charged, Ledger!Keeps, Ledger!Creates, Ledger!Resolves
<1>2. ASSUME NEW u \in Users
      PROVE  dbAcct'[u].balance = dbAcct[u].balance
                 - SumOver({r \in Rsv : /\ UserOf[r] = u /\ dbRsv'[r].status = "settled"
                                        /\ dbRsv[r].status # "settled"}, Costs(dbRsv'))
  <2> DEFINE new == {r \in Rsv : /\ UserOf[r] = u /\ dbRsv'[r].status = "settled"
                                 /\ dbRsv[r].status # "settled"}
  <2>1. CASE lock[u] = s
    <3>1. \A r \in Rsv : UserOf[r] = u => dbRsv'[r] = rsv[r]
      BY <2>1 DEF HInv, DirtyRows, Publish
    <3>2. new = Pending(u) /\ \A r \in Pending(u) : Costs(dbRsv')[r] = Costs(rsv)[r]
      BY <3>1 DEF Pending, Costs
    <3>3. SumOver(new, Costs(dbRsv')) = SumOver(Pending(u), Costs(rsv))
      BY <3>2, SumSame
    <3>4. dbAcct'[u] = acct[u]
      BY <2>1 DEF Publish
    <3> QED BY <3>3, <3>4 DEF LInv, PendingCharges
  <2>2. CASE lock[u] # s
    <3>1. \A r \in Rsv : UserOf[r] = u => dbRsv'[r] = dbRsv[r]
      BY <2>2 DEF HInv, DirtyRows, Publish
    <3>2. new = {}
      BY <3>1
    <3>3. dbAcct'[u] = dbAcct[u] /\ dbAcct[u].balance \in Int
      BY <2>2 DEF Publish, IInv, DbInv, TypeDb, Account
    <3> HIDE DEF new
    <3>4. SumOver(new, Costs(dbRsv')) = 0
      BY <3>2, SumEmpty
    <3>5. dbAcct'[u].balance = dbAcct[u].balance - SumOver(new, Costs(dbRsv'))
      BY <3>3, <3>4
    <3> QED BY <3>5 DEF new
  <2> QED BY <2>1, <2>2
<1>3. ASSUME NEW u \in Users PROVE dbAcct'[u].held = HoldOf(dbRsv', u)
  BY PublishKeepsHInv DEF HInv, HeldDb, HoldOf, HeldRows
<1>4. ASSUME NEW u \in Users
      PROVE  /\ Ledger!RowsOf(u, {"settled"}, [r \in Rsv |-> dbRsv'[r].status])
                 \ Ledger!RowsOf(u, {"settled"}, [r \in Rsv |-> dbRsv[r].status])
                 = {r \in Rsv : /\ UserOf[r] = u /\ dbRsv'[r].status = "settled"
                                /\ dbRsv[r].status # "settled"}
             /\ Ledger!RowsOf(u, {"held"}, [r \in Rsv |-> dbRsv'[r].status]) = HeldRows(dbRsv', u)
  BY DEF Ledger!RowsOf, HeldRows
<1>5. /\ [u \in Users |-> dbAcct[u].balance]' = [u \in Users |-> dbAcct'[u].balance]
      /\ [u \in Users |-> dbAcct[u].held]' = [u \in Users |-> dbAcct'[u].held]
  OBVIOUS
<1> QED BY <1>1, <1>2, <1>3, <1>4, <1>5, OneSum DEF Ledger!Transact, Costs, HoldOf

\* A credit is an adjustment of one balance.
LEMMA TopUpIsAdjust ==
    ASSUME IInv, NEW u \in Users, TopUp(u)
    PROVE  Ledger!Adjust(u)
<1>1. acct \in [Users -> Account] /\ dbAcct \in [Users -> Account] /\ acct[u] = dbAcct[u]
  BY DEF TopUp, IInv, DbInv, TypeDb, Unlocked
<1>2. UNCHANGED dbRsv
  BY DEF TopUp
<1>3. \A v \in Users : /\ dbAcct'[v].held = dbAcct[v].held
                       /\ v # u => dbAcct'[v] = dbAcct[v]
  BY <1>1 DEF TopUp, Credited
<1> QED BY <1>2, <1>3 DEF Ledger!Adjust

LEMMA StepIsLedgerStep ==
    IInv /\ HInv /\ LInv /\ [Next]_vars => [Ledger!Next]_(Ledger!vars)
<1> SUFFICES ASSUME IInv, HInv, LInv, [Next]_vars PROVE Ledger!Next \/ UNCHANGED Ledger!vars
  OBVIOUS
<1>1. ASSUME NEW s \in Sessions, Publish(s) PROVE Ledger!Next
  BY <1>1, PublishIsTransact DEF Ledger!Next
<1>2. ASSUME NEW q \in Requests, RequestStep(q)
      PROVE  UNCHANGED <<dbAcct, dbRsv>> \/ Publish(q)
  BY <1>2 DEF RequestStep, Gate, Reserve, ProviderAnswers, ProviderFails, ReleaseFails, Persist,
     PersistFails, Settle, SettleFails, Commit, Abort, Charge, GiveBack, Undo, db
<1>3. ASSUME NEW w \in Sweepers, SweepStep(w) \/ TierFails(w) \/ SweepCrash(w)
      PROVE  UNCHANGED <<dbAcct, dbRsv>> \/ Publish(w)
  BY <1>3 DEF SweepStep, SweepSelect, SweepNext, RetrySettle, RetryAtEstimate, ReleaseStale,
     RetryUnpriced, DeadlockVictim, SweepCommit, TierFails, SweepCrash, Charge, GiveBack, Undo, db
<1>4. ASSUME NEW u \in Users, TopUp(u) PROVE Ledger!Next
  BY <1>4, TopUpIsAdjust DEF Ledger!Next
<1>5. ASSUME (\E r \in Rsv : Age(r)) \/ SetPrice \/ Finished \/ UNCHANGED vars
      PROVE  UNCHANGED <<dbAcct, dbRsv>>
  BY <1>5 DEF Age, SetPrice, Finished, vars, db
<1> QED BY <1>1, <1>2, <1>3, <1>4, <1>5, InvisibleStep DEF Next, Sessions

\* The metering pipeline, with its sessions, locks, retries and failures, does
\* to the committed rows what the abstract ledger allows and nothing else: a
\* balance falls by the charges of the reservations its commit settles, a hold
\* is the sum of the estimates still held, a reservation is resolved once.
THEOREM MeteringImplementsLedger == Spec => ImplementsLedger
<1>1. Init => Ledger!Init
  BY InitIsLedgerInit
<1>2. IInv /\ HInv /\ LInv /\ [Next]_vars => [Ledger!Next]_(Ledger!vars)
  BY StepIsLedgerStep
<1> QED BY <1>1, <1>2, InductiveInvariant, HoldInvariant, LedgerInvariant, PTL
        DEF Spec, ImplementsLedger, Ledger!Spec
=============================================================================
