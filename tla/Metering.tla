------------------------------ MODULE Metering ------------------------------
(***************************************************************************)
(* Reserve / call / settle metering of LLM calls over PostgreSQL.          *)
(*                                                                         *)
(* A request holds ONE database session from its first query to the commit *)
(* of get_db, the LLM call included, so everything it writes stays         *)
(* uncommitted until the handler returns.  The sweep worker is another     *)
(* session.  A row has a tip version (acct, rsv), which its writer sees,   *)
(* and a committed version (dbAcct, dbRsv), which everybody else sees;     *)
(* lock and rowLock name the session whose transaction holds the row.      *)
(* A savepoint block whose effects only its own session can see is one     *)
(* step: it takes place whole, or not at all and the error is swallowed.   *)
(*                                                                         *)
(* A definition that only precedes the one it resembles (DebitedByEstimate *)
(* before Debited, say) is a mistake the code does not make; PROJECT.json  *)
(* names it as a mutant and the property that rules it out.                *)
(***************************************************************************)
EXTENDS Amounts

CONSTANTS
    Users, Requests, Sweepers,
    Owner,            \* the authenticated user of each request
    MaxCalls,         \* LLM calls one handler makes, at most
    Ceiling,          \* token ceiling an estimate is computed from
    Responses,        \* answers of a provider: a token count, or Unpriced
    Unpriced,         \* answer of a model that has no pricing row of its own
    Prices,           \* prices per token the administrator may set
    NoPrice,          \* no pricing row for the model
    OpeningBalances,  \* balances an account may start from
    MinBalance,       \* settings.metering_minimum_balance
    BatchLimit,       \* _SWEEP_BATCH_LIMIT
    TopUps,           \* amounts other transactions credit (refunds: negative)
    NoMeta,           \* response metadata columns are NULL
    NoOne,            \* no session holds the row
    Idle,             \* the sweep works on no reservation
    MaxFaults,        \* database errors and worker crashes, at most
    MaxPriceChanges,  \* pricing edits, at most
    MaxTopUps         \* credits by other transactions, at most

ASSUME UsersAssumption == /\ IsFiniteSet(Users)
                          /\ IsFiniteSet(Requests)
                          /\ Owner \in [Requests -> Users]
ASSUME SessionsAssumption == /\ NoOne \notin Requests \cup Sweepers
                             /\ Requests \cap Sweepers = {}
ASSUME AmountsAssumption == /\ Ceiling \in Nat /\ MaxCalls \in Nat
                            /\ Unpriced \notin Nat /\ Responses \subseteq Nat \cup {Unpriced}
                            /\ NoMeta \notin Responses
                            /\ Prices \subseteq Nat /\ NoPrice \notin Nat
                            /\ OpeningBalances \subseteq Int /\ TopUps \subseteq Int
                            /\ MinBalance \in Int /\ BatchLimit \in Nat
                            /\ MaxFaults \in Nat /\ MaxPriceChanges \in Nat
                            /\ MaxTopUps \in Nat

Rsv == Requests \X (1..MaxCalls)
UserOf == [r \in Rsv |-> Owner[r[1]]]
Sessions == Requests \cup Sweepers

ASSUME IdleAssumption == Idle \notin Rsv

VARIABLES
    acct, dbAcct,     \* users row: balance, held and SUM(credit_transactions)
    rsv, dbRsv,       \* usage_reservations row
    lock, rowLock,    \* who holds a users row, a reservation row
    pc, calls,        \* where each request is, and the calls it has started
    answer,           \* the response the request has in hand
    poisoned,         \* requests whose transaction PostgreSQL has aborted
    usage,            \* history: what became of the call of each reservation
    due,              \* reservations older than the TTL
    sweep,            \* reservations a sweep has yet to process, and its place
    price, faults, priceChanges, topUps

db == <<acct, dbAcct, rsv, dbRsv, lock, rowLock>>
request == <<pc, calls, answer, poisoned, usage>>
environment == <<due, price, priceChanges, topUps>>
vars == <<db, request, environment, sweep, faults>>

Statuses == {"none", "held", "settled", "released", "stale"}
Final == {"settled", "released", "stale"}
Over == {"done", "aborted", "rejected"}

Account == [balance : Int, held : Int, ledger : Int]
Row == [status : Statuses, est : Nat, actual : Nat, meta : Responses \cup {NoMeta}, debits : Nat]

NoRow == [status |-> "none", est |-> 0, actual |-> 0, meta |-> NoMeta, debits |-> 0]
NoWork == [todo |-> {}, at |-> Idle, tier |-> 0]

TypeOK ==
    /\ acct \in [Users -> Account] /\ dbAcct \in [Users -> Account]
    /\ rsv \in [Rsv -> Row] /\ dbRsv \in [Rsv -> Row]
    /\ lock \in [Users -> Sessions \cup {NoOne}]
    /\ rowLock \in [Rsv -> Sessions \cup {NoOne}]
    /\ pc \in [Requests -> {"new", "ready", "calling", "answered", "persisted"} \cup Over]
    /\ calls \in [Requests -> 0..MaxCalls]
    /\ answer \in [Requests -> Responses \cup {NoMeta}]
    /\ poisoned \subseteq Requests
    /\ usage \in [Rsv -> {"none", "answered", "recorded"}]
    /\ due \subseteq Rsv
    /\ sweep \in [Sweepers -> [todo : SUBSET Rsv, at : Rsv \cup {Idle}, tier : 0..3]]
    /\ price \in Prices \cup {NoPrice}
    /\ faults \in 0..MaxFaults
    /\ priceChanges \in 0..MaxPriceChanges
    /\ topUps \in 0..MaxTopUps

Init ==
    /\ acct \in [Users -> {[balance |-> b, held |-> 0, ledger |-> b] : b \in OpeningBalances}]
    /\ dbAcct = acct
    /\ rsv = [r \in Rsv |-> NoRow] /\ dbRsv = rsv
    /\ lock = [u \in Users |-> NoOne]
    /\ rowLock = [r \in Rsv |-> NoOne]
    /\ pc = [q \in Requests |-> "new"]
    /\ calls = [q \in Requests |-> 0]
    /\ answer = [q \in Requests |-> NoMeta]
    /\ poisoned = {}
    /\ usage = [r \in Rsv |-> "none"]
    /\ due = {}
    /\ sweep = [w \in Sweepers |-> NoWork]
    /\ price \in Prices
    /\ faults = 0 /\ priceChanges = 0 /\ topUps = 0

-----------------------------------------------------------------------------
(* Transactions *)

MayLock(s, u) == lock[u] \in {NoOne, s}

\* COMMIT of session s: its versions become the committed ones.
Publish(s) ==
    /\ dbAcct' = [u \in Users |-> IF lock[u] = s THEN acct[u] ELSE dbAcct[u]]
    /\ dbRsv' = [r \in Rsv |-> IF rowLock[r] = s THEN rsv[r] ELSE dbRsv[r]]
    /\ lock' = [u \in Users |-> IF lock[u] = s THEN NoOne ELSE lock[u]]
    /\ rowLock' = [r \in Rsv |-> IF rowLock[r] = s THEN NoOne ELSE rowLock[r]]
    /\ UNCHANGED <<acct, rsv>>

\* ROLLBACK of session s, or the end of its connection.
Undo(s) ==
    /\ acct' = [u \in Users |-> IF lock[u] = s THEN dbAcct[u] ELSE acct[u]]
    /\ rsv' = [r \in Rsv |-> IF rowLock[r] = s THEN dbRsv[r] ELSE rsv[r]]
    /\ lock' = [u \in Users |-> IF lock[u] = s THEN NoOne ELSE lock[u]]
    /\ rowLock' = [r \in Rsv |-> IF rowLock[r] = s THEN NoOne ELSE rowLock[r]]
    /\ UNCHANGED <<dbAcct, dbRsv>>

\* The model the response names is registered and has a price (_get_pricing).
Priced(response) == price # NoPrice /\ response # Unpriced

Fault == faults < MaxFaults /\ faults' = faults + 1

\* Every UPDATE and the sweep's SELECT carry WHERE status = 'held'.
IsHeldOrSettled(row) == row.status \in {"held", "settled"}
IsHeld(row) == row.status = "held"

\* What settle() writes: the debit on balance and ledger, the estimate given
\* back, the row claimed with its cost.
DebitedByEstimate(row, cost, est) ==
    [balance |-> row.balance - est, held |-> row.held - est, ledger |-> row.ledger - est]
DebitedUnrecorded(row, cost, est) ==
    [balance |-> row.balance - cost, held |-> row.held - est, ledger |-> row.ledger]
Debited(row, cost, est) ==
    [balance |-> row.balance - cost, held |-> row.held - est, ledger |-> row.ledger - cost]

SettledRowUnclaimed(row, cost) == [row EXCEPT !.debits = @ + 1]
SettledRow(row, cost) ==
    [row EXCEPT !.status = "settled", !.actual = cost, !.debits = @ + 1]

\* The savepoint of settle(), under the lock of the users row.
Charge(s, r, cost) ==
    LET u == UserOf[r] IN
    /\ MayLock(s, u)
    /\ IsHeld(rsv[r])
    /\ acct' = [acct EXCEPT ![u] = Debited(@, cost, rsv[r].est)]
    /\ rsv' = [rsv EXCEPT ![r] = SettledRow(@, cost)]
    /\ lock' = [lock EXCEPT ![u] = s]
    /\ UNCHANGED <<dbAcct, dbRsv, rowLock>>

\* The savepoint of release() and of the sweep's stale release.
GiveBack(s, r, status) ==
    LET u == UserOf[r] IN
    /\ MayLock(s, u)
    /\ IsHeld(rsv[r])
    /\ acct' = [acct EXCEPT ![u].held = @ - rsv[r].est]
    /\ rsv' = [rsv EXCEPT ![r].status = status]
    /\ lock' = [lock EXCEPT ![u] = s]
    /\ UNCHANGED <<dbAcct, dbRsv, rowLock>>

-----------------------------------------------------------------------------
(* A request: the balance gate, then MeteredLLMProvider.complete() *)

Current(q) == <<q, calls[q]>>
Goto(q, where) == pc' = [pc EXCEPT ![q] = where]

Available(u) == LET free == dbAcct[u].balance - dbAcct[u].held
                IN  IF free > 0 THEN free ELSE 0

\* require_sufficient_balance reads the committed row, without a lock: as a
\* dependency of the endpoint, or called in it (create_variant_for_job).
Gate(q) ==
    /\ pc[q] = "new"
    /\ Goto(q, IF Available(Owner[q]) > MinBalance THEN "ready" ELSE "rejected")
    /\ UNCHANGED <<db, calls, answer, poisoned, usage, environment, sweep, faults>>

Estimate == IF Ceiling * price > 1 THEN Ceiling * price ELSE 1

\* reserve(): the row is inserted and the hold added.  The balance is not
\* looked at.  The users row stays locked until the request ends.
Reserve(q) ==
    LET u == Owner[q]
        r == <<q, calls[q] + 1>> IN
    /\ pc[q] = "ready" /\ q \notin poisoned
    /\ calls[q] < MaxCalls
    /\ price # NoPrice
    /\ MayLock(q, u)
    /\ calls' = [calls EXCEPT ![q] = @ + 1]
    /\ rsv' = [rsv EXCEPT ![r] = [NoRow EXCEPT !.status = "held", !.est = Estimate]]
    /\ acct' = [acct EXCEPT ![u].held = @ + Estimate]
    /\ lock' = [lock EXCEPT ![u] = q]
    /\ rowLock' = [rowLock EXCEPT ![r] = q]
    /\ Goto(q, "calling")
    /\ UNCHANGED <<dbAcct, dbRsv, answer, poisoned, usage, environment, sweep, faults>>

ProviderAnswers(q) ==
    /\ pc[q] = "calling"
    /\ \E a \in Responses : answer' = [answer EXCEPT ![q] = a]
    /\ usage' = [usage EXCEPT ![Current(q)] = "answered"]
    /\ Goto(q, "answered")
    /\ UNCHANGED <<db, calls, poisoned, environment, sweep, faults>>

\* The adapter raises: release(), then the error goes to the handler, which
\* may catch it (ready) or let it end the request (Abort).
ProviderFails(q) ==
    /\ pc[q] = "calling"
    /\ GiveBack(q, Current(q), "released")
    /\ Goto(q, "ready")
    /\ UNCHANGED <<calls, answer, poisoned, usage, environment, sweep, faults>>

\* release() meets a database error in its savepoint and swallows it.
ReleaseFails(q) ==
    /\ pc[q] = "calling"
    /\ Fault
    /\ Goto(q, "ready")
    /\ UNCHANGED <<db, calls, answer, poisoned, usage, environment, sweep>>

Persist(q) ==
    /\ pc[q] = "answered"
    /\ IsHeld(rsv[Current(q)])
    /\ rsv' = [rsv EXCEPT ![Current(q)].meta = answer[q]]
    /\ usage' = [usage EXCEPT ![Current(q)] = "recorded"]
    /\ Goto(q, "persisted")
    /\ UNCHANGED <<acct, dbAcct, dbRsv, lock, rowLock, calls, answer, poisoned,
                   environment, sweep, faults>>

\* persist_response_metadata() has no savepoint: an error the server reports
\* aborts the whole transaction; one raised before the statement is sent does not.
PersistFails(q) ==
    /\ pc[q] = "answered"
    /\ Fault
    /\ poisoned' \in {poisoned, poisoned \cup {q}}
    /\ Goto(q, "persisted")
    /\ UNCHANGED <<db, calls, answer, usage, environment, sweep>>

Settle(q) ==
    /\ pc[q] = "persisted" /\ q \notin poisoned
    /\ Priced(answer[q])
    /\ Charge(q, Current(q), answer[q] * price)
    /\ usage' = [usage EXCEPT ![Current(q)] = "recorded"]
    /\ Goto(q, "ready")
    /\ UNCHANGED <<calls, answer, poisoned, environment, sweep, faults>>

\* settle() swallows a missing price and every database error, the aborted
\* transaction's included; the hold stays.
SettleFails(q) ==
    /\ pc[q] = "persisted"
    /\ IF ~Priced(answer[q]) \/ q \in poisoned THEN UNCHANGED faults ELSE Fault
    /\ Goto(q, "ready")
    /\ UNCHANGED <<db, calls, answer, poisoned, usage, environment, sweep>>

\* The handler returns and get_db commits; PostgreSQL turns the COMMIT of an
\* aborted transaction into a ROLLBACK without an error.
Commit(q) ==
    /\ pc[q] = "ready"
    /\ IF q \in poisoned THEN Undo(q) ELSE Publish(q)
    /\ Goto(q, "done")
    /\ UNCHANGED <<calls, answer, poisoned, usage, environment, sweep, faults>>

\* An exception of the handler, a cancelled task or the end of the process:
\* get_db or the server rolls the transaction back.
Abort(q) ==
    /\ pc[q] \in {"ready", "calling", "answered", "persisted"}
    /\ Undo(q)
    /\ Goto(q, "aborted")
    /\ UNCHANGED <<calls, answer, poisoned, usage, environment, sweep, faults>>

RequestStep(q) ==
    \/ Gate(q) \/ Reserve(q) \/ ProviderAnswers(q) \/ ProviderFails(q)
    \/ ReleaseFails(q) \/ Persist(q) \/ PersistFails(q) \/ Settle(q)
    \/ SettleFails(q) \/ Commit(q) \/ Abort(q)

-----------------------------------------------------------------------------
(* The sweep worker: one transaction per pass *)

Claimable == {r \in due : IsHeld(dbRsv[r]) /\ rowLock[r] = NoOne}

\* SELECT ... FOR UPDATE SKIP LOCKED LIMIT n, in no order.
SweepSelect(w) ==
    /\ sweep[w] = NoWork /\ \A r \in Rsv : rowLock[r] # w
    /\ Claimable # {}
    /\ \E batch \in SUBSET Claimable :
         /\ \/ Cardinality(batch) = BatchLimit
            \/ batch = Claimable /\ Cardinality(batch) < BatchLimit
         /\ sweep' = [sweep EXCEPT ![w].todo = batch]
         /\ rowLock' = [r \in Rsv |-> IF r \in batch THEN w ELSE rowLock[r]]
    /\ UNCHANGED <<acct, dbAcct, rsv, dbRsv, lock, request, environment, faults>>

\* A reservation with response metadata is settled again, one without it is
\* released.
FirstTierAlwaysStale(r) == 3
FirstTier(r) == IF rsv[r].meta = NoMeta THEN 3 ELSE 1

SweepNext(w) ==
    /\ sweep[w].at = Idle
    /\ \E r \in sweep[w].todo :
         sweep' = [sweep EXCEPT ![w] = [todo |-> @.todo \ {r}, at |-> r, tier |-> FirstTier(r)]]
    /\ UNCHANGED <<db, request, environment, faults>>

Leave(w) == sweep' = [sweep EXCEPT ![w] = [NoWork EXCEPT !.todo = sweep[w].todo]]
NextTier(w) == sweep' = [sweep EXCEPT ![w].tier = @ + 1]
FallThroughLeaves(w) == Leave(w)
FallThroughPast(w) == NextTier(w)
FallThrough(w) == IF sweep[w].tier = 3 THEN Leave(w) ELSE NextTier(w)

\* Tier 1: settle() at today's price for the recorded tokens.
RetrySettle(w) ==
    /\ sweep[w].tier = 1
    /\ Priced(rsv[sweep[w].at].meta)
    /\ Charge(w, sweep[w].at, rsv[sweep[w].at].meta * price)
    /\ Leave(w)
    /\ UNCHANGED <<request, environment, faults>>

\* Tier 2: settle at the estimate, no pricing needed.
RetryAtEstimate(w) ==
    /\ sweep[w].tier = 2
    /\ Charge(w, sweep[w].at, rsv[sweep[w].at].est)
    /\ Leave(w)
    /\ UNCHANGED <<request, environment, faults>>

\* Tier 3: release the hold, nobody pays.
ReleaseStale(w) ==
    /\ sweep[w].tier = 3
    /\ GiveBack(w, sweep[w].at, "stale")
    /\ Leave(w)
    /\ UNCHANGED <<request, environment, faults>>

\* Settlement retry without a pricing row fails before it touches a row.
RetryUnpriced(w) ==
    /\ sweep[w].tier = 1
    /\ ~Priced(rsv[sweep[w].at].meta)
    /\ FallThrough(w)
    /\ UNCHANGED <<db, request, environment, faults>>

\* A database error in the savepoint of a tier: the next tier, or the next
\* reservation with this one still held.
TierFails(w) ==
    /\ sweep[w].tier > 0
    /\ Fault
    /\ FallThrough(w)
    /\ UNCHANGED <<db, request, environment>>

\* The users row the tier needs is held by v, which needs one that w holds:
\* PostgreSQL ends one of the two statements.
Needs(w, v) == /\ sweep[w].tier > 0
               /\ lock[UserOf[sweep[w].at]] = v
               /\ sweep[w].tier = 1 => Priced(rsv[sweep[w].at].meta)

DeadlockVictim(w) ==
    /\ \E v \in Sweepers \ {w} : Needs(w, v) /\ Needs(v, w)
    /\ FallThrough(w)
    /\ UNCHANGED <<db, request, environment, faults>>

SweepCommit(w) ==
    /\ sweep[w].at = Idle /\ sweep[w].todo = {}
    /\ \E r \in Rsv : rowLock[r] = w
    /\ Publish(w)
    /\ UNCHANGED <<request, environment, sweep, faults>>

\* The worker's session ends without a commit; the next pass starts afresh.
SweepCrash(w) ==
    /\ \E r \in Rsv : rowLock[r] = w
    /\ Fault
    /\ Undo(w)
    /\ sweep' = [sweep EXCEPT ![w] = NoWork]
    /\ UNCHANGED <<request, environment>>

SweepStep(w) == \/ SweepSelect(w) \/ SweepNext(w)
                \/ RetrySettle(w) \/ RetryAtEstimate(w) \/ ReleaseStale(w)
                \/ RetryUnpriced(w) \/ DeadlockVictim(w) \/ SweepCommit(w)

-----------------------------------------------------------------------------
(* The world around *)

\* A committed reservation passes RESERVATION_TTL_SECONDS.
Age(r) ==
    /\ dbRsv[r].status = "held" /\ r \notin due
    /\ due' = due \cup {r}
    /\ UNCHANGED <<db, request, sweep, faults, price, priceChanges, topUps>>

Credited(row, a) ==
    [balance |-> row.balance + a, held |-> row.held, ledger |-> row.ledger + a]

\* A purchase, grant or refund of another transaction, ledger row included.
TopUp(u) ==
    /\ topUps < MaxTopUps
    /\ lock[u] = NoOne
    /\ \E a \in TopUps : acct' = [acct EXCEPT ![u] = Credited(@, a)]
    /\ dbAcct' = [dbAcct EXCEPT ![u] = acct'[u]]
    /\ topUps' = topUps + 1
    /\ UNCHANGED <<rsv, dbRsv, lock, rowLock, request, sweep, faults, due, price, priceChanges>>

\* The administrator edits the price of a model, or deactivates the model, after
\* which even its last pricing row may be deleted.
SetPrice ==
    /\ priceChanges < MaxPriceChanges
    /\ price' \in (Prices \cup {NoPrice}) \ {price}
    /\ priceChanges' = priceChanges + 1
    /\ UNCHANGED <<db, request, sweep, faults, due, topUps>>

\* Every request is over and nothing is left to sweep.
Finished ==
    /\ \A q \in Requests : pc[q] \in Over
    /\ \A w \in Sweepers : sweep[w] = NoWork
    /\ \A r \in Rsv : rowLock[r] = NoOne /\ dbRsv[r].status # "held"
    /\ UNCHANGED vars

Next ==
    \/ \E q \in Requests : RequestStep(q)
    \/ \E w \in Sweepers : SweepStep(w) \/ TierFails(w) \/ SweepCrash(w)
    \/ \E r \in Rsv : Age(r)
    \/ \E u \in Users : TopUp(u)
    \/ SetPrice
    \/ Finished

Spec == Init /\ [][Next]_vars

\* The event loop runs every handler and every worker on; a provider call ends
\* because its client times out; time passes.
Fairness ==
    /\ \A q \in Requests : WF_vars(RequestStep(q))
    /\ \A w \in Sweepers : WF_vars(SweepStep(w))
    /\ \A r \in Rsv : WF_vars(Age(r))

FairSpec == Spec /\ Fairness
-----------------------------------------------------------------------------
(* Properties *)

HeldBy(u) == {r \in Rsv : UserOf[r] = u /\ dbRsv[r].status = "held"}

\* users.held_balance_usd is the sum of the estimates of the user's held
\* reservations (the second drift check of the sweep worker): every hold is
\* given back once, with the amount it was taken with, whoever resolves it.
HeldMatchesReservations ==
    \A u \in Users : dbAcct[u].held = SumOver(HeldBy(u), [r \in Rsv |-> dbRsv[r].est])

\* users.balance_usd is the sum of the user's credit transactions (the first
\* drift check of the sweep worker), whatever failed on the way.
LedgerMatchesBalance == \A u \in Users : dbAcct[u].balance = dbAcct[u].ledger

\* A settled reservation was debited exactly once, by the request or by a
\* sweep, and one that is held, released or stale was not debited at all.
DebitedIffSettled ==
    \A r \in Rsv : dbRsv[r].debits = IF dbRsv[r].status = "settled" THEN 1 ELSE 0

\* A step never touches a reservation that is settled, released or stale:
\* neither a late settle() nor a second sweep resolves it again.
ResolvedStays ==
    \A r \in Rsv : dbRsv[r].status \in Final => dbRsv'[r] = dbRsv[r]
ResolvedForGood == [][ResolvedStays]_vars

\* Without a database error, a call the provider answered in a request that
\* commits is charged or still held for a charge: removing the price or losing
\* the price of the model never makes the sweep forgive it.  This is of a single
\* sweep worker: of two that wait for each other PostgreSQL ends a statement,
\* which is an error `faults` does not count and takes a sweep to its next tier.
ForgivenOnlyAfterFault ==
    \A r \in Rsv : faults = 0 /\ pc[r[1]] = "done" /\ usage[r] # "none"
                       => dbRsv[r].status \in {"held", "settled"}

\* A committed hold does not last: it is settled or given back by a sweep.
HoldsResolve == \A r \in Rsv : (dbRsv[r].status = "held") ~> (dbRsv[r].status \in Final)

\* The committed rows behave as the abstract ledger promises.
Ledger == INSTANCE CreditLedger WITH
    OwnerOf <- UserOf,
    status <- [r \in Rsv |-> dbRsv[r].status],
    est <- [r \in Rsv |-> dbRsv[r].est],
    charge <- [r \in Rsv |-> dbRsv[r].actual],
    balance <- [u \in Users |-> dbAcct[u].balance],
    held <- [u \in Users |-> dbAcct[u].held]
ImplementsLedger == Ledger!Spec

\* What deps.py says of the reserve and settle pipeline: it "prevents balance
\* from going negative".
NoOverdraft == \A u \in Users : dbAcct[u].balance >= 0

\* What REQ-030 says of the recorded metadata: usage is free "only if both
\* persist_response_metadata() AND settle() fail".
FreeOnlyIfBothFail ==
    \A r \in Rsv : usage[r] = "recorded" /\ pc[r[1]] \in Over
                       => dbRsv[r].status \in {"held", "settled"}
=============================================================================
