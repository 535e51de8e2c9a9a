--------------------------- MODULE StripeBilling ---------------------------
(***************************************************************************)
(* Credit purchases: checkout sessions, Stripe webhooks and refunds.       *)
(*                                                                         *)
(* Stripe (session, refunded, sent, acked) is outside the program: it      *)
(* delivers every event until it is answered with 200, sometimes again     *)
(* after that, in any order and to several handlers at once.  A webhook    *)
(* handler reads in one step and writes in another; its savepoint and the  *)
(* commit of get_db are one step, because nobody sees the writes before    *)
(* the commit and the users row it locks makes the handlers of one user    *)
(* write one after the other.  A handler never raises: a database error    *)
(* is swallowed and answered with 200, only a crash leaves an event to be  *)
(* delivered again.                                                        *)
(***************************************************************************)
EXTENDS Amounts

CONSTANTS
    Users, Handlers,
    Purchases,      \* checkout requests, each with its Stripe session
    Buyer,          \* the user who makes each checkout request
    Price,          \* amount_cents of the funding pack
    Grant,          \* grant_cents of the funding pack
    NoCustomer,     \* users.stripe_customer_id is NULL
    Idle,           \* a handler has no event in hand
    MaxErrors,      \* swallowed database errors, at most
    MaxCrashes,     \* crashes of a handler, at most
    MaxDuplicates   \* events delivered again after a 200, at most

ASSUME BuyersAssumption == IsFiniteSet(Purchases) /\ Buyer \in [Purchases -> Users]
ASSUME CentsAssumption == /\ Price \in Nat \ {0} /\ Grant \in Nat \ {0}
                          /\ MaxErrors \in Nat /\ MaxCrashes \in Nat /\ MaxDuplicates \in Nat
ASSUME NamesAssumption == NoCustomer \notin Purchases

VARIABLES
    checkout,       \* where each checkout request is
    chosen,         \* customer each checkout request uses
    session,        \* the Stripe session of each checkout request
    refunded,       \* cumulative amount_refunded of each charge at Stripe
    sent, acked,    \* events Stripe has emitted, events answered with 200
    customer,       \* users.stripe_customer_id
    status,         \* stripe_purchases.status
    recorded,       \* stripe_purchases.refund_amount_cents
    ledger,         \* stripe_event_id of every credit_transactions row
    balance,        \* users.balance_usd in cents
    hand,           \* the event each handler has in hand, and what it has read
    credits, debited, \* history: credits given and cents taken back, per purchase
    overlapped,     \* history: purchases two refund handlers worked on at once
    errors, crashes, duplicates

checkouts == <<checkout, chosen, session, customer>>
stripe == <<refunded, sent, duplicates>>
rows == <<status, recorded, ledger, balance, credits, debited>>
vars == <<checkouts, stripe, rows, acked, hand, overlapped, errors, crashes>>

\* The name an event has at Stripe determines what it says.
Event(kind, p, total) == [kind |-> kind, of |-> p, total |-> total]
Events == [kind : {"completed", "expired"}, of : Purchases, total : {0}]
          \cup [kind : {"refunded"}, of : Purchases, total : 1..Price]
NoEvent == [event |-> Idle, seen |-> 0]

ASSUME IdleAssumption == Idle \notin Events

Paid == {"completed", "partial_refund", "refunded"}

TypeOK ==
    /\ checkout \in [Purchases -> {"new", "customer", "session", "commit", "done", "failed"}]
    /\ chosen \in [Purchases -> Purchases \cup {NoCustomer}]
    /\ session \in [Purchases -> {"none", "open", "paid", "expired"}]
    /\ refunded \in [Purchases -> 0..Price]
    /\ sent \subseteq Events /\ acked \subseteq sent
    /\ customer \in [Users -> Purchases \cup {NoCustomer}]
    /\ status \in [Purchases -> {"none", "pending", "expired"} \cup Paid]
    /\ recorded \in [Purchases -> 0..Price]
    /\ ledger \subseteq Events
    /\ balance \in [Users -> Int]
    /\ hand \in [Handlers -> [event : Events \cup {Idle}, seen : 0..Price]]
    /\ credits \in [Purchases -> Nat] /\ debited \in [Purchases -> Nat]
    /\ overlapped \subseteq Purchases
    /\ errors \in 0..MaxErrors /\ crashes \in 0..MaxCrashes
    /\ duplicates \in 0..MaxDuplicates

Init ==
    /\ checkout = [p \in Purchases |-> "new"]
    /\ chosen = [p \in Purchases |-> NoCustomer]
    /\ session = [p \in Purchases |-> "none"]
    /\ refunded = [p \in Purchases |-> 0]
    /\ sent = {} /\ acked = {}
    /\ customer = [u \in Users |-> NoCustomer]
    /\ status = [p \in Purchases |-> "none"]
    /\ recorded = [p \in Purchases |-> 0]
    /\ ledger = {}
    /\ balance = [u \in Users |-> 0]
    /\ hand = [h \in Handlers |-> NoEvent]
    /\ credits = [p \in Purchases |-> 0] /\ debited = [p \in Purchases |-> 0]
    /\ overlapped = {}
    /\ errors = 0 /\ crashes = 0 /\ duplicates = 0

-----------------------------------------------------------------------------
(* POST /credits/checkout *)

\* get_or_create_customer looks for the customer of the user.
ReadCustomer(p) ==
    /\ checkout[p] = "new"
    /\ chosen' = [chosen EXCEPT ![p] = customer[Buyer[p]]]
    /\ checkout' = [checkout EXCEPT ![p] = IF chosen'[p] = NoCustomer THEN "customer" ELSE "session"]
    /\ UNCHANGED <<session, customer, stripe, rows, acked, hand, overlapped, errors, crashes>>

\* Stripe makes a customer with a new identifier, so the UNIQUE column takes it.
CreateCustomer(p) ==
    /\ checkout[p] = "customer"
    /\ chosen' = [chosen EXCEPT ![p] = p]
    /\ checkout' = [checkout EXCEPT ![p] = "session"]
    /\ UNCHANGED <<session, customer, stripe, rows, acked, hand, overlapped, errors, crashes>>

CreateSession(p) ==
    /\ checkout[p] = "session"
    /\ session' = [session EXCEPT ![p] = "open"]
    /\ checkout' = [checkout EXCEPT ![p] = "commit"]
    /\ UNCHANGED <<chosen, customer, stripe, rows, acked, hand, overlapped, errors, crashes>>

\* The pending purchase and the customer this request created are committed.
CommitCheckout(p) ==
    /\ checkout[p] = "commit"
    /\ status' = [status EXCEPT ![p] = "pending"]
    /\ customer' = IF chosen[p] = p THEN [customer EXCEPT ![Buyer[p]] = p] ELSE customer
    /\ checkout' = [checkout EXCEPT ![p] = "done"]
    /\ UNCHANGED <<chosen, session, stripe, recorded, ledger, balance, credits, debited,
                   acked, hand, overlapped, errors, crashes>>

\* A Stripe error or a crash: get_db rolls back; a session already made stays.
FailCheckout(p) ==
    /\ checkout[p] \in {"customer", "session", "commit"}
    /\ checkout' = [checkout EXCEPT ![p] = "failed"]
    /\ UNCHANGED <<chosen, session, customer, stripe, rows, acked, hand, overlapped, errors, crashes>>

-----------------------------------------------------------------------------
(* Stripe *)

Emit(e) == sent' = sent \cup {e}

\* The buyer pays at the URL the checkout request returned.
Pay(p) ==
    /\ session[p] = "open" /\ checkout[p] = "done"
    /\ session' = [session EXCEPT ![p] = "paid"]
    /\ Emit(Event("completed", p, 0))
    /\ UNCHANGED <<checkout, chosen, customer, refunded, duplicates, rows, acked, hand, overlapped, errors, crashes>>

Expire(p) ==
    /\ session[p] = "open" /\ checkout[p] \in {"done", "failed"}
    /\ session' = [session EXCEPT ![p] = "expired"]
    /\ Emit(Event("expired", p, 0))
    /\ UNCHANGED <<checkout, chosen, customer, refunded, duplicates, rows, acked, hand, overlapped, errors, crashes>>

\* The operator refunds a part or the rest of a charge.
Refund(p) ==
    /\ session[p] = "paid"
    /\ \E total \in (refunded[p] + 1)..Price :
         /\ refunded' = [refunded EXCEPT ![p] = total]
         /\ Emit(Event("refunded", p, total))
    /\ UNCHANGED <<checkouts, duplicates, rows, acked, hand, overlapped, errors, crashes>>

-----------------------------------------------------------------------------
(* POST /webhooks/stripe *)

\* The transitions of StripePurchaseRepository carry their own status filter.
Completable == {"pending"}
RefundableOrRefunded == Paid
Refundable == {"completed", "partial_refund"}
Expirable == {"pending"}

\* What a refund event still takes back, given the amount read before.
RefundDueInFull(e, seen) == e.total
RefundDue(e, seen) == e.total - seen

\* What a handler returns early on: an event whose credit transaction exists,
\* a charge of no known purchase, nothing new to refund, no pending purchase.
Skipped(e) ==
    \/ e \in ledger
    \/ e.kind = "refunded" /\ (status[e.of] \notin Paid \/ RefundDue(e, recorded[e.of]) <= 0)
    \/ e.kind = "expired" /\ status[e.of] \notin Expirable

Refunding(p) == \E h \in Handlers : /\ hand[h].event # Idle
                                    /\ hand[h].event.kind = "refunded"
                                    /\ hand[h].event.of = p

\* A delivery: the handler reads what its early returns depend on.
Receive(h, e) ==
    /\ hand[h].event = Idle
    /\ e \in sent
    /\ IF e \in acked THEN duplicates < MaxDuplicates /\ duplicates' = duplicates + 1
                      ELSE UNCHANGED duplicates
    /\ IF Skipped(e)
         THEN acked' = acked \cup {e} /\ UNCHANGED <<hand, overlapped>>
         ELSE /\ hand' = [hand EXCEPT ![h] = [event |-> e, seen |-> recorded[e.of]]]
              /\ overlapped' = IF e.kind = "refunded" /\ Refunding(e.of)
                                 THEN overlapped \cup {e.of} ELSE overlapped
              /\ UNCHANGED acked
    /\ UNCHANGED <<checkouts, refunded, sent, rows, errors, crashes>>

Done(h) == hand' = [hand EXCEPT ![h] = NoEvent]
Answer(h) == acked' = acked \cup {hand[h].event}

\* stripe_event_id is UNIQUE: a second row for the event is refused.
InsertedAnyway(e) == ledger' = ledger \cup {e}
Inserted(e) == e \notin ledger /\ ledger' = ledger \cup {e}

\* The transition of the purchase row each event stands for; mark_expired
\* updates by identifier what it has read as pending.
From(e) == CASE e.kind = "completed" -> Completable
             [] e.kind = "refunded" -> Refundable
             [] e.kind = "expired" -> {status[e.of]}
BecomesMisspelt(e) == IF e.kind = "refunded" THEN "partially_refunded" ELSE e.kind
Becomes(e) == CASE e.kind = "completed" -> "completed"
                [] e.kind = "refunded" -> IF e.total = Price THEN "refunded" ELSE "partial_refund"
                [] e.kind = "expired" -> "expired"

Marks(e) ==
    IF status[e.of] \in From(e)
      THEN /\ status' = [status EXCEPT ![e.of] = Becomes(e)]
           /\ recorded' = [recorded EXCEPT ![e.of] = IF e.kind = "refunded" THEN e.total ELSE @]
      ELSE UNCHANGED <<status, recorded>>

\* A refund is debited whatever is left of the balance.
TakenBackIfLeft(cents, due) == IF cents >= due THEN cents - due ELSE cents
TakenBack(cents, due) == cents - due

\* The savepoint of each handler, and the commit: the ledger row, the balance
\* and the purchase row.  The debit is computed from the amount read earlier.
Writes(h) ==
    LET e == hand[h].event
        due == RefundDue(e, hand[h].seen) IN
    /\ Marks(e)
    /\ CASE e.kind = "completed" ->
              /\ Inserted(e)
              /\ balance' = [balance EXCEPT ![Buyer[e.of]] = @ + Grant]
              /\ credits' = [credits EXCEPT ![e.of] = @ + 1]
              /\ UNCHANGED debited
         [] e.kind = "refunded" ->
              /\ Inserted(e)
              /\ balance' = [balance EXCEPT ![Buyer[e.of]] = TakenBack(@, due)]
              /\ debited' = [debited EXCEPT ![e.of] = @ + due]
              /\ UNCHANGED credits
         [] e.kind = "expired" -> UNCHANGED <<ledger, balance, credits, debited>>

Apply(h) ==
    /\ hand[h].event # Idle
    /\ Writes(h) /\ Answer(h) /\ Done(h)
    /\ UNCHANGED <<checkouts, stripe, overlapped, errors, crashes>>

\* The duplicate that loses the race for stripe_event_id: IntegrityError, 200.
Refused(h) ==
    /\ hand[h].event \in ledger
    /\ Answer(h) /\ Done(h)
    /\ UNCHANGED <<checkouts, stripe, rows, overlapped, errors, crashes>>

\* A database error is swallowed: nothing is written, the answer is 200.
Swallows(h) ==
    /\ hand[h].event # Idle
    /\ errors < MaxErrors /\ errors' = errors + 1
    /\ Answer(h) /\ Done(h)
    /\ UNCHANGED <<checkouts, stripe, rows, overlapped, crashes>>

\* The handler dies before its commit, or after it and before its answer.
AfterCrashAnswered(h) == Answer(h)
AfterCrash(h) == UNCHANGED acked

Crash(h) ==
    /\ hand[h].event # Idle
    /\ crashes < MaxCrashes /\ crashes' = crashes + 1
    /\ UNCHANGED rows \/ Writes(h)
    /\ AfterCrash(h) /\ Done(h)
    /\ UNCHANGED <<checkouts, stripe, overlapped, errors>>

-----------------------------------------------------------------------------

Handle(h) == \/ \E e \in sent \ acked : Receive(h, e)
             \/ Apply(h) \/ Refused(h)

Redeliver(h) == \E e \in acked : Receive(h, e)

Finished ==
    /\ \A p \in Purchases : checkout[p] \in {"done", "failed"} /\ session[p] # "open"
    /\ sent = acked /\ \A h \in Handlers : hand[h] = NoEvent
    /\ UNCHANGED vars

Next ==
    \/ \E p \in Purchases : \/ ReadCustomer(p) \/ CreateCustomer(p) \/ CreateSession(p)
                            \/ CommitCheckout(p) \/ FailCheckout(p)
                            \/ Pay(p) \/ Expire(p) \/ Refund(p)
    \/ \E h \in Handlers : Handle(h) \/ Redeliver(h) \/ Swallows(h) \/ Crash(h)
    \/ Finished

Spec == Init /\ [][Next]_vars

\* Stripe delivers an unanswered event until it is answered, for days; a
\* handler that was started runs on.
Delivered(e) == \E h \in Handlers : e \notin acked /\ Receive(h, e)
Fairness == /\ \A h \in Handlers : WF_vars(Apply(h) \/ Refused(h))
            /\ \A e \in Events : SF_vars(Delivered(e))
FairSpec == Spec /\ Fairness
-----------------------------------------------------------------------------
(* Properties *)

\* A paid session is credited at most once, whatever is delivered again or
\* handled twice at the same time, and it is credited exactly when its purchase
\* is completed: never "credited but pending" nor completed without credit.
CreditedOnce == \A p \in Purchases : credits[p] = IF status[p] \in Paid THEN 1 ELSE 0

\* As long as no two refund events of a charge are handled at the same time,
\* the user has been debited what the purchase records, and that is no more
\* than Stripe has paid back, in whatever order the events arrive.
RefundsExact == \A p \in Purchases \ overlapped :
    debited[p] = recorded[p] /\ recorded[p] <= refunded[p]

\* A purchase only moves forward: a late or concurrent webhook never reopens an
\* expired or a refunded purchase and never takes a refund back.
Later == [none |-> {"pending"}, pending |-> {"completed", "expired"}, expired |-> {},
          completed |-> {"partial_refund", "refunded"}, partial_refund |-> {"refunded"},
          refunded |-> {}]
Forward == \A p \in Purchases : status'[p] # status[p] => status'[p] \in Later[status[p]]
StatusForward == [][Forward]_vars

\* Purchases and balances behave as the abstract CreditPurchases promises: a
\* buyer sees no deliveries, duplicates, reordering, swallowed errors or crashes.
Bought == INSTANCE CreditPurchases WITH
    charged <- {p \in Purchases : session[p] = "paid"},
    repaid <- refunded,
    contested <- overlapped
ImplementsPurchases == Bought!Spec

\* What the buyer has paid is credited in the end, unless a handler swallowed a
\* database error: a crash only delays it.
PaidIsCredited == \A p \in Purchases :
    (session[p] = "paid") ~> (credits[p] = 1 \/ errors > 0)

\* A full refund that Stripe still has to deliver when the purchase is completed
\* is debited in the end, unless a handler swallowed a database error.
FullRefundIsDebited == \A p \in Purchases :
    (Event("refunded", p, Price) \in sent \ acked /\ status[p] \in Paid)
        ~> (debited[p] >= Price \/ errors > 0)

\* What stripe_webhook_service.py says of the cap on a refund: "Cap at purchase
\* amount to prevent over-debit".
NoOverRefund == \A p \in Purchases : debited[p] <= Price

\* What REQ-029 says of users.stripe_customer_id: "Unique constraint prevents
\* duplicate customers per user".
OneCustomer == \A p, q \in Purchases :
    Buyer[p] = Buyer[q] /\ status[p] # "none" /\ status[q] # "none" => chosen[p] = chosen[q]
=============================================================================
