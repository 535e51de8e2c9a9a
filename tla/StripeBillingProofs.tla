------------------------ MODULE StripeBillingProofs ------------------------
(***************************************************************************)
(* Purchases, for any number of buyers, sessions, webhook handlers, errors, *)
(* crashes and repeated deliveries: a paid session is credited once, a     *)
(* purchase only moves forward, and refunds that do not overlap are exact. *)
(***************************************************************************)
EXTENDS StripeBilling, TLAPS

\* A session is open once the checkout made it; Stripe pays or expires it once,
\* and what it has emitted says which; the purchase row exists once the
\* checkout request is committed.
Sessions ==
    /\ \A p \in Purchases :
         /\ checkout[p] = "done" <=> status[p] # "none"
         /\ session[p] = "paid" => checkout[p] = "done"
         /\ session[p] = "expired" => checkout[p] \in {"done", "failed"}
         /\ status[p] = "expired" => session[p] = "expired"
    /\ \A e \in sent : session[e.of] = IF e.kind = "expired" THEN "expired" ELSE "paid"

\* The credit, the ledger row of the completed event and the status agree.
Credited ==
    /\ CreditedOnce
    /\ ledger \subseteq sent
    /\ \A p \in Purchases : status[p] \in Paid <=> Event("completed", p, 0) \in ledger

\* What a handler has in hand passed the early returns: that outlives what the
\* other handlers do to the purchase.
InHand ==
    \A h \in Handlers : hand[h].event # Idle =>
        LET e == hand[h].event IN
        /\ e \in sent
        /\ e.kind = "refunded" => hand[h].seen < e.total /\ status[e.of] \in Paid
        /\ e.kind = "expired" => status[e.of] # "none"

\* Without overlap a charge has one refund handler at a time, and what it has
\* read of the purchase is still so when it writes.
HasRefund(h, p) == /\ hand[h].event # Idle
                   /\ hand[h].event.kind = "refunded"
                   /\ hand[h].event.of = p
Exact ==
    /\ \A e \in sent : e.kind = "refunded" => e.total <= refunded[e.of]
    /\ \A p \in Purchases :
         /\ status[p] = "refunded" => recorded[p] = Price
         /\ p \notin overlapped =>
              /\ debited[p] = recorded[p] /\ recorded[p] <= refunded[p]
              /\ \A h \in Handlers : HasRefund(h, p) => hand[h].seen = recorded[p]
              /\ \A h, g \in Handlers : HasRefund(h, p) /\ HasRefund(g, p) => h = g

IInv == TypeOK /\ Sessions /\ Credited /\ InHand /\ Exact

\* What an event is, by its kind.
LEMMA EventShape ==
    ASSUME NEW e \in Events
    PROVE  /\ e.kind \in {"completed", "expired", "refunded"} /\ e.of \in Purchases
           /\ e.total \in 0..Price
           /\ e.kind = "completed" => e = Event("completed", e.of, 0)
           /\ e.kind = "refunded" => e.total \in 1..Price
           /\ e # Idle
BY CentsAssumption, IdleAssumption DEF Events, Event

LEMMA EventMade ==
    ASSUME NEW p \in Purchases
    PROVE  /\ Event("completed", p, 0) \in Events /\ Event("expired", p, 0) \in Events
           /\ \A total \in 1..Price : Event("refunded", p, total) \in Events
           /\ Event("completed", p, 0).kind = "completed" /\ Event("completed", p, 0).of = p
           /\ Event("expired", p, 0).kind = "expired" /\ Event("expired", p, 0).of = p
           /\ \A total : /\ Event("refunded", p, total).kind = "refunded"
                         /\ Event("refunded", p, total).of = p
                         /\ Event("refunded", p, total).total = total
BY DEF Events, Event

LEMMA InitHolds == Init => IInv
<1> SUFFICES ASSUME Init PROVE IInv
  OBVIOUS
<1>1. TypeOK
  BY CentsAssumption DEF Init, TypeOK, NoEvent
<1>2. Sessions
  BY DEF Init, Sessions
<1>3. Credited
  BY DEF Init, Credited, CreditedOnce, Paid
<1>4. InHand
  BY DEF Init, InHand, NoEvent
<1>5. Exact
  BY CentsAssumption DEF Init, Exact, NoEvent, HasRefund
<1> QED
  BY <1>1, <1>2, <1>3, <1>4, <1>5 DEF IInv
-----------------------------------------------------------------------------
(* Checkout requests and Stripe *)

\* The steps of a checkout request before its commit, and its failure.
LEMMA OpenCheckoutKeeps ==
    ASSUME IInv, NEW p \in Purchases,
           ReadCustomer(p) \/ CreateCustomer(p) \/ CreateSession(p) \/ FailCheckout(p)
    PROVE  IInv'
<1> USE DEF rows, stripe
<1>1. TypeOK'
  <2>1. CASE ReadCustomer(p)
    <3>1. customer[Buyer[p]] \in Purchases \cup {NoCustomer}
      BY BuyersAssumption DEF IInv, TypeOK
    <3> QED
      BY <2>1, <3>1 DEF IInv, TypeOK, ReadCustomer
  <2>2. CASE CreateCustomer(p) \/ CreateSession(p) \/ FailCheckout(p)
    BY <2>2 DEF IInv, TypeOK, CreateCustomer, CreateSession, FailCheckout
  <2> QED
    BY <2>1, <2>2
<1>2. Sessions'
  BY EventShape DEF IInv, TypeOK, Sessions, ReadCustomer, CreateCustomer, CreateSession, FailCheckout
<1>3. Credited' /\ InHand' /\ Exact'
  BY DEF IInv, Credited, CreditedOnce, InHand, Exact, HasRefund, ReadCustomer, CreateCustomer, CreateSession, FailCheckout
<1> QED
  BY <1>1, <1>2, <1>3 DEF IInv

LEMMA CommitCheckoutKeeps ==
    ASSUME IInv, NEW p \in Purchases, CommitCheckout(p)
    PROVE  IInv'
<1> USE DEF CommitCheckout, rows, stripe
<1>0. status[p] = "none"
  BY DEF IInv, Sessions
<1>1. TypeOK'
  BY BuyersAssumption DEF IInv, TypeOK
<1>2. Sessions'
  BY <1>0, EventShape DEF IInv, TypeOK, Sessions
<1>3. Credited'
  BY <1>0 DEF IInv, TypeOK, Credited, CreditedOnce, Paid
<1>4. InHand'
  BY <1>0 DEF IInv, TypeOK, InHand, Paid
<1>5. Exact'
  BY <1>0 DEF IInv, TypeOK, Exact, HasRefund
<1> QED
  BY <1>1, <1>2, <1>3, <1>4, <1>5 DEF IInv

\* The buyer pays, or the session expires.
LEMMA SessionEndsKeeps ==
    ASSUME IInv, NEW p \in Purchases, Pay(p) \/ Expire(p)
    PROVE  IInv'
<1> USE DEF Pay, Expire, Emit, rows
<1>1. TypeOK'
  BY EventMade DEF IInv, TypeOK
<1>2. Sessions'
  <2>1. \A e \in sent : e.of # p
    BY DEF IInv, Sessions
  <2>2. status[p] # "expired"
    BY DEF IInv, Sessions
  <2>3. \A q \in Purchases :
           /\ checkout[q] = "done" <=> status[q] # "none"
           /\ session'[q] = "paid" => checkout[q] = "done"
           /\ session'[q] = "expired" => checkout[q] \in {"done", "failed"}
           /\ status[q] = "expired" => session'[q] = "expired"
    BY <2>2 DEF IInv, TypeOK, Sessions
  <2>4. \A e \in sent' : session'[e.of] = IF e.kind = "expired" THEN "expired" ELSE "paid"
    <3>1. \A e \in sent : session'[e.of] = session[e.of]
      BY <2>1, EventShape DEF IInv, TypeOK
    <3>2. CASE Pay(p)
      <4>1. sent' = sent \cup {Event("completed", p, 0)} /\ session'[p] = "paid"
        BY <3>2 DEF IInv, TypeOK
      <4> QED
        BY <4>1, <3>1, EventMade DEF IInv, Sessions
    <3>3. CASE Expire(p)
      <4>1. sent' = sent \cup {Event("expired", p, 0)} /\ session'[p] = "expired"
        BY <3>3 DEF IInv, TypeOK
      <4> QED
        BY <4>1, <3>1, EventMade DEF IInv, Sessions
    <3> QED
      BY <3>2, <3>3
  <2>5. checkout' = checkout /\ status' = status
    OBVIOUS
  <2> QED
    BY <2>3, <2>4, <2>5 DEF Sessions
<1>3. Credited' /\ InHand'
  BY DEF IInv, Credited, CreditedOnce, InHand
<1>4. Exact'
  BY EventMade DEF IInv, Exact, HasRefund
<1> QED
  BY <1>1, <1>2, <1>3, <1>4 DEF IInv

LEMMA RefundKeeps ==
    ASSUME IInv, NEW p \in Purchases, Refund(p)
    PROVE  IInv'
<1> USE DEF rows, checkouts
<1>0. PICK total \in (refunded[p] + 1)..Price :
        /\ refunded' = [refunded EXCEPT ![p] = total]
        /\ sent' = sent \cup {Event("refunded", p, total)}
  BY DEF Refund, Emit
<1>a. refunded[p] \in 0..Price /\ total \in 1..Price /\ refunded[p] < total
  BY <1>0, CentsAssumption DEF IInv, TypeOK
<1>b. session[p] = "paid" /\ UNCHANGED <<checkouts, duplicates, rows, acked, hand, overlapped, errors, crashes>>
  BY DEF Refund
<1>1. TypeOK'
  BY <1>0, <1>a, <1>b, EventMade, CentsAssumption DEF IInv, TypeOK
<1>2. Sessions'
  BY <1>0, <1>a, <1>b, EventMade DEF IInv, TypeOK, Sessions
<1>3. Credited' /\ InHand'
  BY <1>0, <1>b DEF IInv, Credited, CreditedOnce, InHand
<1>4. Exact'
  <2>1. \A q \in Purchases : refunded'[q] \in 0..Price /\ refunded[q] \in 0..Price /\ refunded[q] <= refunded'[q]
    BY <1>0, <1>a, CentsAssumption DEF IInv, TypeOK
  <2>2. ASSUME NEW e \in sent', e.kind = "refunded" PROVE e.total <= refunded'[e.of]
    <3>1. CASE e = Event("refunded", p, total)
      BY <3>1, <1>0, <1>a, EventMade, CentsAssumption DEF IInv, TypeOK
    <3>2. CASE e \in sent
      BY <3>2, <2>1, <2>2, EventShape, CentsAssumption DEF IInv, TypeOK, Exact
    <3> QED
      BY <3>1, <3>2, <1>0
  <2>3. \A q \in Purchases : recorded[q] \in 0..Price
    BY DEF IInv, TypeOK
  <2>4. \A q \in Purchases : q \notin overlapped => recorded[q] <= refunded'[q]
    BY <2>1, <2>3, CentsAssumption DEF IInv, Exact
  <2> QED
    BY <2>2, <2>4, <1>b DEF IInv, Exact, HasRefund
<1> QED
  BY <1>1, <1>2, <1>3, <1>4 DEF IInv

-----------------------------------------------------------------------------
(* Webhook handlers *)

LEMMA ReceiveKeeps ==
    ASSUME IInv, NEW h \in Handlers, NEW e \in sent, Receive(h, e)
    PROVE  IInv'
<1> USE DEF rows, checkouts
<1>0. e \in Events /\ e.of \in Purchases /\ e # Idle /\ recorded[e.of] \in 0..Price /\ hand[h].event = Idle
  BY EventShape DEF IInv, TypeOK, Receive
<1>1. TypeOK'
  <2>1. duplicates' \in 0..MaxDuplicates
    BY CentsAssumption DEF IInv, TypeOK, Receive
  <2>2. acked' \subseteq sent
    BY DEF IInv, TypeOK, Receive
  <2>3. overlapped' \subseteq Purchases
    BY <1>0 DEF IInv, TypeOK, Receive
  <2>4. hand' \in [Handlers -> [event : Events \cup {Idle}, seen : 0..Price]]
    BY <1>0 DEF IInv, TypeOK, Receive
  <2> QED
    BY <2>1, <2>2, <2>3, <2>4 DEF IInv, TypeOK, Receive
<1>2. Sessions' /\ Credited'
  BY DEF IInv, Sessions, Credited, CreditedOnce, Receive
<1>3. CASE Skipped(e)
  <2>1. UNCHANGED <<hand, overlapped, sent, refunded, rows>>
    BY <1>3 DEF Receive
  <2> QED
    BY <1>1, <1>2, <2>1 DEF IInv, InHand, Exact, HasRefund
<1>4. CASE ~Skipped(e)
  <2>1. /\ hand' = [hand EXCEPT ![h] = [event |-> e, seen |-> recorded[e.of]]]
        /\ overlapped' = IF e.kind = "refunded" /\ Refunding(e.of)
                           THEN overlapped \cup {e.of} ELSE overlapped
        /\ UNCHANGED <<sent, refunded, rows>>
    BY <1>4 DEF Receive
  <2>2. /\ hand'[h] = [event |-> e, seen |-> recorded[e.of]]
        /\ \A g \in Handlers : g # h => hand'[g] = hand[g]
    BY <2>1 DEF IInv, TypeOK
  <2>3. InHand'
    <3>1. /\ e.kind = "refunded" => recorded[e.of] < e.total /\ status[e.of] \in Paid
          /\ e.kind = "expired" => status[e.of] # "none"
      <4>1. e.total \in 0..Price
        BY <1>0, EventShape
      <4> QED
        BY <1>0, <1>4, <4>1, CentsAssumption DEF Skipped, RefundDue, Expirable
    <3> QED
      BY <3>1, <2>1, <2>2 DEF IInv, InHand
  <2>4. Exact'
    <3>1. \A p \in Purchases, g \in Handlers : g # h => (HasRefund(g, p)' <=> HasRefund(g, p))
      BY <2>2 DEF HasRefund
    <3>2. \A p \in Purchases : HasRefund(h, p)' => e.kind = "refunded" /\ e.of = p
      BY <2>2 DEF HasRefund
    <3>3. ASSUME NEW p \in Purchases, p \notin overlapped'
          PROVE  /\ p \notin overlapped
                 /\ \A g \in Handlers : HasRefund(g, p)' => hand'[g].seen = recorded[p]
                 /\ \A f, g \in Handlers : HasRefund(f, p)' /\ HasRefund(g, p)' => f = g
      <4>1. p \notin overlapped
        BY <3>3, <2>1
      <4>2. CASE HasRefund(h, p)'
        <5>1. \A g \in Handlers : ~HasRefund(g, p)
          BY <4>2, <3>2, <3>3, <2>1 DEF Refunding, HasRefund
        <5> QED
          BY <4>1, <4>2, <5>1, <3>1, <3>2, <2>2
      <4>3. CASE ~HasRefund(h, p)'
        BY <4>1, <4>3, <3>1, <2>2 DEF IInv, Exact
      <4> QED
        BY <4>2, <4>3
    <3> QED
      BY <3>3, <2>1 DEF IInv, Exact
  <2> QED
    BY <1>1, <1>2, <2>3, <2>4 DEF IInv
<1> QED
  BY <1>3, <1>4

\* The end of a handler that has written nothing.
LEMMA GivesUpKeeps ==
    ASSUME IInv, NEW h \in Handlers, hand[h].event # Idle, Done(h),
           acked' = acked \/ Answer(h),
           UNCHANGED <<checkouts, stripe, rows, overlapped>>,
           errors' \in 0..MaxErrors, crashes' \in 0..MaxCrashes
    PROVE  IInv'
<1> USE DEF rows, checkouts, stripe, Done, Answer
<1>0. hand[h].event \in sent
  BY DEF IInv, InHand
<1>1. TypeOK'
  BY <1>0, CentsAssumption DEF IInv, TypeOK, NoEvent
<1>2. Sessions' /\ Credited'
  BY DEF IInv, Sessions, Credited, CreditedOnce
<1>3. \A g \in Handlers : hand'[g].event = Idle \/ hand'[g] = hand[g]
  BY DEF IInv, TypeOK, NoEvent
<1>4. InHand'
  BY <1>3 DEF IInv, InHand
<1>5. Exact'
  BY <1>3 DEF IInv, Exact, HasRefund
<1> QED
  BY <1>1, <1>2, <1>4, <1>5 DEF IInv

\* A savepoint and its commit: what it does to each purchase.
LEMMA WritesMoves ==
    ASSUME IInv, NEW h \in Handlers, hand[h].event # Idle, Writes(h)
    PROVE  LET e == hand[h].event  p == hand[h].event.of IN
           /\ p \in Purchases /\ e \in sent /\ e \in Events
           /\ \A q \in Purchases \ {p} : /\ status'[q] = status[q] /\ recorded'[q] = recorded[q]
                                         /\ credits'[q] = credits[q] /\ debited'[q] = debited[q]
           /\ \/ /\ e.kind = "completed" /\ e = Event("completed", p, 0) /\ e \notin ledger
                 /\ ledger' = ledger \cup {e}
                 /\ status[p] = "pending" /\ status'[p] = "completed"
                 /\ credits'[p] = credits[p] + 1
                 /\ UNCHANGED <<recorded, debited>>
              \/ /\ e.kind = "refunded" /\ e \notin ledger /\ ledger' = ledger \cup {e}
                 /\ debited'[p] = debited[p] + (e.total - hand[h].seen)
                 /\ status[p] \in Paid
                 /\ IF status[p] = "refunded"
                      THEN status'[p] = "refunded" /\ recorded'[p] = recorded[p]
                      ELSE /\ status'[p] = IF e.total = Price THEN "refunded" ELSE "partial_refund"
                           /\ recorded'[p] = e.total
                 /\ UNCHANGED credits
              \/ /\ e.kind = "expired" /\ status[p] \in {"pending", "expired"} /\ status'[p] = "expired"
                 /\ UNCHANGED <<ledger, credits, debited, recorded>>
<1> DEFINE e == hand[h].event
           p == hand[h].event.of
<1>1. e \in sent /\ e \in Events /\ p \in Purchases
  BY EventShape DEF IInv, TypeOK, InHand
<1>2. /\ status \in [Purchases -> {"none", "pending", "expired"} \cup Paid]
      /\ recorded \in [Purchases -> 0..Price]
      /\ credits \in [Purchases -> Nat] /\ debited \in [Purchases -> Nat]
  BY DEF IInv, TypeOK
<1>3. CASE e.kind = "completed"
  <2>1. e = Event("completed", p, 0) /\ e \notin ledger /\ ledger' = ledger \cup {e}
    BY <1>1, <1>3, EventShape DEF Writes, Inserted
  <2>2. session[p] = "paid"
    BY <1>1, <1>3 DEF IInv, Sessions
  <2>3. status[p] = "pending"
    <3>1. status[p] # "none" /\ status[p] # "expired" /\ status[p] \notin Paid
      BY <2>1, <2>2, <1>1 DEF IInv, Sessions, Credited
    <3> QED
      BY <3>1, <1>1, <1>2
  <2>4. /\ status' = [status EXCEPT ![p] = "completed"]
        /\ recorded' = [recorded EXCEPT ![p] = recorded[p]]
    BY <2>3, <1>3 DEF Writes, Marks, From, Becomes, Completable
  <2>5. credits' = [credits EXCEPT ![p] = credits[p] + 1] /\ UNCHANGED debited
    BY <1>3 DEF Writes
  <2>6. recorded' = recorded
    BY <2>4, <1>2
  <2> QED
    BY <2>1, <2>3, <2>4, <2>5, <2>6, <1>1, <1>2, <1>3
<1>4. CASE e.kind = "refunded"
  <2>1. status[p] \in Paid
    BY <1>4 DEF IInv, InHand
  <2>2. e \notin ledger /\ ledger' = ledger \cup {e} /\ UNCHANGED credits
    BY <1>4 DEF Writes, Inserted
  <2>3. debited' = [debited EXCEPT ![p] = debited[p] + (e.total - hand[h].seen)]
    BY <1>4 DEF Writes, RefundDue
  <2>4. CASE status[p] = "refunded"
    <3>1. UNCHANGED <<status, recorded>>
      BY <2>4, <1>4 DEF Writes, Marks, From, Refundable
    <3> QED
      BY <2>1, <2>2, <2>3, <2>4, <3>1, <1>1, <1>2, <1>4
  <2>5. CASE status[p] # "refunded"
    <3>1. /\ status' = [status EXCEPT ![p] = IF e.total = Price THEN "refunded" ELSE "partial_refund"]
          /\ recorded' = [recorded EXCEPT ![p] = e.total]
      BY <2>1, <2>5, <1>4 DEF Writes, Marks, From, Becomes, Refundable, Paid
    <3> QED
      BY <2>1, <2>2, <2>3, <2>5, <3>1, <1>1, <1>2, <1>4
  <2> QED
    BY <2>4, <2>5
<1>5. CASE e.kind = "expired"
  <2>1. session[p] = "expired" /\ status[p] # "none"
    BY <1>1, <1>5 DEF IInv, Sessions, InHand
  <2>2. status[p] \notin Paid
    <3>1. Event("completed", p, 0) \notin sent
      BY <2>1, <1>1, EventMade DEF IInv, Sessions
    <3> QED
      BY <3>1, <1>1 DEF IInv, Credited
  <2>3. status' = [status EXCEPT ![p] = "expired"] /\ recorded' = [recorded EXCEPT ![p] = recorded[p]]
    BY <1>5 DEF Writes, Marks, From, Becomes
  <2>4. UNCHANGED <<ledger, credits, debited>>
    BY <1>5 DEF Writes
  <2>5. recorded' = recorded
    BY <2>3, <1>2
  <2> QED
    BY <2>1, <2>2, <2>3, <2>4, <2>5, <1>1, <1>2, <1>5
<1> QED
  BY <1>1, <1>3, <1>4, <1>5, EventShape

LEMMA WritesKeepsTypes ==
    ASSUME IInv, NEW h \in Handlers, hand[h].event # Idle, Writes(h), Done(h),
           acked' = acked \/ Answer(h),
           UNCHANGED <<checkouts, stripe, overlapped>>,
           errors' \in 0..MaxErrors, crashes' \in 0..MaxCrashes
    PROVE  TypeOK'
<1> DEFINE e == hand[h].event
           p == hand[h].event.of
<1>1. p \in Purchases /\ e \in sent /\ e \in Events /\ hand[h].seen \in 0..Price
  BY EventShape DEF IInv, TypeOK, InHand
<1>2. e.total \in 0..Price /\ (e.kind = "refunded" => e.total - hand[h].seen \in Nat)
  <2>1. e.total \in 0..Price
    BY <1>1, EventShape
  <2>2. e.kind = "refunded" => hand[h].seen < e.total
    BY DEF IInv, InHand
  <2> QED
    BY <1>1, <2>1, <2>2, CentsAssumption
<1>3. ledger' \subseteq Events /\ credits' \in [Purchases -> Nat]
  <2>1. CASE e.kind = "completed"
    BY <1>1, <2>1 DEF IInv, TypeOK, Writes, Inserted
  <2>2. CASE e.kind = "refunded"
    BY <1>1, <2>2 DEF IInv, TypeOK, Writes, Inserted
  <2>3. CASE e.kind = "expired"
    BY <2>3 DEF IInv, TypeOK, Writes
  <2> QED
    BY <2>1, <2>2, <2>3, <1>1, EventShape
<1>4. debited' \in [Purchases -> Nat]
  <2>1. debited[p] \in Nat
    BY <1>1 DEF IInv, TypeOK
  <2>2. CASE e.kind = "refunded"
    BY <1>2, <2>1, <2>2 DEF IInv, TypeOK, Writes, RefundDue
  <2>3. CASE e.kind # "refunded"
    <3>1. e.kind \in {"completed", "expired"}
      BY <1>1, <2>3, EventShape
    <3> QED
      BY <3>1 DEF IInv, TypeOK, Writes
  <2> QED
    BY <2>2, <2>3
<1>5. balance' \in [Users -> Int]
  <2>1. Buyer[p] \in Users /\ balance \in [Users -> Int] /\ balance[Buyer[p]] \in Int
    BY <1>1, BuyersAssumption DEF IInv, TypeOK
  <2>2. CASE e.kind = "refunded"
    BY <1>2, <2>1, <2>2 DEF Writes, RefundDue, TakenBack
  <2>3. CASE e.kind = "completed"
    BY <2>1, <2>3, CentsAssumption DEF Writes
  <2>4. CASE e.kind = "expired"
    BY <2>1, <2>4 DEF Writes
  <2> QED
    BY <2>2, <2>3, <2>4, <1>1, EventShape
<1>6. recorded' \in [Purchases -> 0..Price]
  BY <1>1, <1>2, CentsAssumption DEF IInv, TypeOK, Writes, Marks
<1>7. status' \in [Purchases -> {"none", "pending", "expired"} \cup Paid]
  <2>1. Becomes(e) \in {"none", "pending", "expired"} \cup Paid
    BY <1>1, EventShape DEF Becomes, Paid
  <2> QED
    BY <2>1, <1>1 DEF IInv, TypeOK, Writes, Marks
<1>8. acked' \subseteq sent
  BY <1>1 DEF IInv, TypeOK, Answer
<1>9. hand' \in [Handlers -> [event : Events \cup {Idle}, seen : 0..Price]]
  BY CentsAssumption DEF IInv, TypeOK, Done, NoEvent
<1> QED
  BY <1>3, <1>4, <1>5, <1>6, <1>7, <1>8, <1>9 DEF IInv, TypeOK, checkouts, stripe

LEMMA WritesKeeps ==
    ASSUME IInv, NEW h \in Handlers, hand[h].event # Idle, Writes(h), Done(h),
           acked' = acked \/ Answer(h),
           UNCHANGED <<checkouts, stripe, overlapped>>,
           errors' \in 0..MaxErrors, crashes' \in 0..MaxCrashes
    PROVE  IInv'
<1> DEFINE e == hand[h].event
           p == hand[h].event.of
<1>0. /\ p \in Purchases /\ e \in sent /\ e \in Events
      /\ \A q \in Purchases \ {p} : /\ status'[q] = status[q] /\ recorded'[q] = recorded[q]
                                    /\ credits'[q] = credits[q] /\ debited'[q] = debited[q]
  BY WritesMoves
<1>u. UNCHANGED <<checkout, session, sent, refunded, overlapped>>
  BY DEF checkouts, stripe
<1>t. /\ hand[h].seen \in 0..Price /\ e.total \in 0..Price /\ recorded[p] \in 0..Price
      /\ refunded[p] \in 0..Price /\ debited[p] \in Nat /\ credits[p] \in Nat
  BY <1>0, EventShape DEF IInv, TypeOK
<1>h. \A g \in Handlers : hand'[g].event = Idle \/ (g # h /\ hand'[g] = hand[g])
  BY DEF IInv, TypeOK, Done, NoEvent
<1>1. TypeOK'
  BY WritesKeepsTypes
<1>2. Sessions'
  <2>1. session[p] = IF e.kind = "expired" THEN "expired" ELSE "paid"
    BY <1>0 DEF IInv, Sessions
  <2>2. /\ status[p] # "none" <=> status'[p] # "none"
        /\ status'[p] = "expired" => session[p] = "expired"
    BY <2>1, WritesMoves DEF IInv, Sessions, Paid
  <2>3. \A q \in Purchases : /\ status[q] # "none" <=> status'[q] # "none"
                             /\ status'[q] = "expired" => session[q] = "expired"
    BY <2>2, <1>0 DEF IInv, Sessions
  <2> QED
    BY <2>3, <1>u DEF IInv, Sessions
<1>3. Credited'
  <2>1. ledger' \subseteq sent'
    BY <1>0, <1>u, WritesMoves DEF IInv, Credited
  <2>2. ASSUME NEW q \in Purchases
        PROVE  /\ credits'[q] = IF status'[q] \in Paid THEN 1 ELSE 0
               /\ status'[q] \in Paid <=> Event("completed", q, 0) \in ledger'
    <3>1. /\ credits[q] = IF status[q] \in Paid THEN 1 ELSE 0
          /\ status[q] \in Paid <=> Event("completed", q, 0) \in ledger
      BY DEF IInv, Credited, CreditedOnce
    <3>2. CASE e.kind = "completed"
      <4>1. /\ e = Event("completed", p, 0) /\ ledger' = ledger \cup {e} /\ status[p] = "pending"
            /\ status'[p] = "completed" /\ credits'[p] = credits[p] + 1
        BY <3>2, WritesMoves
      <4>2. q # p => Event("completed", q, 0) # e
        BY <4>1, <1>0, EventMade
      <4> QED
        BY <3>1, <4>1, <4>2, <1>0 DEF Paid
    <3>3. CASE e.kind = "refunded"
      <4>1. /\ ledger' = ledger \cup {e} /\ status[p] \in Paid /\ status'[p] \in Paid
            /\ credits' = credits
        BY <3>3, WritesMoves DEF Paid
      <4>2. Event("completed", q, 0) # e
        BY <3>3, EventMade
      <4> QED
        BY <3>1, <4>1, <4>2, <1>0
    <3>4. CASE e.kind = "expired"
      <4>1. ledger' = ledger /\ status[p] \notin Paid /\ status'[p] \notin Paid /\ credits' = credits
        BY <3>4, WritesMoves DEF Paid
      <4> QED
        BY <3>1, <4>1, <1>0
    <3> QED
      BY <3>2, <3>3, <3>4, <1>0, EventShape
  <2> QED
    BY <2>1, <2>2 DEF Credited, CreditedOnce
<1>4. InHand'
  <2>1. \A q \in Purchases : /\ status[q] \in Paid => status'[q] \in Paid
                             /\ status[q] # "none" => status'[q] # "none"
    BY <1>0, WritesMoves DEF Paid
  <2>2. \A q \in sent : q.of \in Purchases
    BY EventShape DEF IInv, TypeOK
  <2> QED
    BY <2>1, <2>2, <1>h, <1>u DEF IInv, InHand
<1>5. Exact'
  <2>1. \A q \in Purchases : status'[q] = "refunded" => recorded'[q] = Price
    BY <1>0, WritesMoves DEF IInv, Exact, Paid
  <2>2. ASSUME NEW q \in Purchases, q \notin overlapped
        PROVE  /\ debited'[q] = recorded'[q] /\ recorded'[q] <= refunded[q]
               /\ \A g \in Handlers : HasRefund(g, q)' => hand'[g].seen = recorded'[q]
    <3>1. /\ debited[q] = recorded[q] /\ recorded[q] <= refunded[q]
          /\ \A g \in Handlers : HasRefund(g, q) => hand[g].seen = recorded[q]
          /\ \A f, g \in Handlers : HasRefund(f, q) /\ HasRefund(g, q) => f = g
      BY <2>2 DEF IInv, Exact
    <3>2. \A g \in Handlers : HasRefund(g, q)' => g # h /\ hand'[g] = hand[g] /\ HasRefund(g, q)
      BY <1>h DEF HasRefund
    <3>3. CASE q = p /\ e.kind = "refunded"
      <4>1. HasRefund(h, p)
        BY <3>3 DEF HasRefund
      <4>2. hand[h].seen = recorded[p] /\ \A g \in Handlers : ~HasRefund(g, q)'
        BY <3>1, <3>2, <3>3, <4>1
      <4>3. hand[h].seen < e.total /\ e.total <= refunded[p]
        BY <3>3, <1>0 DEF IInv, InHand, Exact
      <4>4. status[p] # "refunded"
        BY <4>2, <4>3, <1>0, <1>t, CentsAssumption DEF IInv, Exact
      <4>5. debited'[p] = debited[p] + (e.total - hand[h].seen) /\ recorded'[p] = e.total
        BY <3>3, <4>4, WritesMoves
      <4> QED
        BY <3>1, <3>3, <4>2, <4>3, <4>5, <1>t, CentsAssumption
    <3>4. CASE q # p \/ e.kind # "refunded"
      <4>1. debited'[q] = debited[q] /\ recorded'[q] = recorded[q]
        BY <3>4, <1>0, WritesMoves
      <4> QED
        BY <3>1, <3>2, <4>1
    <3> QED
      BY <3>3, <3>4
  <2>3. \A q \in Purchases : q \notin overlapped =>
          \A f, g \in Handlers : HasRefund(f, q)' /\ HasRefund(g, q)' => f = g
    BY <1>h DEF IInv, Exact, HasRefund
  <2> QED
    BY <2>1, <2>2, <2>3, <1>u DEF IInv, Exact
<1> QED
  BY <1>1, <1>2, <1>3, <1>4, <1>5 DEF IInv
-----------------------------------------------------------------------------
(* The specification *)

LEMMA StepKeeps == IInv /\ [Next]_vars => IInv'
<1> SUFFICES ASSUME IInv, [Next]_vars PROVE IInv'
  OBVIOUS
<1>t. errors \in 0..MaxErrors /\ crashes \in 0..MaxCrashes
  BY DEF IInv, TypeOK
<1>1. ASSUME NEW p \in Purchases,
             ReadCustomer(p) \/ CreateCustomer(p) \/ CreateSession(p) \/ FailCheckout(p)
      PROVE  IInv'
  BY <1>1, OpenCheckoutKeeps
<1>2. ASSUME NEW p \in Purchases, CommitCheckout(p) \/ Pay(p) \/ Expire(p) \/ Refund(p)
      PROVE  IInv'
  BY <1>2, CommitCheckoutKeeps, SessionEndsKeeps, RefundKeeps
<1>3. ASSUME NEW h \in Handlers, Handle(h) \/ Redeliver(h)
      PROVE  IInv'
  <2>1. CASE \E e \in sent : Receive(h, e)
    BY <2>1, ReceiveKeeps
  <2>2. CASE Apply(h)
    BY <2>2, <1>t, WritesKeeps DEF Apply
  <2>3. CASE Refused(h)
    <3>1. hand[h].event # Idle
      BY <2>3, IdleAssumption DEF Refused, IInv, TypeOK
    <3> QED
      BY <2>3, <3>1, <1>t, GivesUpKeeps DEF Refused
  <2> QED
    BY <1>3, <2>1, <2>2, <2>3 DEF Handle, Redeliver, IInv, TypeOK
<1>4. ASSUME NEW h \in Handlers, Swallows(h)
      PROVE  IInv'
  <2>1. errors' \in 0..MaxErrors
    BY <1>4, <1>t, CentsAssumption DEF Swallows
  <2> QED
    BY <1>4, <2>1, <1>t, GivesUpKeeps DEF Swallows
<1>5. ASSUME NEW h \in Handlers, Crash(h)
      PROVE  IInv'
  <2>1. crashes' \in 0..MaxCrashes
    BY <1>5, <1>t, CentsAssumption DEF Crash
  <2>2. CASE UNCHANGED rows
    BY <1>5, <2>1, <2>2, <1>t, GivesUpKeeps DEF Crash, AfterCrash
  <2>3. CASE Writes(h)
    BY <1>5, <2>1, <2>3, <1>t, WritesKeeps DEF Crash, AfterCrash
  <2> QED
    BY <1>5, <2>2, <2>3 DEF Crash
<1>6. CASE UNCHANGED vars
  <2>1. UNCHANGED <<checkout, chosen, session, customer, refunded, sent, duplicates, status, recorded,
                    ledger, balance, credits, debited, acked, hand, overlapped, errors, crashes>>
    BY <1>6 DEF vars, checkouts, stripe, rows
  <2> QED
    BY <2>1 DEF IInv, TypeOK, Sessions, Credited, CreditedOnce, InHand, Exact, HasRefund
<1> QED
  BY <1>1, <1>2, <1>3, <1>4, <1>5, <1>6 DEF Next, Finished

LEMMA InvHolds == Spec => []IInv
BY InitHolds, StepKeeps, PTL DEF Spec

\* Every state of the billing of purchases has its types, from any number of
\* buyers, handlers and faults.
THEOREM PurchasesTyped == Spec => []TypeOK
BY InvHolds, PTL DEF IInv

\* A paid session is credited once and exactly when its purchase is completed,
\* whatever is delivered twice, at once, in any order, or cut off by a crash.
THEOREM PaidOnce == Spec => []CreditedOnce
BY InvHolds, PTL DEF IInv, Credited

\* Refund events that never overlap on a charge debit what the purchase
\* records, and no more than Stripe has paid back.
THEOREM RefundsAddUp == Spec => []RefundsExact
<1>1. IInv => RefundsExact
  BY DEF IInv, Exact, RefundsExact
<1> QED
  BY <1>1, InvHolds, PTL

LEMMA WritesGoForward ==
    ASSUME IInv, NEW h \in Handlers, hand[h].event # Idle, Writes(h)
    PROVE  Forward
<1> DEFINE p == hand[h].event.of
<1>1. status'[p] # status[p] => status'[p] \in Later[status[p]]
  BY WritesMoves DEF Later, Paid
<1> QED
  BY <1>1, WritesMoves DEF Forward

\* No webhook, however late or concurrent, reopens an expired or a refunded
\* purchase.
THEOREM PurchasesGoForward == Spec => StatusForward
<1>1. IInv /\ [Next]_vars => [Forward]_vars
  <2> SUFFICES ASSUME IInv, Next PROVE Forward \/ UNCHANGED vars
    OBVIOUS
  <2>1. ASSUME NEW p \in Purchases, CommitCheckout(p)
        PROVE  Forward
    <3>1. status[p] = "none" /\ status' = [status EXCEPT ![p] = "pending"]
      BY <2>1 DEF IInv, Sessions, CommitCheckout
    <3> QED
      BY <3>1 DEF Forward, Later, IInv, TypeOK
  <2>2. ASSUME NEW h \in Handlers, Apply(h) \/ (Crash(h) /\ Writes(h))
        PROVE  Forward
    BY <2>2, WritesGoForward DEF Apply, Crash
  <2>3. ASSUME status' = status
        PROVE  Forward
    BY <2>3 DEF Forward
  <2>4. ASSUME NEW p \in Purchases, ReadCustomer(p) \/ CreateCustomer(p) \/ CreateSession(p)
                 \/ FailCheckout(p) \/ Pay(p) \/ Expire(p) \/ Refund(p)
        PROVE  status' = status
    BY <2>4 DEF ReadCustomer, CreateCustomer, CreateSession, FailCheckout, Pay, Expire, Refund, rows
  <2>5. ASSUME NEW h \in Handlers, (\E e \in sent : Receive(h, e)) \/ Refused(h) \/ Swallows(h)
                 \/ (Crash(h) /\ UNCHANGED rows)
        PROVE  status' = status
    BY <2>5 DEF Receive, Refused, Swallows, rows
  <2> QED
    BY <2>1, <2>2, <2>3, <2>4, <2>5 DEF Next, Finished, Handle, Redeliver, Crash, IInv, TypeOK
<1> QED
  BY <1>1, InvHolds, PTL DEF Spec, StatusForward
-----------------------------------------------------------------------------
(* Refinement of CreditPurchases: the commit of a handler is one step of the *)
(* purchase it is about, and everything else but a payment, a refund at      *)
(* Stripe and an overlap of two refunds is invisible.                        *)

Charged == {p \in Purchases : session[p] = "paid"}

LEMMA InitRefines == Init => Bought!Init
BY DEF Init, Bought!Init

LEMMA InvisibleStep ==
    ASSUME Charged' = Charged, UNCHANGED <<refunded, status, recorded, overlapped, balance>>
    PROVE  UNCHANGED Bought!vars
BY DEF Charged, Bought!vars

LEMMA CommitCheckoutIsOpen ==
    ASSUME IInv, NEW p \in Purchases, CommitCheckout(p)
    PROVE  Bought!Open(p)
<1>1. status[p] = "none"
  BY DEF CommitCheckout, IInv, Sessions
<1> QED
  BY <1>1 DEF CommitCheckout, stripe, Bought!Open, Bought!Mark

\* Nobody has paid an open session, so its purchase has not been credited; and
\* a purchase only expires with its session.
LEMMA PayIsCharge ==
    ASSUME IInv, NEW p \in Purchases, Pay(p)
    PROVE  Bought!Charge(p)
<1>1. session[p] = "open" /\ checkout[p] = "done" /\ session' = [session EXCEPT ![p] = "paid"]
  BY DEF Pay
<1>2. status[p] # "none" /\ status[p] # "expired"
  BY <1>1 DEF IInv, Sessions
<1>3. Event("completed", p, 0) \notin sent
  BY <1>1, EventMade DEF IInv, Sessions
<1>4. status[p] = "pending"
  BY <1>2, <1>3 DEF IInv, TypeOK, Credited
<1>5. p \notin Charged /\ Charged' = Charged \cup {p}
  BY <1>1 DEF Charged, IInv, TypeOK
<1> QED
  BY <1>4, <1>5 DEF Charged, Pay, rows, Bought!Charge

LEMMA RefundIsPayBack ==
    ASSUME NEW p \in Purchases, Refund(p)
    PROVE  Bought!PayBack(p)
<1>1. p \in Charged /\ Charged' = Charged
  BY DEF Charged, Refund, checkouts
<1>2. \E total \in (refunded[p] + 1)..Price : refunded' = [refunded EXCEPT ![p] = total]
  BY DEF Refund
<1> QED
  BY <1>1, <1>2 DEF Charged, Refund, rows, Bought!PayBack

\* Two refund handlers of one purchase meet only over an event that is news to
\* the purchase.
LEMMA ReceiveRefines ==
    ASSUME IInv, NEW h \in Handlers, NEW e \in sent, Receive(h, e)
    PROVE  (\E p \in Purchases : Bought!Contest(p)) \/ UNCHANGED Bought!vars
<1>1. Charged' = Charged /\ UNCHANGED <<refunded, status, recorded, balance>>
  BY DEF Charged, Receive, checkouts, rows
<1>2. CASE overlapped' = overlapped
  BY <1>1, <1>2, InvisibleStep
<1>3. CASE overlapped' # overlapped
  <2>1. ~Skipped(e) /\ e.kind = "refunded" /\ overlapped' = overlapped \cup {e.of}
    BY <1>3 DEF Receive
  <2>2. e \in Events /\ e.of \in Purchases /\ e.total \in 1..Price
    BY <2>1, EventShape DEF IInv, TypeOK
  <2>3. recorded[e.of] \in 0..Price /\ refunded[e.of] \in 0..Price /\ e.total <= refunded[e.of]
    BY <2>1, <2>2 DEF IInv, TypeOK, Exact
  <2>4. status[e.of] \in Paid /\ recorded[e.of] < refunded[e.of]
    BY <2>1, <2>2, <2>3, CentsAssumption DEF Skipped, RefundDue
  <2> QED
    BY <1>1, <2>1, <2>2, <2>4 DEF Charged, Paid, Bought!Contest, Bought!Paid
<1> QED
  BY <1>2, <1>3

\* What the commit of a handler does to the balance.
LEMMA WritesBalance ==
    ASSUME NEW h \in Handlers, Writes(h)
    PROVE  LET e == hand[h].event IN
           /\ e.kind = "completed" => balance' = [balance EXCEPT ![Buyer[e.of]] = @ + Grant]
           /\ e.kind = "refunded" => balance' = [balance EXCEPT ![Buyer[e.of]] = @ - (e.total - hand[h].seen)]
           /\ e.kind = "expired" => balance' = balance
<1> DEFINE e == hand[h].event
<1>1. CASE e.kind = "completed"
  BY <1>1 DEF Writes
<1>2. CASE e.kind = "refunded"
  BY <1>2 DEF Writes, RefundDue, TakenBack
<1>3. CASE e.kind = "expired"
  BY <1>3 DEF Writes
<1> QED
  BY <1>1, <1>2, <1>3

LEMMA WritesRefines ==
    ASSUME IInv, NEW h \in Handlers, hand[h].event # Idle, Writes(h),
           UNCHANGED <<checkouts, stripe, overlapped>>
    PROVE  Bought!Next \/ UNCHANGED Bought!vars
<1> DEFINE e == hand[h].event
           p == hand[h].event.of
           seen == hand[h].seen
<1>1. p \in Purchases /\ e \in sent /\ e \in Events
  BY WritesMoves
<1>2. /\ status \in [Purchases -> {"none", "pending", "expired"} \cup Paid]
      /\ recorded \in [Purchases -> 0..Price] /\ refunded \in [Purchases -> 0..Price]
      /\ balance \in [Users -> Int] /\ Buyer[p] \in Users /\ seen \in 0..Price
  BY <1>1, BuyersAssumption DEF IInv, TypeOK
<1>3. Charged' = Charged /\ UNCHANGED <<refunded, overlapped>>
  BY DEF Charged, checkouts, stripe
<1>4. p \in Charged <=> e.kind # "expired"
  BY <1>1, EventShape DEF Charged, IInv, Sessions
<1>5. CASE e.kind = "completed"
  <2>1. /\ status[p] = "pending" /\ status' = [status EXCEPT ![p] = "completed"]
        /\ recorded' = recorded
    <3>1. status[p] = "pending" /\ recorded' = recorded
      BY <1>5, WritesMoves
    <3>2. status' = [status EXCEPT ![p] = "completed"]
      BY <1>5, <3>1 DEF Writes, Marks, From, Becomes, Completable
    <3> QED
      BY <3>1, <3>2
  <2>2. balance' = [balance EXCEPT ![Buyer[p]] = @ + Grant]
    BY <1>5, WritesBalance
  <2>3. Bought!Complete(p)
    BY <1>3, <1>4, <1>5, <2>1, <2>2 DEF Charged, Bought!Complete, Bought!Mark, Bought!Move
  <2> QED
    BY <1>1, <2>3 DEF Bought!Next
<1>6. CASE e.kind = "expired"
  <2>1. status[p] \in {"pending", "expired"} /\ recorded' = recorded /\ balance' = balance
    BY <1>6, WritesMoves, WritesBalance
  <2>2. status' = [status EXCEPT ![p] = "expired"]
    BY <1>6 DEF Writes, Marks, From, Becomes
  <2>3. CASE status[p] = "expired"
    <3>1. status' = status
      BY <1>2, <2>2, <2>3
    <3> QED
      BY <1>3, <2>1, <3>1, InvisibleStep
  <2>4. CASE status[p] = "pending"
    <3>1. Bought!Lapse(p)
      BY <1>3, <1>4, <1>6, <2>1, <2>2, <2>4 DEF Charged, Bought!Lapse, Bought!Mark
    <3> QED
      BY <1>1, <3>1 DEF Bought!Next
  <2> QED
    BY <2>1, <2>3, <2>4
<1>7. CASE e.kind = "refunded"
  <2>1. /\ e.total \in 1..Price /\ seen < e.total /\ e.total <= refunded[p]
        /\ recorded[p] \in 0..Price /\ refunded[p] \in 0..Price /\ status[p] \in Paid
    BY <1>1, <1>2, <1>7, EventShape DEF IInv, InHand, Exact
  <2>2. balance' = [balance EXCEPT ![Buyer[p]] = @ - (e.total - seen)]
    BY <1>7, WritesBalance
  <2>3. balance' = [balance EXCEPT ![Buyer[p]] = @ + (-(e.total - seen))]
    BY <1>2, <2>1, <2>2, CentsAssumption
  <2>4. CASE status[p] # "refunded"
    <3>1. /\ status' = [status EXCEPT ![p] = IF e.total = Price THEN "refunded" ELSE "partial_refund"]
          /\ recorded' = [recorded EXCEPT ![p] = e.total]
      BY <1>7, <2>1, <2>4 DEF Writes, Marks, From, Becomes, Refundable, Paid
    <3>2. Bought!Note(p, e.total)
      BY <2>1, <2>4, <3>1 DEF Paid, Bought!Note, Bought!Paid, Bought!Mark
    <3>3. CASE p \notin overlapped
      <4>1. seen = recorded[p]
        BY <1>1, <1>7, <3>3 DEF IInv, Exact, HasRefund
      <4>2. e.total \in (recorded[p] + 1)..refunded[p] /\ recorded[p] - e.total = -(e.total - seen)
        BY <2>1, <4>1, CentsAssumption
      <4>3. Bought!Move(p, recorded[p] - e.total)
        BY <2>3, <4>2 DEF Bought!Move
      <4>4. Bought!TakeBack(p)
        BY <1>3, <3>2, <3>3, <4>2, <4>3 DEF Charged, Bought!TakeBack
      <4> QED
        BY <1>1, <4>4 DEF Bought!Next
    <3>4. CASE p \in overlapped
      <4>1. e.total \in 1..refunded[p] /\ e.total - seen \in 1..e.total
        BY <1>2, <2>1, CentsAssumption
      <4>2. Bought!Move(p, -(e.total - seen))
        BY <2>3 DEF Bought!Move
      <4>3. Bought!TakeBackTwice(p)
        BY <1>3, <3>2, <3>4, <4>1, <4>2 DEF Charged, Bought!TakeBackTwice
      <4> QED
        BY <1>1, <4>3 DEF Bought!Next
    <3> QED
      BY <3>3, <3>4
  <2>5. CASE status[p] = "refunded"
    <3>1. UNCHANGED <<status, recorded>>
      BY <1>7, <2>5 DEF Writes, Marks, From, Refundable
    <3>2. p \in overlapped
      <4>1. recorded[p] = Price
        BY <1>1, <2>5 DEF IInv, Exact
      <4>2. p \notin overlapped => seen = recorded[p]
        BY <1>1, <1>7 DEF IInv, Exact, HasRefund
      <4> QED
        BY <2>1, <4>1, <4>2, CentsAssumption
    <3>3. e.total \in 1..refunded[p] /\ e.total - seen \in 1..e.total
      BY <1>2, <2>1, CentsAssumption
    <3>4. Bought!Move(p, -(e.total - seen))
      BY <2>3 DEF Bought!Move
    <3>5. Bought!TakeBackTwice(p)
      BY <1>3, <2>5, <3>1, <3>2, <3>3, <3>4 DEF Charged, Bought!TakeBackTwice
    <3> QED
      BY <1>1, <3>5 DEF Bought!Next
  <2> QED
    BY <2>4, <2>5
<1> QED
  BY <1>1, <1>5, <1>6, <1>7, EventShape

LEMMA StepRefines ==
    ASSUME IInv, [Next]_vars
    PROVE  Bought!Next \/ UNCHANGED Bought!vars
<1>1. ASSUME NEW p \in Purchases, CommitCheckout(p) \/ Pay(p) \/ Refund(p)
      PROVE  Bought!Next
  BY <1>1, CommitCheckoutIsOpen, PayIsCharge, RefundIsPayBack DEF Bought!Next
<1>2. ASSUME NEW p \in Purchases,
             ReadCustomer(p) \/ CreateCustomer(p) \/ CreateSession(p) \/ FailCheckout(p) \/ Expire(p)
      PROVE  UNCHANGED Bought!vars
  <2>1. UNCHANGED <<refunded, status, recorded, overlapped, balance>>
    BY <1>2 DEF ReadCustomer, CreateCustomer, CreateSession, FailCheckout, Expire, stripe, rows
  <2>2. Charged' = Charged
    <3>1. CASE ReadCustomer(p) \/ CreateCustomer(p) \/ FailCheckout(p)
      BY <3>1 DEF Charged, ReadCustomer, CreateCustomer, FailCheckout
    <3>2. CASE CreateSession(p)
      <4>1. session[p] # "paid"
        BY <3>2 DEF CreateSession, IInv, Sessions
      <4> QED
        BY <3>2, <4>1 DEF Charged, CreateSession, IInv, TypeOK
    <3>3. CASE Expire(p)
      BY <3>3 DEF Charged, Expire, IInv, TypeOK
    <3> QED
      BY <1>2, <3>1, <3>2, <3>3
  <2> QED
    BY <2>1, <2>2, InvisibleStep
<1>3. ASSUME NEW h \in Handlers, Handle(h) \/ Redeliver(h) \/ Swallows(h) \/ Crash(h)
      PROVE  Bought!Next \/ UNCHANGED Bought!vars
  <2>1. CASE \E e \in sent : Receive(h, e)
    BY <2>1, ReceiveRefines DEF Bought!Next
  <2>2. CASE Apply(h) \/ (Crash(h) /\ Writes(h))
    BY <2>2, WritesRefines DEF Apply, Crash
  <2>3. CASE Refused(h) \/ Swallows(h) \/ (Crash(h) /\ UNCHANGED rows)
    BY <2>3, InvisibleStep DEF Refused, Swallows, Crash, Charged, checkouts, stripe, rows
  <2> QED
    BY <1>3, <2>1, <2>2, <2>3 DEF Handle, Redeliver, Crash, IInv, TypeOK
<1>4. CASE UNCHANGED vars
  BY <1>4, InvisibleStep DEF vars, Charged, checkouts, stripe, rows
<1> QED
  BY <1>1, <1>2, <1>3, <1>4 DEF Next, Finished

\* Behind any number of webhook handlers, with duplicates, reordering, errors and
\* crashes, purchases and balances move as the abstract CreditPurchases allows.
THEOREM StripeImplementsPurchases == Spec => ImplementsPurchases
<1>1. IInv /\ [Next]_vars => [Bought!Next]_(Bought!vars)
  BY StepRefines
<1> QED
  BY InitRefines, <1>1, InvHolds, PTL DEF Spec, ImplementsPurchases, Bought!Spec
=============================================================================
