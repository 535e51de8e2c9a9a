-------------------------- MODULE CreditPurchases --------------------------
(***************************************************************************)
(* What the billing back end promises a buyer of credits, without webhook  *)
(* deliveries, handlers, retries or crashes.  A purchase that was charged  *)
(* is completed at most once, and the balance grows by the grant in that   *)
(* very step.  A purchase takes back from the balance what it newly        *)
(* records as refunded, which is never more than Stripe has paid back.     *)
(* Only a contested purchase, whose refunds were handled two at once, may  *)
(* take back more than it records.                                         *)
(***************************************************************************)
EXTENDS Integers

CONSTANTS Users, Purchases, Buyer, Price, Grant

VARIABLES charged,    \* purchases the buyer has paid at Stripe
          repaid,     \* cents Stripe has paid back of each
          status,     \* the purchase row, "none" before it exists
          recorded,   \* refund_amount_cents of the purchase row
          contested,  \* purchases whose refunds were handled two at once
          balance     \* balance of each user, in cents

vars == <<charged, repaid, status, recorded, contested, balance>>

Init == /\ charged = {} /\ contested = {}
        /\ repaid = [p \in Purchases |-> 0]
        /\ status = [p \in Purchases |-> "none"]
        /\ recorded = [p \in Purchases |-> 0]
        /\ balance = [u \in Users |-> 0]

Paid == {"completed", "partial_refund", "refunded"}
Mark(p, s) == status' = [status EXCEPT ![p] = s]
Move(p, cents) == balance' = [balance EXCEPT ![Buyer[p]] = @ + cents]

Open(p) == /\ status[p] = "none" /\ Mark(p, "pending")
           /\ UNCHANGED <<charged, repaid, recorded, contested, balance>>

Charge(p) == /\ status[p] = "pending" /\ p \notin charged
             /\ charged' = charged \cup {p}
             /\ UNCHANGED <<repaid, status, recorded, contested, balance>>

Complete(p) == /\ p \in charged /\ status[p] = "pending"
               /\ Mark(p, "completed") /\ Move(p, Grant)
               /\ UNCHANGED <<charged, repaid, recorded, contested>>

Lapse(p) == /\ p \notin charged /\ status[p] = "pending"
            /\ Mark(p, "expired")
            /\ UNCHANGED <<charged, repaid, recorded, contested, balance>>

PayBack(p) == /\ p \in charged
              /\ \E total \in (repaid[p] + 1)..Price : repaid' = [repaid EXCEPT ![p] = total]
              /\ UNCHANGED <<charged, status, recorded, contested, balance>>

\* The row notes a new total of refunds, the last of which makes it refunded.
Note(p, total) ==
    /\ status[p] \in Paid \ {"refunded"}
    /\ Mark(p, IF total = Price THEN "refunded" ELSE "partial_refund")
    /\ recorded' = [recorded EXCEPT ![p] = total]

TakeBack(p) == /\ p \notin contested
               /\ \E total \in (recorded[p] + 1)..repaid[p] :
                    Note(p, total) /\ Move(p, recorded[p] - total)
               /\ UNCHANGED <<charged, repaid, contested>>

\* Two refunds are handled at once: one must be news to the purchase.
Contest(p) == /\ status[p] \in Paid /\ recorded[p] < repaid[p]
              /\ contested' = contested \cup {p}
              /\ UNCHANGED <<charged, repaid, status, recorded, balance>>

TakeBackTwice(p) ==
    /\ p \in contested
    /\ \E total \in 1..repaid[p] :
         /\ Note(p, total) \/ (status[p] = "refunded" /\ UNCHANGED <<status, recorded>>)
         /\ \E due \in 1..total : Move(p, -due)
    /\ UNCHANGED <<charged, repaid, contested>>

Next == \E p \in Purchases :
    \/ Open(p) \/ Charge(p) \/ Complete(p) \/ Lapse(p) \/ PayBack(p)
    \/ TakeBack(p) \/ Contest(p) \/ TakeBackTwice(p)

Spec == Init /\ [][Next]_vars
=============================================================================
