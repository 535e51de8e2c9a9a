---------------------------- MODULE CreditLedger ----------------------------
(***************************************************************************)
(* What the billing back end promises of its committed data, without its  *)
(* sessions, locks, savepoints or retries.  A reservation is reserved once *)
(* and leaves "held" at most once; an account is debited by exactly the    *)
(* charges of the reservations that are settled, and its held amount is    *)
(* exactly the sum of the estimates that are still held.  One committed    *)
(* transaction may move several reservations.                              *)
(***************************************************************************)
EXTENDS Amounts

CONSTANTS Users,      \* rows of the users table
          Rsv,        \* identifiers of usage reservations
          OwnerOf     \* the user of each reservation

VARIABLES status,     \* status of each reservation, "none" before it exists
          est,        \* estimated cost of each reservation
          charge,     \* cost debited for each reservation
          balance,    \* balance of each user
          held        \* held balance of each user

vars == <<status, est, charge, balance, held>>

Final == {"settled", "released", "stale"}

RowsOf(u, states, st) == {r \in Rsv : OwnerOf[r] = u /\ st[r] \in states}

Init == /\ status = [r \in Rsv |-> "none"]
        /\ est = [r \in Rsv |-> 0]
        /\ charge = [r \in Rsv |-> 0]
        /\ balance \in [Users -> Int]
        /\ held = [u \in Users |-> 0]

\* A reservation keeps its row, is created, or is resolved; a charge comes
\* with the status "settled" and with no other.
Keeps(r) == /\ status'[r] = status[r]
            /\ est'[r] = est[r]
            /\ charge'[r] = charge[r]

Creates(r) == /\ status[r] = "none"
              /\ status'[r] \in {"held", "settled", "released"}
              /\ est'[r] > 0
              /\ charge'[r] >= 0
              /\ charge'[r] > 0 => status'[r] = "settled"

Resolves(r) == /\ status[r] = "held"
               /\ status'[r] \in {"settled", "stale"}
               /\ est'[r] = est[r]
               /\ charge'[r] >= 0
               /\ charge'[r] > 0 => status'[r] = "settled"

\* A committed transaction of a request or of a sweep.
Transact == /\ \A r \in Rsv : Keeps(r) \/ Creates(r) \/ Resolves(r)
            /\ \A u \in Users :
                 LET settled == RowsOf(u, {"settled"}, status') \ RowsOf(u, {"settled"}, status)
                 IN  /\ balance'[u] = balance[u] - SumOver(settled, charge')
                     /\ held'[u] = SumOver(RowsOf(u, {"held"}, status'), est')

\* A purchase, a grant or a refund moves one balance and nothing else.
Adjust(u) == /\ \A v \in Users \ {u} : balance'[v] = balance[v]
             /\ UNCHANGED <<status, est, charge, held>>

Next == Transact \/ \E u \in Users : Adjust(u)

Spec == Init /\ [][Next]_vars
=============================================================================
