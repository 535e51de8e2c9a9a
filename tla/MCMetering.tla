----------------------------- MODULE MCMetering -----------------------------
(***************************************************************************)
(* Metering on small instances: the constants the configurations choose.   *)
(***************************************************************************)
EXTENDS Metering, TLC

CONSTANTS u1, u2, q1, q2, w1, w2

OneUser == {u1}
TwoUsers == {u1, u2}
TwoRequests == {q1, q2}
OneSweeper == {w1}
TwoSweepers == {w1, w2}
SameUser == [q \in TwoRequests |-> u1]
OwnUser == (q1 :> u1) @@ (q2 :> u2)
RequestsAlike == Permutations(TwoRequests)
=============================================================================
