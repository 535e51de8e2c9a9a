------------------------------ MODULE Amounts ------------------------------
(***************************************************************************)
(* Sums of USD amounts over a finite set of rows.  An amount is a natural  *)
(* number of the smallest unit the NUMERIC(10,6) columns hold.  The sum is *)
(* the number of units the rows own, a definition that TLC evaluates and   *)
(* that the cardinality theorems can reason about without induction.       *)
(***************************************************************************)
EXTENDS Integers, FiniteSets

Units(S, amount) == UNION { {r} \X (1..amount[r]) : r \in S }

SumOver(S, amount) == Cardinality(Units(S, amount))
=============================================================================
