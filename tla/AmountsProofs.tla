--------------------------- MODULE AmountsProofs ---------------------------
(***************************************************************************)
(* Lemmas about sums over finite sets of rows: what adding or removing one *)
(* row does, and that the sum depends on the amounts of its rows only.     *)
(***************************************************************************)
EXTENDS Amounts, FiniteSetTheorems, FunctionTheorems, TLAPS

\* The units of one row, and of finitely many rows, are finite.
LEMMA RowUnits ==
    ASSUME NEW r, NEW n \in Nat
    PROVE  /\ IsFiniteSet({r} \X (1..n))
           /\ Cardinality({r} \X (1..n)) = n
<1> DEFINE A == 1..n
           B == {r} \X (1..n)
           f == [k \in A |-> <<r, k>>]
<1>1. IsFiniteSet(A) /\ Cardinality(A) = n
  BY FS_Interval
<1>2. f \in Bijection(A, B)
  <2>1. f \in [A -> B]
    OBVIOUS
  <2>2. \A j, k \in A : f[j] = f[k] => j = k
    OBVIOUS
  <2>3. ASSUME NEW unit \in B PROVE \E k \in A : f[k] = unit
    <3>1. PICK k \in A : unit = <<r, k>>
      OBVIOUS
    <3> QED BY <3>1
  <2> QED BY <2>1, <2>2, <2>3, Fun_IsBij
<1>3. ExistsBijection(A, B)
  BY <1>2 DEF ExistsBijection
<1> HIDE DEF A, B
<1>4. IsFiniteSet(B) /\ Cardinality(B) = n
  BY <1>1, <1>3, FS_Bijection
<1> QED BY <1>4 DEF B

LEMMA UnitsFinite ==
    ASSUME NEW S, IsFiniteSet(S), NEW amount, \A r \in S : amount[r] \in Nat
    PROVE  IsFiniteSet(Units(S, amount))
<1> DEFINE f == [r \in S |-> {r} \X (1..amount[r])]
           T == {f[r] : r \in S}
<1>1. f \in Surjection(S, T)
  BY DEF Surjection
<1>2. IsFiniteSet(T)
  BY <1>1, FS_Surjection
<1>3. ASSUME NEW r \in S PROVE IsFiniteSet(f[r])
  BY RowUnits
<1>4. IsFiniteSet(UNION T)
  BY <1>2, <1>3, FS_UNION
<1>5. Units(S, amount) = UNION T
  BY DEF Units
<1> QED BY <1>4, <1>5

\* A sum is a natural number, and the sum over no row is zero.
LEMMA SumType ==
    ASSUME NEW S, IsFiniteSet(S), NEW amount, \A r \in S : amount[r] \in Nat
    PROVE  SumOver(S, amount) \in Nat
  BY UnitsFinite, FS_CardinalityType DEF SumOver

LEMMA SumEmpty == ASSUME NEW amount PROVE SumOver({}, amount) = 0
<1>1. Units({}, amount) = {}
  BY DEF Units
<1> QED BY <1>1, FS_EmptySet DEF SumOver

\* Only the amounts of the rows that are summed matter.
LEMMA SumSame ==
    ASSUME NEW S, NEW a, NEW b, \A r \in S : a[r] = b[r]
    PROVE  SumOver(S, a) = SumOver(S, b)
<1>1. Units(S, a) = Units(S, b)
  BY DEF Units
<1> QED BY <1>1 DEF SumOver

\* One row more.
LEMMA SumAdd ==
    ASSUME NEW S, IsFiniteSet(S), NEW r, r \notin S,
           NEW amount, \A x \in S \cup {r} : amount[x] \in Nat
    PROVE  SumOver(S \cup {r}, amount) = SumOver(S, amount) + amount[r]
<1> DEFINE own == {r} \X (1..amount[r])
<1>1. Units(S \cup {r}, amount) = Units(S, amount) \cup own
  BY DEF Units
<1>2. Units(S, amount) \cap own = {}
  BY DEF Units
<1>3. IsFiniteSet(Units(S, amount)) /\ Cardinality(Units(S, amount)) \in Nat
  BY UnitsFinite, FS_CardinalityType
<1>4. amount[r] \in Nat
  OBVIOUS
<1>5. IsFiniteSet(own) /\ Cardinality(own) = amount[r]
  BY <1>4, RowUnits
<1> HIDE DEF own
<1>6. Cardinality(Units(S, amount) \cup own) = Cardinality(Units(S, amount)) + Cardinality(own) - 0
  BY <1>2, <1>3, <1>5, FS_Union, FS_EmptySet
<1>7. SumOver(S \cup {r}, amount) = Cardinality(Units(S, amount) \cup own)
  BY <1>1 DEF SumOver
<1>8. SumOver(S, amount) = Cardinality(Units(S, amount))
  BY DEF SumOver
<1> QED BY <1>3, <1>4, <1>5, <1>6, <1>7, <1>8

\* One row less.
LEMMA SumRemove ==
    ASSUME NEW S, IsFiniteSet(S), NEW r \in S,
           NEW amount, \A x \in S : amount[x] \in Nat
    PROVE  SumOver(S \ {r}, amount) = SumOver(S, amount) - amount[r]
<1> DEFINE rest == S \ {r}
<1>1. IsFiniteSet(rest) /\ r \notin rest /\ S = rest \cup {r}
  BY FS_RemoveElement
<1>2. \A x \in rest \cup {r} : amount[x] \in Nat
  BY <1>1
<1> HIDE DEF rest
<1>3. SumOver(S, amount) = SumOver(rest, amount) + amount[r]
  BY <1>1, <1>2, SumAdd
<1>4. SumOver(rest, amount) \in Nat
  BY <1>1, <1>2, SumType
<1> QED BY <1>2, <1>3, <1>4 DEF rest
=============================================================================
