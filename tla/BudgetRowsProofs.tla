-------------------------- MODULE BudgetRowsProofs --------------------------
(***************************************************************************)
(* The arithmetic of amounts: what entering and removing rows does to the  *)
(* sum that the ledger compares with the limit.                            *)
(***************************************************************************)
EXTENDS BudgetRows, FiniteSetTheorems, TLAPS

\* The units of finitely many calls are finitely many.
LEMMA UnitsFinite ==
    ASSUME NEW S \in SUBSET Calls
    PROVE  IsFiniteSet(Units(S))
<1> DEFINE block == [c \in S |-> {c} \X (1 .. CostOf[c])]
           Blocks == {block[c] : c \in S}
<1>1. IsFiniteSet(S)
    BY CallsAssumption, FS_Subset
<1>2. block \in Surjection(S, Blocks)
    BY DEF Surjection
<1>3. IsFiniteSet(Blocks)
    <2> HIDE DEF block, Blocks
    <2> QED BY <1>1, <1>2, FS_Surjection
<1>4. ASSUME NEW c \in S PROVE IsFiniteSet(block[c])
    <2>1. CostOf[c] \in Nat
        BY CostAssumption
    <2>2. IsFiniteSet(1 .. CostOf[c])
        BY <2>1, FS_Interval
    <2>3. IsFiniteSet({c})
        BY FS_Singleton
    <2> QED BY <2>2, <2>3, FS_Product
<1>5. IsFiniteSet(UNION Blocks)
    BY <1>3, <1>4, FS_UNION
<1>6. Units(S) = UNION Blocks
    BY DEF Units
<1> QED BY <1>5, <1>6

\* The amount of a set of calls is a natural number, and grows with the set.
LEMMA AmountType ==
    ASSUME NEW S \in SUBSET Calls
    PROVE  Amount(S) \in Nat
BY UnitsFinite, FS_CardinalityType DEF Amount

\* More calls amount to no less.
LEMMA AmountMonotone ==
    ASSUME NEW S \in SUBSET Calls, NEW T \in SUBSET S
    PROVE  Amount(T) <= Amount(S)
<1>1. Units(T) \in SUBSET Units(S)
    BY DEF Units
<1> QED BY <1>1, UnitsFinite, FS_Subset DEF Amount

\* Adding one call adds its cost, counted at most once.
LEMMA AmountOne ==
    ASSUME NEW c \in Calls
    PROVE  Amount({c}) = CostOf[c]
<1>1. CostOf[c] \in Nat
    BY CostAssumption
<1>2. Units({c}) = {c} \X (1 .. CostOf[c])
    BY DEF Units
<1>3. IsFiniteSet(1 .. CostOf[c]) /\ Cardinality(1 .. CostOf[c]) = CostOf[c]
    <2>1. 1 \in Int /\ CostOf[c] \in Int
        BY <1>1
    <2>2. /\ IsFiniteSet(1 .. CostOf[c])
          /\ Cardinality(1 .. CostOf[c]) = IF 1 > CostOf[c] THEN 0 ELSE CostOf[c] - 1 + 1
        BY <2>1, FS_Interval
    <2> QED BY <1>1, <2>2
<1>4. IsFiniteSet({c}) /\ Cardinality({c}) = 1
    BY FS_Singleton
<1>5. Cardinality({c} \X (1 .. CostOf[c])) = CostOf[c]
    <2>1. Cardinality({c} \X (1 .. CostOf[c])) = Cardinality({c}) * Cardinality(1 .. CostOf[c])
        BY <1>3, <1>4, FS_Product
    <2>2. 1 * CostOf[c] = CostOf[c]
        BY <1>1
    <2> QED BY <1>3, <1>4, <2>1, <2>2, Zenon
<1>6. Amount({c}) = Cardinality({c} \X (1 .. CostOf[c]))
    BY <1>2 DEF Amount
<1> QED BY <1>5, <1>6

\* Adding a call adds its cost at most, and exactly if it is a new one.
LEMMA AmountAdd ==
    ASSUME NEW S \in SUBSET Calls, NEW c \in Calls
    PROVE  /\ Amount(S \cup {c}) <= Amount(S) + CostOf[c]
           /\ c \notin S => Amount(S \cup {c}) = Amount(S) + CostOf[c]
<1>1. Units(S \cup {c}) = Units(S) \cup Units({c})
    BY DEF Units
<1>2. /\ IsFiniteSet(Units(S)) /\ IsFiniteSet(Units({c}))
      /\ IsFiniteSet(Units(S) \cap Units({c}))
    BY UnitsFinite, FS_Intersection
<1>3. Cardinality(Units(S) \cup Units({c})) =
        Cardinality(Units(S)) + Cardinality(Units({c})) - Cardinality(Units(S) \cap Units({c}))
    BY <1>2, FS_Union
<1>4. /\ Cardinality(Units(S) \cap Units({c})) \in Nat
      /\ Cardinality(Units(S)) \in Nat
      /\ Cardinality(Units({c})) = CostOf[c]
      /\ CostOf[c] \in Nat
    BY <1>2, FS_CardinalityType, AmountOne, CostAssumption DEF Amount
<1>5. c \notin S => Cardinality(Units(S) \cap Units({c})) = 0
    <2>1. c \notin S => Units(S) \cap Units({c}) = {}
        BY DEF Units
    <2> QED BY <2>1, FS_EmptySet
<1>6. /\ Amount(S \cup {c}) = Cardinality(Units(S) \cup Units({c}))
      /\ Amount(S) = Cardinality(Units(S))
    BY <1>1 DEF Amount
<1> QED BY <1>3, <1>4, <1>5, <1>6

\* A table whose live rows are among those of another, on the same dates,
\* spends no more.
LEMMA SpentMonotone ==
    ASSUME NEW t, NEW u, NEW o, NEW d,
           \A c \in Calls : IsLive(t[c]) /\ t[c].date = d => IsLive(u[c]) /\ u[c].date = d
    PROVE  Spent(t, o, d) <= Spent(u, o, d)
<1>1. LiveCalls(t, o, d) \in SUBSET LiveCalls(u, o, d)
    BY DEF LiveCalls
<1>2. LiveCalls(u, o, d) \in SUBSET Calls
    BY DEF LiveCalls
<1> QED BY <1>1, <1>2, AmountMonotone DEF Spent

\* Entering a row adds at most its cost, to its owner and day only.
LEMMA SpentEntered ==
    ASSUME NEW t \in [Calls -> Row], NEW c \in Calls, NEW day0 \in Days, NEW o, NEW d
    PROVE  Spent(Entered(t, c, day0), o, d) <=
             IF o = OwnerOf[c] /\ d = day0 THEN Spent(t, o, d) + CostOf[c] ELSE Spent(t, o, d)
<1> DEFINE t2 == Entered(t, c, day0)
<1>1. /\ t2[c] = [status |-> "reserved", date |-> day0]
      /\ \A x \in Calls : x # c => t2[x] = t[x]
    BY DEF Entered
<1>2. /\ LiveCalls(t, o, d) \in SUBSET Calls
      /\ LiveCalls(t2, o, d) \in SUBSET Calls
    BY DEF LiveCalls
<1>3. CASE o = OwnerOf[c] /\ d = day0
    <2>1. LiveCalls(t2, o, d) = LiveCalls(t, o, d) \cup {c}
        BY <1>1, <1>3 DEF LiveCalls, IsLive
    <2>2. Spent(t2, o, d) <= Spent(t, o, d) + CostOf[c]
        BY <1>2, <2>1, AmountAdd DEF Spent
    <2> QED BY <1>3, <2>2
<1>4. CASE ~(o = OwnerOf[c] /\ d = day0)
    <2>1. LiveCalls(t2, o, d) \in SUBSET LiveCalls(t, o, d)
        BY <1>1, <1>4 DEF LiveCalls
    <2>2. Spent(t2, o, d) <= Spent(t, o, d)
        BY <1>2, <2>1, AmountMonotone DEF Spent
    <2> QED BY <1>4, <2>2
<1> QED BY <1>3, <1>4
=============================================================================
