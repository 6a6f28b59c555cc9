----------------------- MODULE ProviderLimitersProofs -----------------------
(***************************************************************************)
(* Permits are conserved for every number of calls, providers, principals  *)
(* and permits, so that no provider ever serves more calls than its limit; *)
(* and each queue lists exactly the calls that wait, once.                 *)
(***************************************************************************)
EXTENDS ProviderLimiters, WaitersProofs, FiniteSetTheorems, TLAPS

\* The types that the permit counts rest on; the queues' order is not needed.
PermitTypes ==
    /\ at \in [Calls -> Places]
    /\ provFree \in [Providers -> Nat]
    /\ prinFree \in [Owners \X Gens -> Nat]
    /\ sem \in [Calls -> 0 .. MaxGen]
    /\ cached \in [Owners -> 0 .. MaxGen]

\* A remote call that has asked for its principal's semaphore has one, and a
\* local call waits for none.
SemKnown ==
    \A c \in Calls :
        /\ at[c] \in {"provider", "principal", "in"} /\ ~IsLocal(c) => sem[c] \in Gens
        /\ at[c] = "principal" => ~IsLocal(c)

PermitInv == PermitTypes /\ SemKnown /\ PermitsConserved

\* Sets of calls: finite, and one larger or smaller by one call.
LEMMA OneMore ==
    ASSUME NEW S \in SUBSET Calls, NEW T, NEW c \in Calls,
           c \notin S, T = S \cup {c}
    PROVE  Cardinality(T) = Cardinality(S) + 1 /\ Cardinality(S) \in Nat
<1>1. IsFiniteSet(S)
    BY CallsAssumption, FS_Subset
<1> QED BY <1>1, FS_AddElement, FS_CardinalityType

\* The same when the call leaves the set.
LEMMA OneLess ==
    ASSUME NEW S \in SUBSET Calls, NEW T, NEW c \in S, T = S \ {c}
    PROVE  Cardinality(T) = Cardinality(S) - 1 /\ Cardinality(S) \in Nat
<1>1. IsFiniteSet(S)
    BY CallsAssumption, FS_Subset
<1> QED BY <1>1, FS_RemoveElement, FS_CardinalityType

\* A step of acquire() keeps the types and looks up a semaphore before it waits
\* for one.
LEMMA PermitTypesInductive ==
    ASSUME PermitTypes, SemKnown, [LimitersNext]_limiterVars
    PROVE  PermitTypes' /\ SemKnown'
<1> USE GenAssumption, ProviderAssumption, OwnerAssumption, PermitAssumption
    DEF PermitTypes, SemKnown, Places, Gens, IsLocal, PrincipalSem
<1>1. ASSUME NEW c \in Calls, Enter(c) PROVE PermitTypes' /\ SemKnown'
    BY <1>1 DEF Enter
<1>2. ASSUME NEW c \in Calls, Lookup(c) PROVE PermitTypes' /\ SemKnown'
    BY <1>2 DEF Lookup
<1>3. ASSUME NEW c \in Calls, TakeProvider(c) PROVE PermitTypes' /\ SemKnown'
    BY <1>3 DEF TakeProvider
<1>4. ASSUME NEW c \in Calls, TakePrincipal(c) PROVE PermitTypes' /\ SemKnown'
    <2>1. /\ at' = [at EXCEPT ![c] = "in"] /\ at[c] = "principal"
          /\ UNCHANGED <<provFree, sem, cached>>
        BY <1>4 DEF TakePrincipal
    <2>2. prinFree' \in [Owners \X Gens -> Nat]
        BY <1>4 DEF TakePrincipal
    <2>3. SemKnown'
        BY <2>1
    <2> QED BY <2>1, <2>2, <2>3
<1>5. ASSUME NEW c \in Calls, Leave(c) PROVE PermitTypes' /\ SemKnown'
    BY <1>5 DEF Leave
<1>6. ASSUME NEW c \in Calls, Withdraw(c) PROVE PermitTypes' /\ SemKnown'
    BY <1>6 DEF Withdraw
<1>7. ASSUME NEW o \in Owners, Expire(o) PROVE PermitTypes' /\ SemKnown'
    BY <1>7 DEF Expire
<1>8. CASE UNCHANGED limiterVars
    BY <1>8 DEF limiterVars
<1> QED BY <1>1, <1>2, <1>3, <1>4, <1>5, <1>6, <1>7, <1>8 DEF LimitersNext

\* Steps that neither take nor give a permit.
LEMMA PermitsUntouched ==
    ASSUME PermitInv, provFree' = provFree, prinFree' = prinFree,
           \A c \in Calls : /\ at'[c] \in {"principal", "in"} <=> at[c] \in {"principal", "in"}
                            /\ at'[c] = "in" <=> at[c] = "in"
                            /\ at[c] = "in" => sem'[c] = sem[c]
    PROVE  PermitsConserved'
<1>1. \A p \in Providers : ProviderHolders(p)' = ProviderHolders(p)
    BY DEF ProviderHolders
<1>2. \A s \in Owners \X Gens : PrincipalHolders(s)' = PrincipalHolders(s)
    BY DEF PrincipalHolders, PrincipalSem, IsLocal
<1> QED BY <1>1, <1>2 DEF PermitsConserved, PermitInv

\* What a provider's semaphore gives, the caller holds.
LEMMA TakeProviderConserves ==
    ASSUME PermitInv, NEW c \in Calls, TakeProvider(c)
    PROVE  PermitsConserved'
<1> USE DEF PermitInv, PermitTypes
<1>0. /\ at[c] = "provider"
      /\ at' = [at EXCEPT ![c] = IF IsLocal(c) THEN "in" ELSE "principal"]
      /\ provFree' = [provFree EXCEPT ![ProviderOf[c]] = @ - 1]
      /\ prinFree' = prinFree /\ sem' = sem
      /\ ProviderOf[c] \in Providers
    BY ProviderAssumption DEF TakeProvider
<1>1. ASSUME NEW p \in Providers
      PROVE  provFree'[p] + Cardinality(ProviderHolders(p)') = ProviderLimit
    <2>1. provFree[p] + Cardinality(ProviderHolders(p)) = ProviderLimit
        BY DEF PermitsConserved
    <2>2. CASE p = ProviderOf[c]
        <3>1. /\ ProviderHolders(p)' = ProviderHolders(p) \cup {c}
              /\ c \notin ProviderHolders(p)
              /\ ProviderHolders(p) \in SUBSET Calls
            BY <1>0, <2>2 DEF ProviderHolders
        <3>2. /\ Cardinality(ProviderHolders(p)') = Cardinality(ProviderHolders(p)) + 1
              /\ Cardinality(ProviderHolders(p)) \in Nat
            BY <3>1, OneMore
        <3>3. provFree'[p] = provFree[p] - 1 /\ provFree[p] \in Nat
            BY <1>0, <2>2
        <3> QED BY <2>1, <3>2, <3>3, PermitAssumption
    <2>3. CASE p # ProviderOf[c]
        <3>1. ProviderHolders(p)' = ProviderHolders(p)
            BY <1>0, <2>3 DEF ProviderHolders
        <3> QED BY <1>0, <2>1, <2>3, <3>1
    <2> QED BY <2>2, <2>3
<1>2. ASSUME NEW s \in Owners \X Gens
      PROVE  PrincipalHolders(s)' = PrincipalHolders(s)
    BY <1>0 DEF PrincipalHolders, PrincipalSem, IsLocal
<1> QED BY <1>0, <1>1, <1>2 DEF PermitsConserved

\* What a principal's semaphore gives, the caller holds.
LEMMA TakePrincipalConserves ==
    ASSUME PermitInv, NEW c \in Calls, ~IsLocal(c), TakePrincipal(c)
    PROVE  PermitsConserved'
<1> USE DEF PermitInv, PermitTypes
<1>0. /\ at[c] = "principal"
      /\ at' = [at EXCEPT ![c] = "in"]
      /\ prinFree' = [prinFree EXCEPT ![PrincipalSem(c)] = @ - 1]
      /\ provFree' = provFree /\ sem' = sem
      /\ PrincipalSem(c) \in Owners \X Gens
    BY OwnerAssumption DEF TakePrincipal, SemKnown, PrincipalSem
<1>1. ASSUME NEW s \in Owners \X Gens
      PROVE  prinFree'[s] + Cardinality(PrincipalHolders(s)') = PrincipalLimit
    <2>1. prinFree[s] + Cardinality(PrincipalHolders(s)) = PrincipalLimit
        BY DEF PermitsConserved
    <2>2. CASE s = PrincipalSem(c)
        <3>1. /\ PrincipalHolders(s)' = PrincipalHolders(s) \cup {c}
              /\ c \notin PrincipalHolders(s)
              /\ PrincipalHolders(s) \in SUBSET Calls
            BY <1>0, <2>2 DEF PrincipalHolders, PrincipalSem, IsLocal
        <3>2. /\ Cardinality(PrincipalHolders(s)') = Cardinality(PrincipalHolders(s)) + 1
              /\ Cardinality(PrincipalHolders(s)) \in Nat
            BY <3>1, OneMore
        <3>3. prinFree'[s] = prinFree[s] - 1 /\ prinFree[s] \in Nat
            BY <1>0, <2>2
        <3> QED BY <2>1, <3>2, <3>3, PermitAssumption
    <2>3. CASE s # PrincipalSem(c)
        <3>1. PrincipalHolders(s)' = PrincipalHolders(s)
            BY <1>0, <2>3 DEF PrincipalHolders, PrincipalSem, IsLocal
        <3> QED BY <1>0, <2>1, <2>3, <3>1
    <2> QED BY <2>2, <2>3
<1>2. ASSUME NEW p \in Providers
      PROVE  ProviderHolders(p)' = ProviderHolders(p)
    BY <1>0 DEF ProviderHolders
<1> QED BY <1>0, <1>1, <1>2 DEF PermitsConserved

\* Leaving gives back what the call held: both permits, or the provider's only
\* for a local call and for one that waits for its principal.
LEMMA GivingBackConserves ==
    ASSUME PermitInv, NEW c \in Calls, at[c] \in {"principal", "in"},
           at' = [at EXCEPT ![c] = "out"], sem' = sem,
           provFree' = [provFree EXCEPT ![ProviderOf[c]] = @ + 1],
           prinFree' = IF at[c] = "principal" \/ IsLocal(c) THEN prinFree
                       ELSE [prinFree EXCEPT ![PrincipalSem(c)] = @ + 1]
    PROVE  PermitsConserved'
<1> USE DEF PermitInv, PermitTypes
<1>0. ProviderOf[c] \in Providers
    BY ProviderAssumption
<1>1. ASSUME NEW p \in Providers
      PROVE  provFree'[p] + Cardinality(ProviderHolders(p)') = ProviderLimit
    <2>1. provFree[p] + Cardinality(ProviderHolders(p)) = ProviderLimit
        BY DEF PermitsConserved
    <2>2. CASE p = ProviderOf[c]
        <3>1. /\ ProviderHolders(p)' = ProviderHolders(p) \ {c}
              /\ c \in ProviderHolders(p)
              /\ ProviderHolders(p) \in SUBSET Calls
            BY <2>2 DEF ProviderHolders
        <3>2. /\ Cardinality(ProviderHolders(p)') = Cardinality(ProviderHolders(p)) - 1
              /\ Cardinality(ProviderHolders(p)) \in Nat
            BY <3>1, OneLess
        <3>3. provFree'[p] = provFree[p] + 1 /\ provFree[p] \in Nat
            BY <1>0, <2>2
        <3> QED BY <2>1, <3>2, <3>3, PermitAssumption
    <2>3. CASE p # ProviderOf[c]
        <3>1. ProviderHolders(p)' = ProviderHolders(p)
            BY <2>3 DEF ProviderHolders
        <3> QED BY <1>0, <2>1, <2>3, <3>1
    <2> QED BY <2>2, <2>3
<1>2. ASSUME NEW s \in Owners \X Gens
      PROVE  prinFree'[s] + Cardinality(PrincipalHolders(s)') = PrincipalLimit
    <2>1. prinFree[s] + Cardinality(PrincipalHolders(s)) = PrincipalLimit
        BY DEF PermitsConserved
    <2>2. CASE at[c] = "in" /\ ~IsLocal(c) /\ s = PrincipalSem(c)
        <3>1. /\ PrincipalHolders(s)' = PrincipalHolders(s) \ {c}
              /\ c \in PrincipalHolders(s)
              /\ PrincipalHolders(s) \in SUBSET Calls
            BY <2>2 DEF PrincipalHolders, PrincipalSem, IsLocal
        <3>2. /\ Cardinality(PrincipalHolders(s)') = Cardinality(PrincipalHolders(s)) - 1
              /\ Cardinality(PrincipalHolders(s)) \in Nat
            BY <3>1, OneLess
        <3>3. prinFree'[s] = prinFree[s] + 1 /\ prinFree[s] \in Nat
            BY <2>2
        <3> QED BY <2>1, <3>2, <3>3, PermitAssumption
    <2>3. CASE ~(at[c] = "in" /\ ~IsLocal(c) /\ s = PrincipalSem(c))
        <3>1. PrincipalHolders(s)' = PrincipalHolders(s)
            BY <2>3 DEF PrincipalHolders, PrincipalSem, IsLocal
        <3>2. prinFree'[s] = prinFree[s]
            BY <2>3
        <3> QED BY <2>1, <3>1, <3>2
    <2> QED BY <2>2, <2>3
<1> QED BY <1>1, <1>2 DEF PermitsConserved

\* The inductive step, one case per action of acquire().
LEMMA PermitsInductive ==
    ASSUME PermitInv, [LimitersNext]_limiterVars
    PROVE  PermitInv'
<1>0. PermitTypes' /\ SemKnown'
    BY PermitTypesInductive DEF PermitInv
<1>1. ASSUME NEW c \in Calls, Enter(c) PROVE PermitsConserved'
    BY <1>1, PermitsUntouched DEF Enter, PermitInv, PermitTypes
<1>2. ASSUME NEW c \in Calls, Lookup(c) PROVE PermitsConserved'
    BY <1>2, PermitsUntouched DEF Lookup, PermitInv, PermitTypes
<1>3. ASSUME NEW c \in Calls, TakeProvider(c) PROVE PermitsConserved'
    BY <1>3, TakeProviderConserves
<1>4. ASSUME NEW c \in Calls, TakePrincipal(c) PROVE PermitsConserved'
    <2>1. ~IsLocal(c)
        BY <1>4 DEF TakePrincipal, PermitInv, SemKnown
    <2> QED BY <1>4, <2>1, TakePrincipalConserves
<1>5. ASSUME NEW c \in Calls, Leave(c) PROVE PermitsConserved'
    BY <1>5, GivingBackConserves DEF Leave
<1>6. ASSUME NEW c \in Calls, Withdraw(c) PROVE PermitsConserved'
    <2>1. CASE at[c] = "principal"
        BY <1>6, <2>1, GivingBackConserves DEF Withdraw
    <2>2. CASE at[c] # "principal"
        BY <1>6, <2>2, PermitsUntouched DEF Withdraw, PermitInv, PermitTypes
    <2> QED BY <2>1, <2>2
<1>7. ASSUME NEW o \in Owners, Expire(o) PROVE PermitsConserved'
    BY <1>7, PermitsUntouched DEF Expire
<1>8. ASSUME UNCHANGED limiterVars PROVE PermitsConserved'
    <2>1. provFree' = provFree /\ prinFree' = prinFree /\ at' = at /\ sem' = sem
        BY <1>8 DEF limiterVars
    <2> QED BY <2>1, PermitsUntouched
<1>9. PermitsConserved'
    <2>1. CASE LimitersNext
        BY <2>1, <1>1, <1>2, <1>3, <1>4, <1>5, <1>6, <1>7 DEF LimitersNext
    <2> QED BY <2>1, <1>8
<1> QED BY <1>0, <1>9 DEF PermitInv

\* A new server has all its permits.
LEMMA PermitsInit ==
    ASSUME LimitersInit
    PROVE  PermitInv
<1>1. PermitTypes /\ SemKnown
    BY PermitAssumption, GenAssumption
       DEF LimitersInit, PermitTypes, SemKnown, Places, Gens
<1>2. \A p \in Providers : ProviderHolders(p) = {}
    BY DEF LimitersInit, ProviderHolders
<1>3. \A s \in Owners \X Gens : PrincipalHolders(s) = {}
    BY DEF LimitersInit, PrincipalHolders
<1>4. Cardinality({}) = 0
    BY FS_EmptySet
<1>5. ASSUME NEW p \in Providers
      PROVE  provFree[p] + Cardinality(ProviderHolders(p)) = ProviderLimit
    <2>1. provFree[p] = ProviderLimit
        BY DEF LimitersInit
    <2> QED BY <1>2, <1>4, <2>1, PermitAssumption
<1>6. ASSUME NEW s \in Owners \X Gens
      PROVE  prinFree[s] + Cardinality(PrincipalHolders(s)) = PrincipalLimit
    <2>1. prinFree[s] = PrincipalLimit
        BY DEF LimitersInit
    <2> QED BY <1>3, <1>4, <2>1, PermitAssumption
<1>7. PermitsConserved
    BY <1>5, <1>6 DEF PermitsConserved
<1> QED BY <1>1, <1>7 DEF PermitInv

\* No permit is lost or made, whatever is cancelled.
THEOREM PermitsCorrect == LimitersSpec => []PermitsConserved
<1>1. PermitInv => PermitsConserved
    BY DEF PermitInv
<1> QED BY <1>1, PermitsInit, PermitsInductive, PTL DEF LimitersSpec

\* PROVIDER_MAX_CONCURRENCY bounds the calls that a provider serves at once.
THEOREM ProviderWithinLimit ==
    LimitersSpec => [](\A p \in Providers : Cardinality(ProviderHolders(p)) <= ProviderLimit)
<1>1. ASSUME PermitInv, NEW p \in Providers
      PROVE  Cardinality(ProviderHolders(p)) <= ProviderLimit
    <2>1. ProviderHolders(p) \in SUBSET Calls
        BY DEF ProviderHolders
    <2>2. Cardinality(ProviderHolders(p)) \in Nat
        BY <2>1, CallsAssumption, FS_Subset, FS_CardinalityType
    <2>3. provFree[p] + Cardinality(ProviderHolders(p)) = ProviderLimit /\ provFree[p] \in Nat
        BY <1>1 DEF PermitInv, PermitTypes, PermitsConserved
    <2> QED BY <2>2, <2>3, PermitAssumption
<1>2. PermitInv => \A p \in Providers : Cardinality(ProviderHolders(p)) <= ProviderLimit
    BY <1>1
<1> QED BY <1>2, PermitsInit, PermitsInductive, PTL DEF LimitersSpec

-----------------------------------------------------------------------------
(***************************************************************************)
(* The queues.  Each lists, without repetition, the calls that wait for    *)
(* its semaphore, which is what appending a waiter, serving the first one  *)
(* and taking a cancelled one out from the middle preserve.                *)
(***************************************************************************)
ProviderWaiters(p) == {c \in Calls : at[c] = "provider" /\ ProviderOf[c] = p}
PrincipalWaiters(s) == {c \in Calls : at[c] = "principal" /\ PrincipalSem(c) = s}

QueueInv ==
    /\ PermitTypes /\ SemKnown
    /\ provQueue \in [Providers -> Seq(Calls)]
    /\ prinQueue \in [Owners \X Gens -> Seq(Calls)]
    /\ \A p \in Providers : Lists(provQueue[p], ProviderWaiters(p))
    /\ \A s \in Owners \X Gens : Lists(prinQueue[s], PrincipalWaiters(s))

\* The inductive step.  An action that leaves a queue leaves its waiters.
LEMMA QueuesInductive ==
    ASSUME QueueInv, [LimitersNext]_limiterVars
    PROVE  QueueInv'
<1>1. PermitTypes' /\ SemKnown'
    BY PermitTypesInductive DEF QueueInv
<1> USE ProviderAssumption, OwnerAssumption DEF QueueInv, PermitTypes
<1>2. ASSUME NEW c \in Calls
      PROVE  ProviderOf[c] \in Providers /\ OwnerOf[c] \in Owners
    OBVIOUS
<1>3. ASSUME NEW p \in Providers,
             provQueue' = provQueue,
             \A c \in Calls : at'[c] = "provider" <=> at[c] = "provider"
      PROVE  provQueue' \in [Providers -> Seq(Calls)] /\ Lists(provQueue'[p], ProviderWaiters(p)')
    <2>1. ProviderWaiters(p)' = ProviderWaiters(p)
        BY <1>3 DEF ProviderWaiters
    <2> QED BY <1>3, <2>1
<1>4. ASSUME NEW s \in Owners \X Gens,
             prinQueue' = prinQueue,
             \A c \in Calls : at'[c] = "principal" <=> at[c] = "principal",
             \A c \in Calls : at[c] = "principal" => sem'[c] = sem[c]
      PROVE  prinQueue' \in [Owners \X Gens -> Seq(Calls)] /\ Lists(prinQueue'[s], PrincipalWaiters(s)')
    <2>1. PrincipalWaiters(s)' = PrincipalWaiters(s)
        BY <1>4 DEF PrincipalWaiters, PrincipalSem
    <2> QED BY <1>4, <2>1
<1>5. ASSUME NEW c \in Calls, at[c] # "provider", at'[c] = "provider",
             provQueue' = [provQueue EXCEPT ![ProviderOf[c]] = Append(@, c)],
             \A x \in Calls : x # c => at'[x] = at[x],
             NEW p \in Providers
      PROVE  provQueue' \in [Providers -> Seq(Calls)] /\ Lists(provQueue'[p], ProviderWaiters(p)')
    <2>1. c \notin ProviderWaiters(ProviderOf[c])
        BY <1>5 DEF ProviderWaiters
    <2>2. /\ Append(provQueue[ProviderOf[c]], c) \in Seq(Calls)
          /\ Lists(Append(provQueue[ProviderOf[c]], c), ProviderWaiters(ProviderOf[c]) \cup {c})
        BY <1>2, <2>1, AppendLists
    <2>3. CASE p = ProviderOf[c]
        <3>1. ProviderWaiters(p)' = ProviderWaiters(p) \cup {c}
            BY <1>5, <2>3 DEF ProviderWaiters
        <3> QED BY <1>5, <2>2, <2>3, <3>1
    <2>4. CASE p # ProviderOf[c]
        <3>1. ProviderWaiters(p)' = ProviderWaiters(p)
            BY <1>5, <2>4 DEF ProviderWaiters
        <3> QED BY <1>5, <2>2, <2>4, <3>1
    <2> QED BY <2>3, <2>4
<1>6. ASSUME NEW c \in Calls, NEW q \in Seq(Calls), at[c] = "provider", at'[c] # "provider",
             Lists(q, ProviderWaiters(ProviderOf[c]) \ {c}),
             provQueue' = [provQueue EXCEPT ![ProviderOf[c]] = q],
             \A x \in Calls : x # c => at'[x] = at[x],
             NEW p \in Providers
      PROVE  provQueue' \in [Providers -> Seq(Calls)] /\ Lists(provQueue'[p], ProviderWaiters(p)')
    <2>1. CASE p = ProviderOf[c]
        <3>1. ProviderWaiters(p)' = ProviderWaiters(p) \ {c}
            BY <1>6, <2>1 DEF ProviderWaiters
        <3> QED BY <1>6, <2>1, <3>1
    <2>2. CASE p # ProviderOf[c]
        <3>1. ProviderWaiters(p)' = ProviderWaiters(p)
            BY <1>6, <2>2 DEF ProviderWaiters
        <3> QED BY <1>6, <2>2, <3>1
    <2> QED BY <2>1, <2>2
<1>7. ASSUME NEW c \in Calls, NEW q \in Seq(Calls), at[c] = "principal", at'[c] # "principal",
             Lists(q, PrincipalWaiters(PrincipalSem(c)) \ {c}),
             prinQueue' = [prinQueue EXCEPT ![PrincipalSem(c)] = q],
             \A x \in Calls : x # c => at'[x] = at[x],
             sem' = sem, NEW s \in Owners \X Gens
      PROVE  prinQueue' \in [Owners \X Gens -> Seq(Calls)] /\ Lists(prinQueue'[s], PrincipalWaiters(s)')
    <2>1. CASE s = PrincipalSem(c)
        <3>1. PrincipalWaiters(s)' = PrincipalWaiters(s) \ {c}
            BY <1>7, <2>1 DEF PrincipalWaiters, PrincipalSem
        <3> QED BY <1>7, <2>1, <3>1
    <2>2. CASE s # PrincipalSem(c)
        <3>1. PrincipalWaiters(s)' = PrincipalWaiters(s)
            BY <1>7, <2>2 DEF PrincipalWaiters, PrincipalSem
        <3> QED BY <1>7, <2>2, <3>1
    <2> QED BY <2>1, <2>2
<1>8. ASSUME NEW c \in Calls, at[c] # "principal", at'[c] = "principal",
             PrincipalSem(c) \in Owners \X Gens,
             prinQueue' = [prinQueue EXCEPT ![PrincipalSem(c)] = Append(@, c)],
             \A x \in Calls : x # c => at'[x] = at[x],
             sem' = sem, NEW s \in Owners \X Gens
      PROVE  prinQueue' \in [Owners \X Gens -> Seq(Calls)] /\ Lists(prinQueue'[s], PrincipalWaiters(s)')
    <2>1. c \notin PrincipalWaiters(PrincipalSem(c))
        BY <1>8 DEF PrincipalWaiters
    <2>2. /\ Append(prinQueue[PrincipalSem(c)], c) \in Seq(Calls)
          /\ Lists(Append(prinQueue[PrincipalSem(c)], c), PrincipalWaiters(PrincipalSem(c)) \cup {c})
        BY <1>8, <2>1, AppendLists
    <2>3. CASE s = PrincipalSem(c)
        <3>1. PrincipalWaiters(s)' = PrincipalWaiters(s) \cup {c}
            BY <1>8, <2>3 DEF PrincipalWaiters, PrincipalSem
        <3> QED BY <1>8, <2>2, <2>3, <3>1
    <2>4. CASE s # PrincipalSem(c)
        <3>1. PrincipalWaiters(s)' = PrincipalWaiters(s)
            BY <1>8, <2>4 DEF PrincipalWaiters, PrincipalSem
        <3> QED BY <1>8, <2>2, <2>4, <3>1
    <2> QED BY <2>3, <2>4
<1> DEFINE ProvidersListed ==
        provQueue' \in [Providers -> Seq(Calls)]
          /\ \A p \in Providers : Lists(provQueue'[p], ProviderWaiters(p)')
    PrincipalsListed ==
        prinQueue' \in [Owners \X Gens -> Seq(Calls)]
          /\ \A s \in Owners \X Gens : Lists(prinQueue'[s], PrincipalWaiters(s)')
<1>9. ASSUME NEW c \in Calls, Enter(c) PROVE ProvidersListed /\ PrincipalsListed
    <2>1. /\ at[c] = "out" /\ at' = [at EXCEPT ![c] = IF IsLocal(c) THEN "provider" ELSE "lookup"]
          /\ provQueue' = IF IsLocal(c) THEN [provQueue EXCEPT ![ProviderOf[c]] = Append(@, c)]
                          ELSE provQueue
          /\ prinQueue' = prinQueue /\ sem' = sem
        BY <1>9 DEF Enter
    <2>2. CASE IsLocal(c)
        <3>1. at'[c] = "provider" /\ \A x \in Calls : x # c => at'[x] = at[x]
            BY <2>1, <2>2
        <3> QED BY <1>4, <1>5, <2>1, <2>2, <3>1
    <2>3. CASE ~IsLocal(c)
        BY <1>3, <1>4, <2>1, <2>3
    <2> QED BY <2>2, <2>3
<1>10. ASSUME NEW c \in Calls, Lookup(c) PROVE ProvidersListed /\ PrincipalsListed
    <2>1. /\ at[c] = "lookup" /\ at'[c] = "provider" /\ \A x \in Calls : x # c => at'[x] = at[x]
          /\ provQueue' = [provQueue EXCEPT ![ProviderOf[c]] = Append(@, c)]
          /\ prinQueue' = prinQueue
          /\ \A x \in Calls : x # c => sem'[x] = sem[x]
        BY <1>10 DEF Lookup
    <2>2. ProvidersListed
        BY <1>5, <2>1
    <2>3. PrincipalsListed
        BY <1>4, <2>1
    <2> QED BY <2>2, <2>3
<1>11. ASSUME NEW c \in Calls, TakeProvider(c) PROVE ProvidersListed /\ PrincipalsListed
    <2> DEFINE p == ProviderOf[c]
               s == PrincipalSem(c)
    <2>1. /\ at[c] = "provider" /\ Head(provQueue[p]) = c
          /\ at' = [at EXCEPT ![c] = IF IsLocal(c) THEN "in" ELSE "principal"]
          /\ provQueue' = [provQueue EXCEPT ![p] = Tail(provQueue[p])]
          /\ prinQueue' = IF IsLocal(c) THEN prinQueue ELSE [prinQueue EXCEPT ![s] = Append(@, c)]
          /\ sem' = sem
        BY <1>11 DEF TakeProvider
    <2>2. c \in ProviderWaiters(p)
        BY <2>1 DEF ProviderWaiters
    <2>3. Tail(provQueue[p]) \in Seq(Calls) /\ Lists(Tail(provQueue[p]), ProviderWaiters(p) \ {c})
        BY <1>2, <2>1, <2>2, TailLists
    <2>4. at'[c] # "provider" /\ \A x \in Calls : x # c => at'[x] = at[x]
        BY <2>1
    <2>5. ProvidersListed
        BY <1>6, <2>1, <2>3, <2>4
    <2>6. CASE IsLocal(c)
        <3>1. PrincipalsListed
            BY <1>4, <2>1, <2>6
        <3> QED BY <2>5, <3>1
    <2>7. CASE ~IsLocal(c)
        <3>1. at'[c] = "principal" /\ prinQueue' = [prinQueue EXCEPT ![s] = Append(@, c)]
            BY <2>1, <2>7
        <3>2. s \in Owners \X Gens
            BY <1>2, <2>1, <2>7 DEF SemKnown, PrincipalSem
        <3>3. PrincipalsListed
            BY <1>8, <2>1, <2>4, <3>1, <3>2
        <3> QED BY <2>5, <3>3
    <2> QED BY <2>6, <2>7
<1>12. ASSUME NEW c \in Calls, TakePrincipal(c) PROVE ProvidersListed /\ PrincipalsListed
    <2> DEFINE s == PrincipalSem(c)
    <2>1. /\ at[c] = "principal" /\ Head(prinQueue[s]) = c
          /\ at' = [at EXCEPT ![c] = "in"]
          /\ prinQueue' = [prinQueue EXCEPT ![s] = Tail(prinQueue[s])]
          /\ provQueue' = provQueue /\ sem' = sem
        BY <1>12 DEF TakePrincipal
    <2>2. c \in PrincipalWaiters(s) /\ s \in Owners \X Gens
        BY <1>2, <2>1 DEF PrincipalWaiters, SemKnown, PrincipalSem
    <2>3. Tail(prinQueue[s]) \in Seq(Calls) /\ Lists(Tail(prinQueue[s]), PrincipalWaiters(s) \ {c})
        BY <2>1, <2>2, TailLists
    <2>4. at'[c] = "in" /\ \A x \in Calls : x # c => at'[x] = at[x]
        BY <2>1
    <2>5. PrincipalsListed
        BY <1>7, <2>1, <2>3, <2>4
    <2>6. ProvidersListed
        BY <1>3, <2>1, <2>4
    <2> QED BY <2>5, <2>6
<1>13. ASSUME NEW c \in Calls, Leave(c) PROVE ProvidersListed /\ PrincipalsListed
    <2>1. /\ at[c] = "in" /\ at' = [at EXCEPT ![c] = "out"]
          /\ provQueue' = provQueue /\ prinQueue' = prinQueue /\ sem' = sem
        BY <1>13 DEF Leave
    <2> QED BY <1>3, <1>4, <2>1
<1>14. ASSUME NEW c \in Calls, Withdraw(c) PROVE ProvidersListed /\ PrincipalsListed
    <2> DEFINE p == ProviderOf[c]
               s == PrincipalSem(c)
    <2>1. /\ at[c] \in {"lookup", "provider", "principal"} /\ at' = [at EXCEPT ![c] = "out"]
          /\ provQueue' = IF at[c] = "provider" THEN [provQueue EXCEPT ![p] = Without(provQueue[p], c)]
                          ELSE provQueue
          /\ prinQueue' = IF at[c] = "principal" THEN [prinQueue EXCEPT ![s] = Without(prinQueue[s], c)]
                          ELSE prinQueue
          /\ sem' = sem
        BY <1>14 DEF Withdraw
    <2>2. at'[c] = "out" /\ \A x \in Calls : x # c => at'[x] = at[x]
        BY <2>1
    <2>3. ProvidersListed
        <3>1. CASE at[c] = "provider"
            <4>1. c \in ProviderWaiters(p)
                BY <3>1 DEF ProviderWaiters
            <4>2. /\ Without(provQueue[p], c) \in Seq(Calls)
                  /\ Lists(Without(provQueue[p], c), ProviderWaiters(p) \ {c})
                BY <1>2, <4>1, WithoutLists
            <4> QED BY <1>6, <2>1, <2>2, <3>1, <4>2
        <3>2. CASE at[c] # "provider"
            BY <1>3, <2>1, <2>2, <3>2
        <3> QED BY <3>1, <3>2
    <2>4. PrincipalsListed
        <3>1. CASE at[c] = "principal"
            <4>1. c \in PrincipalWaiters(s) /\ s \in Owners \X Gens
                BY <1>2, <3>1 DEF PrincipalWaiters, SemKnown, PrincipalSem
            <4>2. /\ Without(prinQueue[s], c) \in Seq(Calls)
                  /\ Lists(Without(prinQueue[s], c), PrincipalWaiters(s) \ {c})
                BY <4>1, WithoutLists
            <4> QED BY <1>7, <2>1, <2>2, <3>1, <4>2
        <3>2. CASE at[c] # "principal"
            BY <1>4, <2>1, <2>2, <3>2
        <3> QED BY <3>1, <3>2
    <2> QED BY <2>3, <2>4
<1>15. ASSUME (\E o \in Owners : Expire(o)) \/ UNCHANGED limiterVars
       PROVE  ProvidersListed /\ PrincipalsListed
    <2>1. UNCHANGED <<at, provQueue, prinQueue, sem>>
        BY <1>15 DEF Expire, limiterVars
    <2> QED BY <1>3, <1>4, <2>1
<1>16. ProvidersListed /\ PrincipalsListed
    BY <1>9, <1>10, <1>11, <1>12, <1>13, <1>14, <1>15 DEF LimitersNext
<1> QED BY <1>1, <1>16

\* Nobody waits in a new server.
LEMMA QueuesInitially ==
    ASSUME LimitersInit
    PROVE  QueueInv
<1>1. PermitTypes /\ SemKnown
    BY PermitsInit DEF PermitInv
<1>2. \A p \in Providers : ProviderWaiters(p) = {} /\ provQueue[p] = <<>>
    BY DEF LimitersInit, ProviderWaiters
<1>3. \A s \in Owners \X Gens : PrincipalWaiters(s) = {} /\ prinQueue[s] = <<>>
    BY DEF LimitersInit, PrincipalWaiters
<1>4. /\ provQueue \in [Providers -> Seq(Calls)]
      /\ prinQueue \in [Owners \X Gens -> Seq(Calls)]
    BY DEF LimitersInit
<1> QED BY <1>1, <1>2, <1>3, <1>4, EmptyLists DEF QueueInv

\* No waiter is lost and none waits twice, whoever is cancelled in whichever
\* place of a queue.
THEOREM QueuesCorrect == LimitersSpec => []QueuesAgree
<1>2. ASSUME QueueInv PROVE QueuesAgree
    <2>1. ASSUME NEW p \in Providers, NEW c \in Calls
          PROVE  Cardinality({i \in DOMAIN provQueue[p] : provQueue[p][i] = c}) =
                   IF at[c] = "provider" /\ ProviderOf[c] = p THEN 1 ELSE 0
        <3>1. provQueue[p] \in Seq(Calls) /\ Lists(provQueue[p], ProviderWaiters(p))
            BY <1>2 DEF QueueInv
        <3>2. c \in ProviderWaiters(p) <=> at[c] = "provider" /\ ProviderOf[c] = p
            BY DEF ProviderWaiters
        <3>3. Cardinality({i \in DOMAIN provQueue[p] : provQueue[p][i] = c}) =
                IF c \in ProviderWaiters(p) THEN 1 ELSE 0
            BY <3>1, ListedOnce
        <3> QED BY <3>2, <3>3
    <2>2. ASSUME NEW s \in Owners \X Gens, NEW c \in Calls
          PROVE  Cardinality({i \in DOMAIN prinQueue[s] : prinQueue[s][i] = c}) =
                   IF at[c] = "principal" /\ PrincipalSem(c) = s THEN 1 ELSE 0
        <3>1. prinQueue[s] \in Seq(Calls) /\ Lists(prinQueue[s], PrincipalWaiters(s))
            BY <1>2 DEF QueueInv
        <3>2. c \in PrincipalWaiters(s) <=> at[c] = "principal" /\ PrincipalSem(c) = s
            BY DEF PrincipalWaiters
        <3>3. Cardinality({i \in DOMAIN prinQueue[s] : prinQueue[s][i] = c}) =
                IF c \in PrincipalWaiters(s) THEN 1 ELSE 0
            BY <3>1, ListedOnce
        <3> QED BY <3>2, <3>3
    <2> QED BY <2>1, <2>2 DEF QueuesAgree
<1>3. QueueInv => QueuesAgree
    BY <1>2
<1> QED BY <1>3, QueuesInitially, QueuesInductive, PTL DEF LimitersSpec

-----------------------------------------------------------------------------
(***************************************************************************)
(* No deadlock.  A permit that is free is one that the head of a queue can *)
(* take, and a permit that is not is in the hands of a call: of the        *)
(* provider's, which may itself wait for its principal, or of the          *)
(* principal's, which waits for nothing more.                              *)
(***************************************************************************)

\* Somebody holds the permits of a semaphore that has none left.
LEMMA PermitsAreHeld ==
    ASSUME PermitInv
    PROVE  /\ \A p \in Providers : provFree[p] = 0 => ProviderHolders(p) # {}
           /\ \A s \in Owners \X Gens : prinFree[s] = 0 => PrincipalHolders(s) # {}
BY FS_EmptySet, PermitAssumption DEF PermitInv, PermitsConserved

\* A call that waits for its principal waits for a call that can go on.
LEMMA PrincipalServes ==
    ASSUME PermitInv, QueueInv, NEW c \in Calls, at[c] = "principal"
    PROVE  \E e \in WaitsFor(c) : Free(e)
<1> DEFINE s == PrincipalSem(c)
<1>1. s \in Owners \X Gens /\ ~IsLocal(c)
    BY OwnerAssumption DEF PermitInv, SemKnown, PrincipalSem
<1>2. CASE prinFree[s] = 0
    <2>1. PICK e \in PrincipalHolders(s) : TRUE
        BY <1>1, <1>2, PermitsAreHeld
    <2> QED BY <2>1 DEF PrincipalHolders, WaitsFor, Free
<1>3. CASE prinFree[s] # 0
    <2>1. prinFree[s] > 0
        BY <1>1, <1>3 DEF PermitInv, PermitTypes
    <2>2. c \in PrincipalWaiters(s)
        BY DEF PrincipalWaiters
    <2>3. prinQueue[s] \in Seq(Calls) /\ Lists(prinQueue[s], PrincipalWaiters(s))
        BY <1>1 DEF QueueInv
    <2>4. Head(prinQueue[s]) \in PrincipalWaiters(s)
        BY <2>2, <2>3, HeadListed
    <2>5. PICK e \in PrincipalWaiters(s) : e = Head(prinQueue[s])
        BY <2>4
    <2>6. e \in Calls /\ at[e] = "principal" /\ PrincipalSem(e) = s
        BY DEF PrincipalWaiters
    <2> QED BY <2>1, <2>5, <2>6 DEF WaitsFor, Free
<1> QED BY <1>2, <1>3

\* A call that waits for its provider waits for a call that can go on, or for
\* one that waits for its principal.
LEMMA ProviderServes ==
    ASSUME PermitInv, QueueInv, NEW c \in Calls, at[c] = "provider"
    PROVE  \E d \in WaitsFor(c) : Free(d) \/ at[d] = "principal"
<1> DEFINE p == ProviderOf[c]
<1>1. p \in Providers
    BY ProviderAssumption
<1>2. CASE provFree[p] = 0
    <2>1. PICK d \in ProviderHolders(p) : TRUE
        BY <1>1, <1>2, PermitsAreHeld
    <2> QED BY <2>1 DEF ProviderHolders, WaitsFor, Free
<1>3. CASE provFree[p] # 0
    <2>1. provFree[p] > 0
        BY <1>1, <1>3 DEF PermitInv, PermitTypes
    <2>2. c \in ProviderWaiters(p)
        BY DEF ProviderWaiters
    <2>3. provQueue[p] \in Seq(Calls) /\ Lists(provQueue[p], ProviderWaiters(p))
        BY <1>1 DEF QueueInv
    <2>4. Head(provQueue[p]) \in ProviderWaiters(p)
        BY <2>2, <2>3, HeadListed
    <2>5. PICK d \in ProviderWaiters(p) : d = Head(provQueue[p])
        BY <2>4
    <2>6. d \in Calls /\ at[d] = "provider" /\ ProviderOf[d] = p
        BY DEF ProviderWaiters
    <2> QED BY <2>1, <2>5, <2>6 DEF WaitsFor, Free
<1> QED BY <1>2, <1>3

\* A call waits over at most two semaphores for a call that can go on.
LEMMA NobodyWaitsInACircle ==
    ASSUME PermitInv, QueueInv
    PROVE  NobodyDeadlocked
<1>1. ASSUME NEW c \in Calls, at[c] # "out"
      PROVE  \E d \in WaitsFor(c) : \E e \in WaitsFor(d) : Free(e)
    <2>1. \A d \in Calls : d \in WaitsFor(d)
        BY DEF WaitsFor
    <2>2. at[c] \in {"lookup", "in"} \/ at[c] = "provider" \/ at[c] = "principal"
        BY <1>1 DEF PermitInv, PermitTypes, Places
    <2>3. CASE at[c] \in {"lookup", "in"}
        BY <2>1, <2>3 DEF Free
    <2>4. CASE at[c] = "principal"
        BY <1>1, <2>1, <2>4, PrincipalServes
    <2>5. CASE at[c] = "provider"
        <3>1. PICK d \in WaitsFor(c) : Free(d) \/ at[d] = "principal"
            BY <1>1, <2>5, ProviderServes
        <3>2. d \in Calls
            BY DEF WaitsFor
        <3> QED BY <1>1, <2>1, <3>1, <3>2, PrincipalServes
    <2> QED BY <2>2, <2>3, <2>4, <2>5
<1> QED BY <1>1 DEF NobodyDeadlocked

-----------------------------------------------------------------------------
\* All that is invariant of the limiters, for whatever is built on them.
MadeType == made \in [Owners -> 0 .. MaxGen]
LimitersInv == PermitInv /\ QueueInv /\ MadeType

\* A new server has all permits and no waiters.
LEMMA LimitersInitially == LimitersInit => LimitersInv
BY PermitsInit, QueuesInitially, GenAssumption DEF LimitersInv, MadeType, LimitersInit

\* Each step of acquire() keeps the permits, the queues and the generations.
LEMMA LimitersInductive ==
    ASSUME LimitersInv, [LimitersNext]_limiterVars
    PROVE  LimitersInv'
<1>1. PermitInv' /\ QueueInv'
    BY PermitsInductive, QueuesInductive DEF LimitersInv
<1>2. MadeType'
    <2>1. ASSUME NEW c \in Calls, Lookup(c) PROVE MadeType'
        BY <2>1, GenAssumption, OwnerAssumption DEF LimitersInv, MadeType, Lookup, Gens
    <2>2. CASE UNCHANGED made
        BY <2>2 DEF LimitersInv, MadeType
    <2> QED BY <2>1, <2>2
            DEF LimitersNext, limiterVars, Enter, TakeProvider, TakePrincipal, Leave, Withdraw, Expire
<1> QED BY <1>1, <1>2 DEF LimitersInv

\* A semaphore never has more permits than its limit.
LEMMA LimitersTyped ==
    ASSUME LimitersInv
    PROVE  LimitersTypeOK
<1> USE DEF LimitersInv
<1>1. ASSUME NEW p \in Providers PROVE provFree[p] \in 0 .. ProviderLimit
    <2>1. Cardinality(ProviderHolders(p)) \in Nat
        BY CallsAssumption, FS_Subset, FS_CardinalityType DEF ProviderHolders
    <2>2. provFree[p] + Cardinality(ProviderHolders(p)) = ProviderLimit /\ provFree[p] \in Nat
        BY DEF PermitInv, PermitTypes, PermitsConserved
    <2> QED BY <2>1, <2>2, PermitAssumption
<1>2. ASSUME NEW s \in Owners \X Gens PROVE prinFree[s] \in 0 .. PrincipalLimit
    <2>1. PrincipalHolders(s) \in SUBSET Calls
        BY DEF PrincipalHolders
    <2>2. Cardinality(PrincipalHolders(s)) \in Nat
        BY <2>1, CallsAssumption, FS_Subset, FS_CardinalityType
    <2>3. prinFree[s] + Cardinality(PrincipalHolders(s)) = PrincipalLimit /\ prinFree[s] \in Nat
        BY DEF PermitInv, PermitTypes, PermitsConserved
    <2> QED BY <2>2, <2>3, PermitAssumption
<1>3. provFree \in [Providers -> 0 .. ProviderLimit]
    BY <1>1 DEF PermitInv, PermitTypes
<1>4. prinFree \in [Owners \X Gens -> 0 .. PrincipalLimit]
    BY <1>2 DEF PermitInv, PermitTypes
<1> QED BY <1>3, <1>4 DEF PermitInv, PermitTypes, QueueInv, MadeType, LimitersTypeOK

\* The limiters keep their types: a semaphore never has more permits than its
\* limit, whatever is cancelled.
THEOREM LimitersTypeCorrect == LimitersSpec => []LimitersTypeOK
BY LimitersInitially, LimitersInductive, LimitersTyped, PTL DEF LimitersSpec

\* Hold-and-wait over the two semaphores never closes a circle, and no waiter
\* is left behind a permit that is free.
THEOREM DeadlockCorrect == LimitersSpec => []NobodyDeadlocked
BY LimitersInitially, LimitersInductive, NobodyWaitsInACircle, PTL DEF LimitersSpec, LimitersInv
=============================================================================
