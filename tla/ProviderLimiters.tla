-------------------------- MODULE ProviderLimiters --------------------------
(***************************************************************************)
(* ProviderLimiters of runtime.py: one asyncio.Semaphore per provider and  *)
(* one per remote principal, the latter kept in a TTLCache.                *)
(*                                                                         *)
(* acquire() takes a permit of the provider first and then one of the      *)
(* principal, and gives both back when its body ends or is cancelled.      *)
(* Local callers skip the principal semaphore.  asyncio.Semaphore serves   *)
(* its waiters in order, and a waiter may be cancelled.                    *)
(*                                                                         *)
(* The cache drops a semaphore 24 hours after it was made, used or not, or *)
(* when more principals come than it holds.  Whoever obtained the dropped  *)
(* semaphore keeps using it; the next lookup makes another, its generation *)
(* one higher.                                                             *)
(***************************************************************************)
EXTENDS Callers, Waiters

CONSTANTS
    Providers,       \* provider keys
    ProviderOf,      \* the provider of each call
    LocalOwners,     \* owners of the stdio transport (AuthContext.is_local)
    ProviderLimit,   \* PROVIDER_MAX_CONCURRENCY
    PrincipalLimit,  \* PRINCIPAL_MAX_CONCURRENCY
    MaxGen           \* bound: semaphores made for one principal

ASSUME ProviderAssumption == ProviderOf \in [Calls -> Providers] /\ LocalOwners \subseteq Owners
ASSUME PermitAssumption == ProviderLimit \in Nat \ {0} /\ PrincipalLimit \in Nat \ {0}
ASSUME GenAssumption == MaxGen \in Nat \ {0}

VARIABLES
    at,          \* where each call is in acquire()
    provFree,    \* permits left in each provider semaphore
    provQueue,   \* its waiters, in order
    prinFree,    \* permits left in each principal semaphore
    prinQueue,   \* its waiters, in order
    cached,      \* generation of the principal's semaphore in the cache, 0 if none
    made,        \* generations made so far
    sem          \* generation of the principal semaphore each call obtained

limiterVars == <<at, provFree, provQueue, prinFree, prinQueue, cached, made, sem>>

-----------------------------------------------------------------------------
Gens == 1 .. MaxGen
Places == {"out", "lookup", "provider", "principal", "in"}
IsLocal(c) == OwnerOf[c] \in LocalOwners
PrincipalSem(c) == <<OwnerOf[c], sem[c]>>

LimitersTypeOK ==
    /\ at \in [Calls -> Places]
    /\ provFree \in [Providers -> 0 .. ProviderLimit]
    /\ provQueue \in [Providers -> Seq(Calls)]
    /\ prinFree \in [Owners \X Gens -> 0 .. PrincipalLimit]
    /\ prinQueue \in [Owners \X Gens -> Seq(Calls)]
    /\ cached \in [Owners -> 0 .. MaxGen]
    /\ made \in [Owners -> 0 .. MaxGen]
    /\ sem \in [Calls -> 0 .. MaxGen]

LimitersInit ==
    /\ at = [c \in Calls |-> "out"]
    /\ provFree = [p \in Providers |-> ProviderLimit]
    /\ provQueue = [p \in Providers |-> <<>>]
    /\ prinFree = [s \in Owners \X Gens |-> PrincipalLimit]
    /\ prinQueue = [s \in Owners \X Gens |-> <<>>]
    /\ cached = [o \in Owners |-> 0]
    /\ made = [o \in Owners |-> 0]
    /\ sem = [c \in Calls |-> 0]

-----------------------------------------------------------------------------
(* acquire()                                                               *)

\* A local call queues for its provider at once, a remote one first asks for
\* its principal's semaphore.
Enter(c) ==
    /\ at[c] = "out"
    /\ at' = [at EXCEPT ![c] = IF IsLocal(c) THEN "provider" ELSE "lookup"]
    /\ provQueue' = IF IsLocal(c) THEN [provQueue EXCEPT ![ProviderOf[c]] = Append(@, c)]
                    ELSE provQueue
    /\ UNCHANGED <<provFree, prinFree, prinQueue, cached, made, sem>>

\* principal(): get or create under the cache lock.
Lookup(c) ==
    LET o == OwnerOf[c]
        g == IF cached[o] = 0 THEN made[o] + 1 ELSE cached[o]
    IN  /\ at[c] = "lookup"
        /\ g \in Gens
        /\ cached' = [cached EXCEPT ![o] = g]
        /\ made' = [made EXCEPT ![o] = IF g > @ THEN g ELSE @]
        /\ sem' = [sem EXCEPT ![c] = g]
        /\ at' = [at EXCEPT ![c] = "provider"]
        /\ provQueue' = [provQueue EXCEPT ![ProviderOf[c]] = Append(@, c)]
        /\ UNCHANGED <<provFree, prinFree, prinQueue>>

TakeProvider(c) ==
    LET p == ProviderOf[c]
    IN  /\ at[c] = "provider"
        /\ provFree[p] > 0
        /\ Head(provQueue[p]) = c
        /\ provFree' = [provFree EXCEPT ![p] = @ - 1]
        /\ provQueue' = [provQueue EXCEPT ![p] = Tail(@)]
        /\ at' = [at EXCEPT ![c] = IF IsLocal(c) THEN "in" ELSE "principal"]
        /\ prinQueue' = IF IsLocal(c) THEN prinQueue
                        ELSE [prinQueue EXCEPT ![PrincipalSem(c)] = Append(@, c)]
        /\ UNCHANGED <<prinFree, cached, made, sem>>

TakePrincipal(c) ==
    LET s == PrincipalSem(c)
    IN  /\ at[c] = "principal"
        /\ prinFree[s] > 0
        /\ Head(prinQueue[s]) = c
        /\ prinFree' = [prinFree EXCEPT ![s] = @ - 1]
        /\ prinQueue' = [prinQueue EXCEPT ![s] = Tail(@)]
        /\ at' = [at EXCEPT ![c] = "in"]
        /\ UNCHANGED <<provFree, provQueue, cached, made, sem>>

\* Mutant: the provider's permit is not given back.
LeaveLeaking(c) ==
    /\ at[c] = "in"
    /\ at' = [at EXCEPT ![c] = "out"]
    /\ prinFree' = IF IsLocal(c) THEN prinFree
                   ELSE [prinFree EXCEPT ![PrincipalSem(c)] = @ + 1]
    /\ UNCHANGED <<provFree, provQueue, prinQueue, cached, made, sem>>

\* The body of acquire() ends, with a result or an exception.
Leave(c) ==
    /\ at[c] = "in"
    /\ at' = [at EXCEPT ![c] = "out"]
    /\ provFree' = [provFree EXCEPT ![ProviderOf[c]] = @ + 1]
    /\ prinFree' = IF IsLocal(c) THEN prinFree
                   ELSE [prinFree EXCEPT ![PrincipalSem(c)] = @ + 1]
    /\ UNCHANGED <<provQueue, prinQueue, cached, made, sem>>

\* Mutant: the provider's permit is lost when the principal's wait is cancelled.
WithdrawLeaking(c) ==
    /\ at[c] = "principal"
    /\ at' = [at EXCEPT ![c] = "out"]
    /\ prinQueue' = [prinQueue EXCEPT ![PrincipalSem(c)] = Without(@, c)]
    /\ UNCHANGED <<provFree, provQueue, prinFree, cached, made, sem>>

\* Mutant: a cancelled waiter stays in its queue.
WithdrawQueued(c) ==
    /\ at[c] \in {"lookup", "provider", "principal"}
    /\ at' = [at EXCEPT ![c] = "out"]
    /\ provFree' = IF at[c] = "principal"
                   THEN [provFree EXCEPT ![ProviderOf[c]] = @ + 1] ELSE provFree
    /\ UNCHANGED <<provQueue, prinFree, prinQueue, cached, made, sem>>

\* The task is cancelled before it is in: it leaves its queue, and gives the
\* provider's permit back if it was waiting for the principal's.
Withdraw(c) ==
    /\ at[c] \in {"lookup", "provider", "principal"}
    /\ at' = [at EXCEPT ![c] = "out"]
    /\ provQueue' = IF at[c] = "provider"
                    THEN [provQueue EXCEPT ![ProviderOf[c]] = Without(@, c)] ELSE provQueue
    /\ provFree' = IF at[c] = "principal"
                   THEN [provFree EXCEPT ![ProviderOf[c]] = @ + 1] ELSE provFree
    /\ prinQueue' = IF at[c] = "principal"
                    THEN [prinQueue EXCEPT ![PrincipalSem(c)] = Without(@, c)] ELSE prinQueue
    /\ UNCHANGED <<prinFree, cached, made, sem>>

\* TTL expiry or eviction from the cache of principal semaphores.
Expire(o) ==
    /\ cached[o] # 0
    /\ made[o] < MaxGen
    /\ cached' = [cached EXCEPT ![o] = 0]
    /\ UNCHANGED <<at, provFree, provQueue, prinFree, prinQueue, made, sem>>

LimitersNext ==
    \/ \E c \in Calls :
          Enter(c) \/ Lookup(c) \/ TakeProvider(c) \/ TakePrincipal(c) \/ Leave(c) \/ Withdraw(c)
    \/ \E o \in Owners : Expire(o)

\* The event loop runs a ready task, and every provider call ends: its HTTP
\* timeouts are finite and its retries few.
LimitersFairness ==
    \A c \in Calls : WF_limiterVars(Lookup(c) \/ TakeProvider(c) \/ TakePrincipal(c) \/ Leave(c))

LimitersSpec == LimitersInit /\ [][LimitersNext]_limiterVars
LimitersFairSpec == LimitersSpec /\ LimitersFairness

-----------------------------------------------------------------------------
(* Properties.                                                             *)

ProviderHolders(p) == {c \in Calls : ProviderOf[c] = p /\ at[c] \in {"principal", "in"}}
PrincipalHolders(s) == {c \in Calls : ~IsLocal(c) /\ PrincipalSem(c) = s /\ at[c] = "in"}

\* No permit is lost or made, however acquire() is left: normally, by an
\* exception, or cancelled in any of its waits.
PermitsConserved ==
    /\ \A p \in Providers : provFree[p] + Cardinality(ProviderHolders(p)) = ProviderLimit
    /\ \A s \in Owners \X Gens : prinFree[s] + Cardinality(PrincipalHolders(s)) = PrincipalLimit

\* No waiter is lost and none waits twice: a call is in a queue exactly when
\* its task is suspended in that semaphore's acquire().
QueuesAgree ==
    /\ \A p \in Providers, c \in Calls :
          Cardinality({i \in DOMAIN provQueue[p] : provQueue[p][i] = c}) =
            IF at[c] = "provider" /\ ProviderOf[c] = p THEN 1 ELSE 0
    /\ \A s \in Owners \X Gens, c \in Calls :
          Cardinality({i \in DOMAIN prinQueue[s] : prinQueue[s][i] = c}) =
            IF at[c] = "principal" /\ PrincipalSem(c) = s THEN 1 ELSE 0

\* The calls that can go on by themselves: those that look up a semaphore,
\* whose turn it is, or that have their permits.
Free(c) ==
    \/ at[c] \in {"lookup", "in"}
    \/ at[c] = "provider" /\ provFree[ProviderOf[c]] > 0 /\ Head(provQueue[ProviderOf[c]]) = c
    \/ at[c] = "principal" /\ prinFree[PrincipalSem(c)] > 0 /\ Head(prinQueue[PrincipalSem(c)]) = c

\* The calls that c waits for: those with or before a permit of the semaphore
\* that it asks for, itself among them.
WaitsFor(c) ==
    {d \in Calls :
       \/ d = c
       \/ /\ at[c] = "provider" /\ ProviderOf[d] = ProviderOf[c]
          /\ at[d] \in {"provider", "principal", "in"}
       \/ /\ at[c] = "principal" /\ PrincipalSem(d) = PrincipalSem(c)
          /\ at[d] \in {"principal", "in"}}

\* Two semaphores taken one after the other cannot deadlock: whoever is in
\* acquire() waits, over at most two semaphores, for a call that can go on,
\* and no permit lies idle in front of a queue.
NobodyDeadlocked ==
    \A c \in Calls : at[c] # "out" => \E d \in WaitsFor(c) : \E e \in WaitsFor(d) : Free(e)

\* Holding a provider's permit while waiting for the principal's cannot lock
\* anybody out: a call that asks for its permits gets them or withdraws.
EveryCallerServed ==
    \A c \in Calls : at[c] # "out" ~> at[c] \in {"in", "out"}
=============================================================================
