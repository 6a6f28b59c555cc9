-------------------------- MODULE PersistenceLocks --------------------------
(***************************************************************************)
(* TaskArtifactPersistenceLocks of runtime.py: one lock entry per provider *)
(* task, made by the first poller that asks for it, counted by its users,  *)
(* and dropped from the registry when the last of them leaves.  An entry   *)
(* also carries the artifacts that its users have just persisted.          *)
(*                                                                         *)
(* The registry's own lock never suspends a coroutine: its body does not   *)
(* await, so each visit of the registry is one step.  asyncio.Lock serves  *)
(* its waiters in order, and a waiter may be cancelled.                    *)
(***************************************************************************)
EXTENDS Waiters, FiniteSets

CONSTANTS
    Pollers,     \* coroutines that poll tasks
    Tasks,       \* (provider, task_id) pairs
    Entries,     \* identities of the lock entries alive at once
    Nobody       \* no poller, no entry

ASSUME LocksAssumption == Nobody \notin Pollers \cup Entries \cup Tasks
ASSUME PollersAssumption == IsFiniteSet(Pollers)

VARIABLES
    entries,     \* the registry: the entry of each task
    mine,        \* the entry that each poller asked for
    holder,      \* who holds each entry's lock
    waiters,     \* who waits for it, in order
    users        \* how many asked for it and have not left

lockVars == <<entries, mine, holder, waiters, users>>

-----------------------------------------------------------------------------
LocksTypeOK ==
    /\ entries \in [Tasks -> Entries \cup {Nobody}]
    /\ mine \in [Pollers -> Entries \cup {Nobody}]
    /\ holder \in [Entries -> Pollers \cup {Nobody}]
    /\ waiters \in [Entries -> Seq(Pollers)]
    /\ users \in [Entries -> Nat]

LocksInit ==
    /\ entries = [t \in Tasks |-> Nobody]
    /\ mine = [p \in Pollers |-> Nobody]
    /\ holder = [e \in Entries |-> Nobody]
    /\ waiters = [e \in Entries |-> <<>>]
    /\ users = [e \in Entries |-> 0]

UsersOf(e) == {p \in Pollers : mine[p] = e}

\* A new object: no task and no poller refers to it.
Fresh(e) == UsersOf(e) = {} /\ \A t \in Tasks : entries[t] # e

-----------------------------------------------------------------------------
\* acquire(): find or make the entry, count its user, queue for its lock.
Ask(p, t) ==
    /\ mine[p] = Nobody
    /\ \E e \in Entries :
          /\ IF entries[t] = Nobody THEN Fresh(e) ELSE e = entries[t]
          /\ entries' = [entries EXCEPT ![t] = e]
          /\ mine' = [mine EXCEPT ![p] = e]
          /\ users' = [users EXCEPT ![e] = @ + 1]
          /\ waiters' = [waiters EXCEPT ![e] = Append(@, p)]
    /\ UNCHANGED holder

CanTake(p) ==
    /\ mine[p] # Nobody
    /\ holder[mine[p]] = Nobody
    /\ waiters[mine[p]] # <<>> /\ Head(waiters[mine[p]]) = p

Take(p) ==
    /\ CanTake(p)
    /\ holder' = [holder EXCEPT ![mine[p]] = p]
    /\ waiters' = [waiters EXCEPT ![mine[p]] = Tail(@)]
    /\ UNCHANGED <<entries, mine, users>>

Holds(p) == mine[p] # Nobody /\ holder[mine[p]] = p

\* The holder is in no queue any more.
LeaveQueue(p) ==
    waiters' = IF Holds(p) THEN waiters ELSE [waiters EXCEPT ![mine[p]] = Without(@, p)]

Unlock(p) == holder' = IF Holds(p) THEN [holder EXCEPT ![mine[p]] = Nobody] ELSE holder

\* Mutant: the lock is not released.
ReleaseNothing(p) == LeaveQueue(p) /\ holder' = holder

\* async with entry.lock ends, or a waiter leaves the queue.
Release(p) == Unlock(p) /\ LeaveQueue(p)

\* Mutants: a cancelled waiter stays counted; the entry goes with its holder.
UncountHolder(p) == users' = IF Holds(p) THEN [users EXCEPT ![mine[p]] = @ - 1] ELSE users
DropOnRelease(p, t) == entries' = IF Holds(p) THEN [entries EXCEPT ![t] = Nobody] ELSE entries

Uncount(p) == users' = [users EXCEPT ![mine[p]] = @ - 1]

DropUnused(p, t) ==
    entries' = IF users'[mine[p]] = 0 THEN [entries EXCEPT ![t] = Nobody] ELSE entries

\* The body ends, or the coroutine is cancelled in it or while it waits: the
\* last user of the entry takes it out of the registry.
Quit(p, t) ==
    /\ mine[p] # Nobody
    /\ Release(p)
    /\ Uncount(p)
    /\ DropUnused(p, t)
    /\ mine' = [mine EXCEPT ![p] = Nobody]

-----------------------------------------------------------------------------
\* The registry counts right, through cancellations: an entry is registered
\* exactly while somebody uses it, and its count says how many do.  The lock is
\* passed on to each of them: whoever uses the entry holds its lock or stands in
\* its queue, once, whoever else was cancelled in whichever place of it, and
\* nobody that left holds the lock or is still queued for it.
EntriesAreUsed ==
    \A e \in Entries :
        /\ users[e] = Cardinality(UsersOf(e))
        /\ UsersOf(e) # {} <=> \E t \in Tasks : entries[t] = e
        /\ holder[e] # Nobody => holder[e] \in UsersOf(e)
        /\ Lists(waiters[e], UsersOf(e) \ {holder[e]})
=============================================================================
