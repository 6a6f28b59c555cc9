------------------------ MODULE TaskArtifactsProofs ------------------------
(***************************************************************************)
(* Pollers, rows and artifacts, for any number of them, whatever is        *)
(* cancelled or fails and wherever the process dies: the lock registry     *)
(* works, what the table hands out is stored, and a flight copies only     *)
(* what nobody has.                                                        *)
(***************************************************************************)
EXTENDS TaskArtifacts, WaitersProofs, FiniteSetTheorems, TLAPS

-----------------------------------------------------------------------------
(* The inductive invariant.                                                *)

Places == {"idle", "queued"} \cup Working

RegistryType ==
    /\ entries \in [Tasks -> Entries \cup {Nobody}]
    /\ mine \in [Pollers -> Entries \cup {Nobody}]
    /\ holder \in [Entries -> Pollers \cup {Nobody}]
    /\ users \in [Entries -> Nat]
    /\ at \in [Pollers -> Places]
    /\ task \in [Pollers -> Tasks \cup {Nobody}]

\* A poller polls some task, and has an entry exactly while it polls a flight.
EntryInFlight ==
    \A p \in Pollers :
        /\ at[p] # "idle" => task[p] \in Tasks
        /\ mine[p] # Nobody <=> at[p] # "idle" /\ InFlight(p)

\* The entry that a poller uses is the registered one.
MineIsRegistered == \A p \in Pollers : mine[p] # Nobody => entries[task[p]] = mine[p]

\* An entry belongs to one task, and somebody uses it.
EntriesDiffer ==
    \A t, u \in Tasks : entries[t] # Nobody /\ entries[t] = entries[u] => t = u
RegisteredIsUsed ==
    \A t \in Tasks : entries[t] # Nobody => UsersOf(entries[t]) # {}

UsersCounted == \A e \in Entries : users[e] = Cardinality(UsersOf(e))

\* Whoever works in a flight holds the entry's lock.
WorkingHolds == \A p \in Pollers : at[p] \in Working /\ InFlight(p) => holder[mine[p]] = p

RegistryInv ==
    /\ RegistryType /\ EntryInFlight
    /\ MineIsRegistered /\ EntriesDiffer /\ RegisteredIsUsed
    /\ UsersCounted /\ WorkingHolds

-----------------------------------------------------------------------------
(* What a step can do to the registry and to the pollers' places.          *)

Nothing == UNCHANGED <<lockVars, at, task>>

Moves(p) ==
    /\ at[p] \in Working
    /\ \E a \in Working : at' = [at EXCEPT ![p] = a]
    /\ UNCHANGED <<lockVars, task>>

Begins(p, t) ==
    /\ at[p] = "idle"
    /\ task' = [task EXCEPT ![p] = t]
    /\ IF ProtocolOf[t] = "flight"
       THEN Ask(p, t) /\ at' = [at EXCEPT ![p] = "queued"]
       ELSE UNCHANGED lockVars /\ at' = [at EXCEPT ![p] = "read"]

Enters(p) ==
    /\ at[p] = "queued"
    /\ Take(p)
    /\ at' = [at EXCEPT ![p] = "read"]
    /\ UNCHANGED task

Ends(p) ==
    /\ at[p] # "idle"
    /\ at' = [at EXCEPT ![p] = "idle"]
    /\ task' = [task EXCEPT ![p] = Nobody]
    /\ IF mine[p] = Nobody THEN UNCHANGED lockVars ELSE Quit(p, task[p])

Dies ==
    /\ entries' = [t \in Tasks |-> Nobody]
    /\ mine' = [p \in Pollers |-> Nobody]
    /\ holder' = [e \in Entries |-> Nobody]
    /\ waiters' = [e \in Entries |-> <<>>]
    /\ users' = [e \in Entries |-> 0]
    /\ at' = [p \in Pollers |-> "idle"]
    /\ task' = [p \in Pollers |-> Nobody]

RegistryStep ==
    \/ Nothing \/ Dies
    \/ \E p \in Pollers : Moves(p) \/ Enters(p) \/ Ends(p) \/ \E t \in Tasks : Begins(p, t)

\* A poll that finishes ends.
LEMMA FinishEnds ==
    ASSUME NEW p \in Pollers, at[p] # "idle", NEW m, Finish(p, m)
    PROVE  Ends(p)
  BY DEF Finish, Ends, lockVars

\* A track that is done ends the poll or leads to the next track.
LEMMA AdvanceSteps ==
    ASSUME NEW p \in Pollers, at[p] \in Working, Advance(p)
    PROVE  Ends(p) \/ Moves(p)
  <1>1. CASE Len(todo[p]) = 1
    <2>1. End(p)
      BY <1>1 DEF Advance
    <2> QED
      BY <2>1, FinishEnds DEF End, Working
  <1>2. CASE Len(todo[p]) # 1
    BY <1>2 DEF Advance, Moves, Working, lockVars
  <1> QED
    BY <1>1, <1>2

\* A copy ends the poll, or work goes on.
LEMMA AfterCopySteps ==
    ASSUME RegistryInv, NEW p \in Pollers, at[p] = "copy", NEW r, AfterCopy(p, r)
    PROVE  Ends(p) \/ Moves(p)
  <1>1. CASE ProtocolOf[task[p]] = "whole" /\ Len(todo[p]) > 1
    <2>1. at' = [at EXCEPT ![p] = "copy"]
      BY <1>1 DEF AfterCopy, RegistryInv, RegistryType
    <2> QED
      BY <1>1, <2>1 DEF AfterCopy, Moves, Working, lockVars
  <1>2. CASE /\ ~(ProtocolOf[task[p]] = "whole" /\ Len(todo[p]) > 1)
             /\ ProtocolOf[task[p]] = "whole" /\ ~Complete(p, r)
    <2>1. End(p)
      BY <1>2 DEF AfterCopy
    <2> QED
      BY <2>1, FinishEnds DEF End
  <1>3. CASE /\ ~(ProtocolOf[task[p]] = "whole" /\ Len(todo[p]) > 1)
             /\ ~(ProtocolOf[task[p]] = "whole" /\ ~Complete(p, r))
    BY <1>3 DEF AfterCopy, Moves, Working, lockVars
  <1> QED
    BY <1>1, <1>2, <1>3

\* A poller's own steps are of these kinds, as far as the registry and the
\* pollers' places go.
LEMMA StepsOfPollers ==
    ASSUME RegistryInv, NEW p \in Pollers, Step(p)
    PROVE  Enters(p) \/ Ends(p) \/ Moves(p)
  <1>1. CASE Share(p)
    BY <1>1, FinishEnds DEF Share, End
  <1>2. CASE Enter(p)
    BY <1>2 DEF Enter, Enters
  <1>3. CASE ReadHit(p)
    <2>1. at[p] = "read" /\ (Advance(p) \/ \E m : Finish(p, m))
      BY <1>3 DEF ReadHit, End
    <2> QED
      BY <2>1, FinishEnds, AdvanceSteps DEF Working
  <1>4. CASE ReadMiss(p)
    BY <1>4 DEF ReadMiss, StartCopy, Moves, Working, lockVars
  <1>5. CASE ReadFails(p)
    <2>1. CASE InFlight(p)
      BY <1>5, <2>1 DEF ReadFails, StartCopy, Moves, Working, lockVars
    <2>2. CASE ~InFlight(p)
      BY <1>5, <2>2, FinishEnds DEF ReadFails, End
    <2> QED
      BY <2>1, <2>2
  <1>6. CASE Copy(p)
    BY <1>6, AfterCopySteps DEF Copy
  <1>7. CASE CopyFails(p)
    <2>1. at[p] = "copy" /\ (End(p) \/ AfterCopy(p, refs[p]) \/ Advance(p))
      BY <1>7 DEF CopyFails
    <2> QED
      BY <2>1, FinishEnds, AdvanceSteps, AfterCopySteps DEF End, Working
  <1>8. CASE Write(p)
    <2>1. at[p] = "write" /\ (End(p) \/ Advance(p))
      BY <1>8 DEF Write
    <2> QED
      BY <2>1, FinishEnds, AdvanceSteps DEF End, Working
  <1>9. CASE WriteFails(p)
    BY <1>9, FinishEnds DEF WriteFails, End
  <1> QED
    BY <1>1, <1>2, <1>3, <1>4, <1>5, <1>6, <1>7, <1>8, <1>9 DEF Step

\* So is every step of the specification.
LEMMA StepsOfRegistry ==
    ASSUME RegistryInv, [Next]_vars
    PROVE  RegistryStep
  <1>1. CASE UNCHANGED vars
    BY <1>1 DEF vars, lockVars, pollVars, RegistryStep, Nothing
  <1>2. ASSUME NEW p \in Pollers, Step(p)
        PROVE  RegistryStep
    BY <1>2, StepsOfPollers DEF RegistryStep
  <1>3. ASSUME NEW p \in Pollers, Cancel(p)
        PROVE  RegistryStep
    BY <1>3, FinishEnds DEF Cancel, End, RegistryStep
  <1>4. ASSUME NEW p \in Pollers, NEW t \in Tasks, Begin(p, t)
        PROVE  RegistryStep
    BY <1>4 DEF Begin, RegistryStep, Begins
  <1>5. ASSUME NEW w \in late, LateWrite(w)
        PROVE  RegistryStep
    BY <1>5 DEF LateWrite, RegistryStep, Nothing, lockVars
  <1>6. CASE Crash
    BY <1>6 DEF Crash, RegistryStep, Dies
  <1>7. CASE Tick \/ SweepArtifacts \/ PruneCache
    BY <1>7 DEF Tick, SweepArtifacts, PruneCache, RegistryStep, Nothing, lockVars, pollVars
  <1> QED
    BY <1>1, <1>2, <1>3, <1>4, <1>5, <1>6, <1>7 DEF Next

-----------------------------------------------------------------------------
(* Each kind of step keeps the invariant.                                  *)

\* Users of an entry: one more, one fewer.
LEMMA OneUserMore ==
    ASSUME NEW S \in SUBSET Pollers, NEW p \in Pollers, p \notin S
    PROVE  Cardinality(S \cup {p}) = Cardinality(S) + 1 /\ Cardinality(S) \in Nat
  <1>1. IsFiniteSet(S)
    BY PollersAssumption, FS_Subset
  <1> QED
    BY <1>1, FS_AddElement, FS_CardinalityType

\* The same when a user leaves.
LEMMA OneUserLess ==
    ASSUME NEW S \in SUBSET Pollers, NEW p \in S
    PROVE  /\ Cardinality(S \ {p}) = Cardinality(S) - 1
           /\ Cardinality(S) \in Nat
           /\ Cardinality(S \ {p}) = 0 <=> S = {p}
  <1>1. IsFiniteSet(S) /\ IsFiniteSet(S \ {p})
    BY PollersAssumption, FS_Subset
  <1>2. Cardinality(S \ {p}) = Cardinality(S) - 1
    BY <1>1, FS_RemoveElement
  <1>3. Cardinality(S \ {p}) = 0 <=> S \ {p} = {}
    BY <1>1, FS_EmptySet
  <1> QED
    BY <1>1, <1>2, <1>3, FS_CardinalityType

\* Work that goes on leaves the registry alone.
LEMMA MovingKeeps ==
    ASSUME RegistryInv, Nothing \/ \E p \in Pollers : Moves(p)
    PROVE  RegistryInv'
  <1>1. /\ UNCHANGED <<entries, mine, holder, users, task>>
        /\ at' \in [Pollers -> Places]
        /\ \A p \in Pollers : (at'[p] = at[p]) \/ (at[p] \in Working /\ at'[p] \in Working)
    BY DEF Nothing, Moves, lockVars, RegistryInv, RegistryType, Places, Working
  <1>2. RegistryType'
    BY <1>1 DEF RegistryInv, RegistryType
  <1>3. EntryInFlight' /\ MineIsRegistered' /\ WorkingHolds'
    BY <1>1 DEF RegistryInv, EntryInFlight, MineIsRegistered, WorkingHolds, InFlight, Working
  <1>4. EntriesDiffer' /\ RegisteredIsUsed' /\ UsersCounted'
    BY <1>1 DEF RegistryInv, EntriesDiffer, RegisteredIsUsed, UsersCounted, UsersOf
  <1> QED
    BY <1>2, <1>3, <1>4 DEF RegistryInv

\* The lock is taken only from nobody.
LEMMA EnteringKeeps ==
    ASSUME RegistryInv, NEW p \in Pollers, Enters(p)
    PROVE  RegistryInv'
  <1> DEFINE e == mine[p]
  <1> USE DEF RegistryInv
  <1>1. e \in Entries /\ holder[e] = Nobody
    BY DEF Enters, Take, CanTake, RegistryType
  <1>2. /\ UNCHANGED <<entries, mine, users, task>>
        /\ at' = [at EXCEPT ![p] = "read"]
        /\ holder' = [holder EXCEPT ![e] = p]
    BY DEF Enters, Take
  <1>3. RegistryType'
    BY <1>1, <1>2 DEF RegistryType, Places, Working
  <1>4. EntryInFlight' /\ MineIsRegistered'
    BY <1>2 DEF EntryInFlight, MineIsRegistered, InFlight, RegistryType, Enters
  <1>5. EntriesDiffer' /\ RegisteredIsUsed' /\ UsersCounted'
    BY <1>2 DEF EntriesDiffer, RegisteredIsUsed, UsersCounted, UsersOf
  <1>6. ASSUME NEW q \in Pollers, at'[q] \in Working, InFlight(q)'
        PROVE  holder'[mine'[q]] = q
    <2>1. CASE q = p
      BY <1>1, <1>2, <2>1 DEF RegistryType
    <2>2. CASE q # p
      <3>1. at[q] \in Working /\ InFlight(q)
        BY <1>2, <1>6, <2>2 DEF InFlight, RegistryType
      <3>2. holder[mine[q]] = q
        BY <3>1 DEF WorkingHolds
      <3>3. mine[q] # e
        BY <1>1, <3>2, LocksAssumption
      <3> QED
        BY <1>1, <1>2, <3>2, <3>3 DEF RegistryType
    <2> QED
      BY <2>1, <2>2
  <1> QED
    BY <1>3, <1>4, <1>5, <1>6 DEF WorkingHolds

\* A crash empties everything.
LEMMA DyingKeeps ==
    ASSUME RegistryInv, Dies
    PROVE  RegistryInv'
  <1>1. RegistryType'
    BY DEF Dies, RegistryType, Places
  <1>2. EntryInFlight' /\ MineIsRegistered' /\ WorkingHolds'
    BY DEF Dies, EntryInFlight, MineIsRegistered, WorkingHolds, InFlight, Working
  <1>3. EntriesDiffer' /\ RegisteredIsUsed'
    BY DEF Dies, EntriesDiffer, RegisteredIsUsed
  <1>4. ASSUME NEW e \in Entries
        PROVE  users'[e] = Cardinality(UsersOf(e)')
    <2>1. UsersOf(e)' = {}
      BY LocksAssumption DEF Dies, UsersOf
    <2> QED
      BY <2>1, FS_EmptySet DEF Dies
  <1> QED
    BY <1>1, <1>2, <1>3, <1>4 DEF RegistryInv, UsersCounted

\* A poll begins: outside the registry, or with the task's entry or a new one.
LEMMA BeginningKeeps ==
    ASSUME RegistryInv, NEW p \in Pollers, NEW t \in Tasks, Begins(p, t)
    PROVE  RegistryInv'
  <1> USE DEF RegistryInv
  <1>1. at[p] = "idle" /\ mine[p] = Nobody /\ task' = [task EXCEPT ![p] = t]
    BY DEF Begins, EntryInFlight
  <1>2. CASE ProtocolOf[t] # "flight"
    <2>1. /\ UNCHANGED <<entries, mine, holder, users>>
          /\ at' = [at EXCEPT ![p] = "read"]
      BY <1>2 DEF Begins, lockVars
    <2>2. RegistryType'
      BY <1>1, <2>1 DEF RegistryType, Places, Working
    <2>3. EntryInFlight' /\ MineIsRegistered'
      BY <1>1, <1>2, <2>1 DEF EntryInFlight, MineIsRegistered, InFlight, RegistryType
    <2>4. WorkingHolds'
      BY <1>1, <1>2, <2>1 DEF WorkingHolds, InFlight, RegistryType
    <2>5. EntriesDiffer' /\ RegisteredIsUsed' /\ UsersCounted'
      BY <2>1 DEF EntriesDiffer, RegisteredIsUsed, UsersCounted, UsersOf
    <2> QED
      BY <2>2, <2>3, <2>4, <2>5
  <1>3. CASE ProtocolOf[t] = "flight"
    <2>1. PICK e \in Entries :
              /\ IF entries[t] = Nobody THEN Fresh(e) ELSE e = entries[t]
              /\ entries' = [entries EXCEPT ![t] = e]
              /\ mine' = [mine EXCEPT ![p] = e]
              /\ users' = [users EXCEPT ![e] = @ + 1]
      BY <1>3 DEF Begins, Ask
    <2>2. holder' = holder /\ at' = [at EXCEPT ![p] = "queued"]
      BY <1>3 DEF Begins, Ask
    <2>3. e # Nobody
      BY LocksAssumption
    <2>4. RegistryType'
      BY <1>1, <2>1, <2>2 DEF RegistryType, Places
    <2>5. EntryInFlight'
      BY <1>1, <1>3, <2>1, <2>2, <2>3 DEF EntryInFlight, InFlight, RegistryType
    <2>6. \A u \in Tasks : u # t => entries[u] # e
      BY <2>1, <2>3 DEF Fresh, EntriesDiffer
    <2>7. MineIsRegistered'
      <3>1. ASSUME NEW q \in Pollers, mine'[q] # Nobody, q # p
            PROVE  entries'[task'[q]] = mine'[q]
        <4>1. mine[q] # Nobody /\ mine'[q] = mine[q] /\ task'[q] = task[q] /\ task[q] \in Tasks
          BY <1>1, <2>1, <3>1 DEF RegistryType, EntryInFlight
        <4>2. entries[task[q]] = mine[q]
          BY <4>1 DEF MineIsRegistered
        <4>3. CASE task[q] = t
          BY <2>1, <4>1, <4>2, <4>3 DEF RegistryType
        <4>4. CASE task[q] # t
          BY <2>1, <4>1, <4>2, <4>4 DEF RegistryType
        <4> QED
          BY <4>3, <4>4
      <3>2. entries'[task'[p]] = mine'[p]
        BY <1>1, <2>1 DEF RegistryType
      <3> QED
        BY <3>1, <3>2 DEF MineIsRegistered
    <2>8. EntriesDiffer'
      BY <2>1, <2>6 DEF EntriesDiffer, RegistryType
    <2>9. UsersOf(e)' = UsersOf(e) \cup {p} /\ p \notin UsersOf(e)
      BY <1>1, <2>1, <2>3 DEF UsersOf, RegistryType
    <2>10. ASSUME NEW f \in Entries, f # e
           PROVE  UsersOf(f)' = UsersOf(f)
      BY <1>1, <2>1, <2>10, LocksAssumption DEF UsersOf, RegistryType
    <2>11. RegisteredIsUsed'
      <3>1. ASSUME NEW u \in Tasks, entries'[u] # Nobody
            PROVE  UsersOf(entries[u])' # {}
        <4>1. CASE entries'[u] = e
          BY <2>9, <4>1 DEF UsersOf
        <4>2. CASE entries'[u] # e
          <5>1. entries'[u] = entries[u] /\ entries[u] \in Entries
            BY <2>1, <3>1, <4>2 DEF RegistryType
          <5>2. UsersOf(entries[u]) # {}
            BY <3>1, <5>1 DEF RegisteredIsUsed
          <5>3. \A q \in UsersOf(entries[u]) : q # p
            BY <1>1, <5>1, LocksAssumption DEF UsersOf
          <5> QED
            BY <2>1, <5>1, <5>2, <5>3 DEF UsersOf, RegistryType
        <4> QED
          BY <4>1, <4>2
      <3> QED
        BY <3>1 DEF RegisteredIsUsed
    <2>12. UsersCounted'
      <3>1. users'[e] = Cardinality(UsersOf(e)')
        <4>1. UsersOf(e) \subseteq Pollers
          BY DEF UsersOf
        <4> QED
          BY <2>1, <2>9, <4>1, OneUserMore DEF UsersCounted, RegistryType
      <3>2. ASSUME NEW f \in Entries, f # e
            PROVE  users'[f] = Cardinality(UsersOf(f)')
        BY <2>1, <2>10, <3>2 DEF UsersCounted, RegistryType
      <3> QED
        BY <3>1, <3>2 DEF UsersCounted
    <2>13. WorkingHolds'
      BY <1>1, <2>1, <2>2 DEF WorkingHolds, InFlight, RegistryType, Working
    <2> QED
      BY <2>4, <2>5, <2>7, <2>8, <2>11, <2>12, <2>13
  <1> QED
    BY <1>2, <1>3

\* A poll ends: the last user of an entry takes it out of the registry, any
\* other leaves the entry registered for those who still use it.
LEMMA EndingKeeps ==
    ASSUME RegistryInv, NEW p \in Pollers, Ends(p)
    PROVE  RegistryInv'
  <1> USE DEF RegistryInv
  <1>1. /\ at' = [at EXCEPT ![p] = "idle"]
        /\ task' = [task EXCEPT ![p] = Nobody]
    BY DEF Ends
  <1>2. CASE mine[p] = Nobody
    <2>1. UNCHANGED <<entries, mine, holder, users>>
      BY <1>2 DEF Ends, lockVars
    <2>2. RegistryType'
      BY <1>1, <2>1 DEF RegistryType, Places
    <2>3. EntryInFlight' /\ MineIsRegistered'
      BY <1>1, <1>2, <2>1 DEF EntryInFlight, MineIsRegistered, InFlight, RegistryType
    <2>4. WorkingHolds'
      BY <1>1, <2>1 DEF WorkingHolds, InFlight, RegistryType, Working
    <2>5. EntriesDiffer' /\ RegisteredIsUsed' /\ UsersCounted'
      BY <2>1 DEF EntriesDiffer, RegisteredIsUsed, UsersCounted, UsersOf
    <2> QED
      BY <2>2, <2>3, <2>4, <2>5
  <1>3. CASE mine[p] # Nobody
    <2>0. PICK e \in Entries, t \in Tasks : e = mine[p] /\ t = task[p]
      BY <1>3 DEF RegistryType, EntryInFlight
    <2>1. entries[t] = e /\ e # Nobody
      BY <1>3, <2>0 DEF MineIsRegistered
    <2>2. /\ holder' = IF Holds(p) THEN [holder EXCEPT ![e] = Nobody] ELSE holder
          /\ users' = [users EXCEPT ![e] = @ - 1]
          /\ entries' = IF users'[e] = 0 THEN [entries EXCEPT ![t] = Nobody] ELSE entries
          /\ mine' = [mine EXCEPT ![p] = Nobody]
      BY <1>3, <2>0 DEF Ends, Quit, Release, Unlock, Uncount, DropUnused
    <2>3. p \in UsersOf(e) /\ UsersOf(e) \subseteq Pollers
      BY <2>0 DEF UsersOf
    <2>4. UsersOf(e)' = UsersOf(e) \ {p}
      BY <2>0, <2>1, <2>2 DEF UsersOf, RegistryType
    <2>5. /\ users'[e] = Cardinality(UsersOf(e)')
          /\ users'[e] \in Nat
          /\ users'[e] = 0 <=> UsersOf(e) = {p}
      <3>1. users'[e] = Cardinality(UsersOf(e)) - 1
        BY <2>1, <2>2 DEF UsersCounted, RegistryType
      <3>2. /\ Cardinality(UsersOf(e) \ {p}) = Cardinality(UsersOf(e)) - 1
            /\ Cardinality(UsersOf(e) \ {p}) = 0 <=> UsersOf(e) = {p}
        BY <2>3, OneUserLess
      <3>3. Cardinality(UsersOf(e) \ {p}) \in Nat
        BY <2>3, PollersAssumption, FS_Subset, FS_CardinalityType
      <3> QED
        BY <2>4, <3>1, <3>2, <3>3
    <2>6. ASSUME NEW f \in Entries, f # e
          PROVE  UsersOf(f)' = UsersOf(f)
      BY <2>0, <2>2, <2>6, LocksAssumption DEF UsersOf, RegistryType
    <2>7. UsersCounted'
      <3>1. ASSUME NEW f \in Entries, f # e
            PROVE  users'[f] = Cardinality(UsersOf(f)')
        BY <2>2, <2>6, <3>1 DEF UsersCounted, RegistryType
      <3> QED
        BY <2>5, <3>1 DEF UsersCounted
    <2>8. RegistryType'
      <3>1. users' \in [Entries -> Nat]
        BY <2>1, <2>2, <2>5 DEF RegistryType
      <3>2. entries' \in [Tasks -> Entries \cup {Nobody}]
        BY <2>1, <2>2 DEF RegistryType
      <3>3. holder' \in [Entries -> Pollers \cup {Nobody}]
        BY <2>1, <2>2 DEF RegistryType
      <3> QED
        BY <1>1, <2>2, <3>1, <3>2, <3>3 DEF RegistryType, Places
    <2>9. EntryInFlight'
      BY <1>1, <2>0, <2>2 DEF EntryInFlight, InFlight, RegistryType
    <2>10. MineIsRegistered'
      <3>1. ASSUME NEW q \in Pollers, mine'[q] # Nobody
            PROVE  entries'[task'[q]] = mine'[q]
        <4>1. q # p /\ mine'[q] = mine[q] /\ mine[q] # Nobody /\ task'[q] = task[q]
          BY <1>1, <2>0, <2>2, <3>1 DEF RegistryType
        <4>2. task[q] \in Tasks /\ entries[task[q]] = mine[q]
          BY <4>1 DEF EntryInFlight, MineIsRegistered
        <4>3. CASE users'[e] = 0
          <5>1. mine[q] # e
            BY <2>5, <4>1, <4>3 DEF UsersOf
          <5>2. task[q] # t
            BY <2>1, <4>2, <5>1
          <5> QED
            BY <2>2, <4>1, <4>2, <4>3, <5>2 DEF RegistryType
        <4>4. CASE users'[e] # 0
          BY <2>2, <4>1, <4>2, <4>4
        <4> QED
          BY <4>3, <4>4
      <3> QED
        BY <3>1 DEF MineIsRegistered
    <2>11. \A u \in Tasks : entries'[u] # Nobody => entries'[u] = entries[u]
      BY <2>1, <2>2 DEF RegistryType
    <2>12. EntriesDiffer'
      BY <2>11 DEF EntriesDiffer
    <2>13. RegisteredIsUsed'
      <3>1. ASSUME NEW u \in Tasks, entries'[u] # Nobody
            PROVE  UsersOf(entries[u])' # {}
        <4>1. entries'[u] = entries[u] /\ entries[u] \in Entries
          BY <2>11, <3>1 DEF RegistryType
        <4>2. UsersOf(entries[u]) # {}
          BY <3>1, <4>1 DEF RegisteredIsUsed
        <4>3. CASE entries[u] = e
          <5>1. u = t
            BY <2>1, <4>3 DEF EntriesDiffer
          <5>2. users'[e] # 0
            BY <2>1, <2>2, <3>1, <5>1 DEF RegistryType
          <5>3. UsersOf(e)' # {}
            BY <2>5, <5>2, FS_EmptySet
          <5> QED
            BY <4>1, <4>3, <5>3 DEF UsersOf
        <4>4. CASE entries[u] # e
          <5>1. \A q \in UsersOf(entries[u]) : q # p
            BY <2>0, <4>4 DEF UsersOf
          <5> QED
            BY <2>2, <4>1, <4>2, <5>1 DEF UsersOf, RegistryType
        <4> QED
          BY <4>3, <4>4
      <3> QED
        BY <3>1 DEF RegisteredIsUsed
    <2>14. WorkingHolds'
      <3>1. ASSUME NEW q \in Pollers, at'[q] \in Working, InFlight(q)'
            PROVE  holder'[mine'[q]] = q
        <4>1. q # p /\ at[q] \in Working /\ InFlight(q) /\ mine'[q] = mine[q]
          BY <1>1, <2>2, <3>1 DEF InFlight, RegistryType, Working
        <4>2. holder[mine[q]] = q
          BY <4>1 DEF WorkingHolds
        <4>3. CASE Holds(p)
          <5>1. mine[q] # e
            BY <2>0, <4>1, <4>2, <4>3 DEF Holds
          <5> QED
            BY <2>1, <2>2, <4>1, <4>2, <4>3, <5>1 DEF RegistryType
        <4>4. CASE ~Holds(p)
          BY <2>2, <4>1, <4>2, <4>4
        <4> QED
          BY <4>3, <4>4
      <3> QED
        BY <3>1 DEF WorkingHolds
    <2> QED
      BY <2>7, <2>8, <2>9, <2>10, <2>12, <2>13, <2>14
  <1> QED
    BY <1>2, <1>3

-----------------------------------------------------------------------------
(* The theorems.                                                           *)

\* A new server has an empty registry.
LEMMA RegistryInit ==
    ASSUME Init
    PROVE  RegistryInv
  <1>1. RegistryType
    BY DEF Init, LocksInit, RegistryType, Places
  <1>2. EntryInFlight /\ MineIsRegistered /\ WorkingHolds
    BY DEF Init, LocksInit, EntryInFlight, MineIsRegistered, WorkingHolds, InFlight, Working
  <1>3. EntriesDiffer /\ RegisteredIsUsed
    BY DEF Init, LocksInit, EntriesDiffer, RegisteredIsUsed
  <1>4. ASSUME NEW e \in Entries
        PROVE  users[e] = Cardinality(UsersOf(e))
    <2>1. UsersOf(e) = {}
      BY LocksAssumption DEF Init, LocksInit, UsersOf
    <2> QED
      BY <2>1, FS_EmptySet DEF Init, LocksInit
  <1> QED
    BY <1>1, <1>2, <1>3, <1>4 DEF RegistryInv, UsersCounted

\* The registry's invariant holds in every reachable state.
LEMMA RegistryCorrect == Spec => []RegistryInv
  <1>1. Init => RegistryInv
    BY RegistryInit
  <1>2. RegistryInv /\ [Next]_vars => RegistryInv'
    BY StepsOfRegistry, MovingKeeps, EnteringKeeps, DyingKeeps, BeginningKeeps, EndingKeeps
       DEF RegistryStep
  <1> QED
    BY <1>1, <1>2, PTL DEF Spec

\* Single flight: no two pollers are inside persist_output of one enhancement
\* or subtitle task at once, for any number of pollers, tasks and entries,
\* through cancellations, failures and restarts.
THEOREM FlightCorrect == Spec => []OneFlight
  <1>1. RegistryInv => OneFlight
    <2> SUFFICES ASSUME RegistryInv, NEW p \in Pollers, NEW q \in Pollers, p # q,
                        at[p] \in Working, at[q] \in Working, task[p] = task[q], InFlight(p)
                 PROVE  FALSE
      BY DEF OneFlight
    <2>1. InFlight(q)
      BY DEF InFlight
    <2>2. mine[p] # Nobody /\ mine[q] # Nobody
      BY <2>1 DEF RegistryInv, EntryInFlight, Working
    <2>3. mine[p] = mine[q]
      BY <2>2 DEF RegistryInv, MineIsRegistered
    <2> QED
      BY <2>1, <2>3 DEF RegistryInv, WorkingHolds
  <1> QED
    BY <1>1, RegistryCorrect, PTL

-----------------------------------------------------------------------------
(***************************************************************************)
(* The queues of the entries' locks.  A step of a poller concerns the      *)
(* queue of its own entry; there it is appended, served or, cancelled,     *)
(* taken out from wherever it stands.                                      *)
(***************************************************************************)

Waiting(e) == {p \in UsersOf(e) : at[p] = "queued"}

Served(e) ==
    /\ Lists(waiters[e], Waiting(e))
    /\ holder[e] # Nobody => holder[e] \in UsersOf(e) /\ at[holder[e]] \in Working

QueueInv ==
    /\ waiters \in [Entries -> Seq(Pollers)]
    /\ \A e \in Entries : Served(e)

\* What the steps of p leave alone: the entries that are not p's.
LEMMA OtherEntriesServed ==
    ASSUME QueueInv, NEW p \in Pollers, NEW f \in Entries,
           mine[p] # f, mine'[p] # f,
           \A q \in Pollers : q # p => mine'[q] = mine[q] /\ at'[q] = at[q],
           waiters'[f] = waiters[f], holder'[f] = holder[f]
    PROVE  Served(f)'
  <1>1. Waiting(f)' = Waiting(f)
    BY DEF Waiting, UsersOf
  <1>2. UsersOf(f)' = UsersOf(f)
    BY DEF UsersOf
  <1>3. \A q \in UsersOf(f) : at'[q] = at[q]
    BY DEF UsersOf
  <1> QED
    BY <1>1, <1>2, <1>3 DEF QueueInv, Served

\* Work that goes on changes no queue.
LEMMA QueuesUntouched ==
    ASSUME RegistryInv, QueueInv, Nothing \/ \E p \in Pollers : Moves(p)
    PROVE  QueueInv'
  <1>1. /\ UNCHANGED <<mine, holder, waiters>>
        /\ \A p \in Pollers : (at'[p] = at[p]) \/ (at[p] \in Working /\ at'[p] \in Working)
    BY DEF Nothing, Moves, lockVars, RegistryInv, RegistryType
  <1>2. ASSUME NEW e \in Entries
        PROVE  Served(e)'
    <2>1. Waiting(e)' = Waiting(e)
      BY <1>1 DEF Waiting, UsersOf, Working
    <2>2. UsersOf(e)' = UsersOf(e)
      BY <1>1 DEF UsersOf
    <2>3. \A q \in UsersOf(e) : at[q] \in Working => at'[q] \in Working
      BY <1>1 DEF UsersOf
    <2> QED
      BY <1>1, <2>1, <2>2, <2>3 DEF QueueInv, Served
  <1> QED
    BY <1>1, <1>2 DEF QueueInv

\* The head of a queue takes the lock.
LEMMA TakingServes ==
    ASSUME RegistryInv, QueueInv, NEW p \in Pollers, Enters(p)
    PROVE  QueueInv'
  <1>0. PICK e \in Entries : e = mine[p]
    BY DEF Enters, Take, CanTake, RegistryInv, RegistryType
  <1>1. /\ e = mine[p] /\ at[p] = "queued"
        /\ Head(waiters[e]) = p
        /\ at' = [at EXCEPT ![p] = "read"] /\ mine' = mine
        /\ holder' = [holder EXCEPT ![e] = p]
        /\ waiters' = [waiters EXCEPT ![e] = Tail(waiters[e])]
    BY <1>0 DEF Enters, Take, CanTake
  <1>2. waiters[e] \in Seq(Pollers) /\ Lists(waiters[e], Waiting(e)) /\ p \in Waiting(e)
    BY <1>1 DEF QueueInv, Served, Waiting, UsersOf
  <1>3. Tail(waiters[e]) \in Seq(Pollers) /\ Lists(Tail(waiters[e]), Waiting(e) \ {p})
    BY <1>1, <1>2, TailLists
  <1>4. waiters' \in [Entries -> Seq(Pollers)] /\ waiters'[e] = Tail(waiters[e])
    BY <1>1, <1>3 DEF QueueInv
  <1>5. /\ \A q \in Pollers : q # p => at'[q] = at[q]
        /\ at'[p] = "read" /\ holder'[e] = p
    BY <1>1 DEF RegistryInv, RegistryType
  <1>6. Served(e)'
    <2>1. Waiting(e)' = Waiting(e) \ {p}
      BY <1>1, <1>5 DEF Waiting, UsersOf
    <2>2. p \in UsersOf(e)'
      BY <1>1 DEF UsersOf
    <2> QED
      BY <1>3, <1>4, <1>5, <2>1, <2>2 DEF Served, Working
  <1>7. ASSUME NEW f \in Entries, f # e
        PROVE  Served(f)'
    <2>1. waiters'[f] = waiters[f] /\ holder'[f] = holder[f]
      BY <1>1, <1>7 DEF QueueInv, RegistryInv, RegistryType
    <2> QED
      BY <1>1, <1>5, <1>7, <2>1, OtherEntriesServed
  <1> QED
    BY <1>4, <1>6, <1>7 DEF QueueInv

\* A poll of a flight queues at the end; one without an entry queues nowhere.
LEMMA AskingServes ==
    ASSUME RegistryInv, QueueInv, NEW p \in Pollers, NEW t \in Tasks, Begins(p, t)
    PROVE  QueueInv'
  <1>1. at[p] = "idle" /\ mine[p] = Nobody
    BY DEF Begins, RegistryInv, EntryInFlight
  <1>2. \A q \in Pollers : q # p => at'[q] = at[q]
    BY DEF Begins, RegistryInv, RegistryType
  <1>3. CASE ProtocolOf[t] # "flight"
    <2>1. UNCHANGED <<mine, holder, waiters>>
      BY <1>3 DEF Begins, lockVars
    <2>2. ASSUME NEW f \in Entries
          PROVE  Served(f)'
      BY <1>1, <1>2, <2>1, OtherEntriesServed, LocksAssumption
    <2> QED
      BY <2>1, <2>2 DEF QueueInv
  <1>4. CASE ProtocolOf[t] = "flight"
    <2>1. PICK e \in Entries : /\ mine' = [mine EXCEPT ![p] = e]
                               /\ waiters' = [waiters EXCEPT ![e] = Append(waiters[e], p)]
      BY <1>4 DEF Begins, Ask
    <2>2. holder' = holder /\ at'[p] = "queued"
      BY <1>4 DEF Begins, Ask, RegistryInv, RegistryType
    <2>3. mine'[p] = e /\ \A q \in Pollers : q # p => mine'[q] = mine[q]
      BY <2>1 DEF RegistryInv, RegistryType
    <2>4. waiters[e] \in Seq(Pollers) /\ Lists(waiters[e], Waiting(e)) /\ p \notin Waiting(e)
      BY <1>1 DEF QueueInv, Served, Waiting
    <2>5. /\ Append(waiters[e], p) \in Seq(Pollers)
          /\ Lists(Append(waiters[e], p), Waiting(e) \cup {p})
      BY <2>4, AppendLists
    <2>6. waiters' \in [Entries -> Seq(Pollers)] /\ waiters'[e] = Append(waiters[e], p)
      BY <2>1, <2>5 DEF QueueInv
    <2>7. Served(e)'
      <3>1. Waiting(e)' = Waiting(e) \cup {p}
        BY <1>2, <2>2, <2>3 DEF Waiting, UsersOf
      <3>2. UsersOf(e) \subseteq UsersOf(e)'
        BY <1>1, <2>3, LocksAssumption DEF UsersOf
      <3>3. \A q \in UsersOf(e) : at[q] \in Working => at'[q] \in Working
        BY <1>1, <1>2 DEF UsersOf, Working
      <3> QED
        BY <2>2, <2>4, <2>5, <2>6, <3>1, <3>2, <3>3 DEF Served, QueueInv
    <2>8. ASSUME NEW f \in Entries, f # e
          PROVE  Served(f)'
      <3>1. waiters'[f] = waiters[f] /\ holder'[f] = holder[f]
        BY <2>1, <2>2, <2>8 DEF QueueInv
      <3>2. mine[p] # f /\ mine'[p] # f
        BY <1>1, <2>3, <2>8, LocksAssumption
      <3> QED
        BY <1>2, <2>3, <3>1, <3>2, OtherEntriesServed
    <2> QED
      BY <2>6, <2>7, <2>8 DEF QueueInv
  <1> QED
    BY <1>3, <1>4

\* A poll that ends releases the lock, or leaves the queue.
LEMMA QuittingServes ==
    ASSUME RegistryInv, QueueInv, NEW p \in Pollers, Ends(p)
    PROVE  QueueInv'
  <1>1. /\ at' = [at EXCEPT ![p] = "idle"] /\ at[p] # "idle"
        /\ \A q \in Pollers : q # p => at'[q] = at[q]
        /\ at'[p] = "idle"
    BY DEF Ends, RegistryInv, RegistryType
  <1>2. CASE mine[p] = Nobody
    <2>1. UNCHANGED <<mine, holder, waiters>>
      BY <1>2 DEF Ends, lockVars
    <2>2. ASSUME NEW f \in Entries
          PROVE  Served(f)'
      BY <1>1, <1>2, <2>1, OtherEntriesServed, LocksAssumption
    <2> QED
      BY <2>1, <2>2 DEF QueueInv
  <1>3. CASE mine[p] # Nobody
    <2>0. PICK e \in Entries : e = mine[p]
      BY <1>3 DEF RegistryInv, RegistryType
    <2>1. /\ e = mine[p] /\ InFlight(p)
          /\ mine' = [mine EXCEPT ![p] = Nobody]
          /\ holder' = IF Holds(p) THEN [holder EXCEPT ![e] = Nobody] ELSE holder
          /\ waiters' = IF Holds(p) THEN waiters ELSE [waiters EXCEPT ![e] = Without(waiters[e], p)]
      BY <1>3, <2>0 DEF Ends, Quit, Release, Unlock, LeaveQueue, RegistryInv, EntryInFlight
    <2>2. mine'[p] = Nobody /\ \A q \in Pollers : q # p => mine'[q] = mine[q]
      BY <2>1 DEF RegistryInv, RegistryType
    <2>3. waiters[e] \in Seq(Pollers) /\ Lists(waiters[e], Waiting(e)) /\ Served(e)
      BY <2>1 DEF QueueInv, Served
    <2>4. Waiting(e)' = Waiting(e) \ {p} /\ UsersOf(e)' = UsersOf(e) \ {p}
      BY <1>1, <2>2, LocksAssumption DEF Waiting, UsersOf
    <2>5. /\ waiters' \in [Entries -> Seq(Pollers)]
          /\ Lists(waiters'[e], Waiting(e) \ {p})
      <3>1. CASE Holds(p)
        <4>1. p \notin Waiting(e)
          BY <2>1, <2>3, <3>1, LocksAssumption DEF Holds, Served, Waiting, Working
        <4> QED
          BY <2>1, <2>3, <3>1, <4>1 DEF QueueInv
      <3>2. CASE ~Holds(p)
        <4>1. at[p] \notin Working
          BY <1>3, <2>1, <3>2 DEF RegistryInv, WorkingHolds, Holds
        <4>2. p \in Waiting(e)
          BY <1>1, <2>0, <4>1 DEF Waiting, UsersOf, RegistryInv, RegistryType, Places
        <4>3. /\ Without(waiters[e], p) \in Seq(Pollers)
              /\ Lists(Without(waiters[e], p), Waiting(e) \ {p})
          BY <2>3, <4>2, WithoutLists
        <4> QED
          BY <2>1, <3>2, <4>3 DEF QueueInv
      <3> QED
        BY <3>1, <3>2
    <2>6. holder'[e] # Nobody => holder'[e] = holder[e] /\ holder[e] # p
      BY <1>3, <2>1 DEF Holds, RegistryInv, RegistryType
    <2>7. Served(e)'
      <3>1. ASSUME holder'[e] # Nobody
            PROVE  holder'[e] \in UsersOf(e)' /\ at'[holder'[e]] \in Working
        <4>1. holder[e] \in UsersOf(e) /\ at[holder[e]] \in Working
          BY <2>3, <2>6, <3>1 DEF Served
        <4>2. holder[e] \in Pollers
          BY <4>1 DEF UsersOf
        <4> QED
          BY <1>1, <2>4, <2>6, <3>1, <4>1, <4>2
      <3> QED
        BY <2>4, <2>5, <3>1 DEF Served
    <2>8. ASSUME NEW f \in Entries, f # e
          PROVE  Served(f)'
      <3>1. waiters'[f] = waiters[f] /\ holder'[f] = holder[f]
        BY <2>1, <2>8 DEF QueueInv, RegistryInv, RegistryType
      <3>2. mine[p] # f /\ mine'[p] # f
        BY <2>1, <2>2, <2>8, LocksAssumption
      <3> QED
        BY <1>1, <2>2, <3>1, <3>2, OtherEntriesServed
    <2> QED
      BY <2>5, <2>7, <2>8 DEF QueueInv
  <1> QED
    BY <1>2, <1>3

NoLocks ==
    /\ waiters = [e \in Entries |-> <<>>]
    /\ holder = [e \in Entries |-> Nobody]
    /\ mine = [p \in Pollers |-> Nobody]

\* Nobody waits, and nobody holds a lock, in a server that starts.
LEMMA EmptyServes ==
    ASSUME NoLocks
    PROVE  QueueInv
  <1>1. ASSUME NEW e \in Entries
        PROVE  Served(e)
    <2>1. Waiting(e) = {}
      BY LocksAssumption DEF NoLocks, Waiting, UsersOf
    <2> QED
      BY <2>1, EmptyLists DEF NoLocks, Served
  <1> QED
    BY <1>1 DEF NoLocks, QueueInv

\* The queues, in every state.
LEMMA QueuesCorrect == Spec => []QueueInv
  <1>1. Init => QueueInv
    BY EmptyServes DEF Init, LocksInit, NoLocks
  <1>2. RegistryInv /\ QueueInv /\ [Next]_vars => QueueInv'
    <2> SUFFICES ASSUME RegistryInv, QueueInv, RegistryStep
                 PROVE  QueueInv'
      BY StepsOfRegistry
    <2>1. CASE Dies
      <3>1. NoLocks'
        BY <2>1 DEF Dies, NoLocks
      <3> QED
        BY <3>1, EmptyServes, PTL
    <2> QED
      BY <2>1, QueuesUntouched, TakingServes, AskingServes, QuittingServes DEF RegistryStep
  <1> QED
    BY <1>1, <1>2, RegistryCorrect, PTL DEF Spec

\* The registry leaks nothing: an entry is registered exactly while somebody
\* uses it, and is counted right; and its lock is passed on, to a holder at work
\* or to a waiter in its queue, whoever was cancelled in whichever place.
THEOREM EntriesCorrect == Spec => []EntriesAreUsed
  <1>1. ASSUME RegistryInv, QueueInv
        PROVE  EntriesAreUsed
    <2> SUFFICES ASSUME NEW e \in Entries
                 PROVE  /\ users[e] = Cardinality(UsersOf(e))
                        /\ UsersOf(e) # {} <=> \E t \in Tasks : entries[t] = e
                        /\ holder[e] # Nobody => holder[e] \in UsersOf(e)
                        /\ Lists(waiters[e], UsersOf(e) \ {holder[e]})
      BY DEF EntriesAreUsed
    <2>1. users[e] = Cardinality(UsersOf(e))
      BY <1>1 DEF RegistryInv, UsersCounted
    <2>2. ASSUME NEW p \in UsersOf(e)
          PROVE  \E t \in Tasks : entries[t] = e
      <3>1. p \in Pollers /\ mine[p] = e /\ mine[p] # Nobody
        BY LocksAssumption DEF UsersOf
      <3> QED
        BY <1>1, <3>1 DEF RegistryInv, EntryInFlight, MineIsRegistered
    <2>3. ASSUME NEW t \in Tasks, entries[t] = e
          PROVE  UsersOf(e) # {}
      BY <1>1, <2>3, LocksAssumption DEF RegistryInv, RegisteredIsUsed
    <2>4. holder[e] # Nobody => holder[e] \in UsersOf(e) /\ at[holder[e]] \in Working
      BY <1>1 DEF QueueInv, Served
    <2>5. UsersOf(e) \ {holder[e]} = Waiting(e)
      <3>1. ASSUME NEW p \in UsersOf(e)
            PROVE  p # holder[e] <=> at[p] = "queued"
        <4>1. p \in Pollers /\ mine[p] = e /\ p # Nobody
          BY LocksAssumption DEF UsersOf
        <4>2. InFlight(p) /\ at[p] \in {"queued"} \cup Working
          BY <1>1, <4>1, LocksAssumption
             DEF RegistryInv, RegistryType, Places, EntryInFlight
        <4>3. at[p] \in Working => holder[e] = p
          BY <1>1, <4>1, <4>2 DEF RegistryInv, WorkingHolds
        <4> QED
          BY <2>4, <4>1, <4>2, <4>3 DEF Working
      <3> QED
        BY <3>1 DEF Waiting
    <2>6. Lists(waiters[e], UsersOf(e) \ {holder[e]})
      BY <1>1, <2>5 DEF QueueInv, Served
    <2> QED
      BY <2>1, <2>2, <2>3, <2>4, <2>6
  <1> QED
    BY <1>1, RegistryCorrect, QueuesCorrect, PTL

-----------------------------------------------------------------------------
(* Artifacts and the rows that name them.                                  *)

\* How much older a row may make its oldest reference when it renews it.
Renewal == CacheTTL + Patience

Held(t, r) == {o \in OutputSet(t) : r[o] # None}

\* Each renewal adds a track to the row; the other protocols renew nothing, but
\* take their time for more than one output.
Age(t, r) == IF ProtocolOf[t] = "tracks" THEN (Cardinality(Held(t, r)) - 1) * Renewal
             ELSE (Len(OutputsOf[t]) - 1) * Renewal

RowIsYoung(t, row) == \A o \in Held(t, row.refs) : row.created - row.refs[o] <= Age(t, row.refs)

\* What the references name is on the shelf, until it expires.
Stocked(t, r, shelf, clock) ==
    \A o \in Held(t, r) : r[o] + ArtifactTTL > clock => <<t, o, r[o]>> \in shelf

RowOK(t, row, shelf, clock) ==
    row \in Row /\ RowIsYoung(t, row) /\ Stocked(t, row.refs, shelf, clock)

Shelf == data \cap meta

\* What a poller has found or copied so far.
CopyOK(p) ==
    /\ since[p] <= now /\ now - since[p] <= Patience
    /\ Stocked(task[p], refs[p], Shelf, now)
    /\ IF ProtocolOf[task[p]] = "tracks"
       THEN /\ refs[p][Wanted(p)] = None
            /\ \A o \in Held(task[p], refs[p]) :
                  since[p] - refs[p][o] <= CacheTTL + (Cardinality(Held(task[p], refs[p])) - 1) * Renewal
       ELSE \A o \in Held(task[p], refs[p]) :
               refs[p][o] >= since[p] /\ Len(todo[p]) < Len(OutputsOf[task[p]])

TodoOK(p) ==
    todo[p] \in Seq(OutputSet(task[p])) /\ Len(todo[p]) \in 1 .. Len(OutputsOf[task[p]])

PollerOK(p) ==
    /\ at[p] # "idle" => TodoOK(p)
    /\ at[p] = "copy" => CopyOK(p)
    /\ at[p] = "write" => RowOK(task[p], RowOf(p), Shelf, now)

PollTypes ==
    DOMAIN todo = Pollers /\ refs \in [Pollers -> Refs] /\ since \in [Pollers -> Times]

ShelfType ==
    /\ now \in Times
    /\ meta \subseteq Artifacts
    /\ cache \in [Tasks -> Row]
    /\ PollTypes
    /\ late \subseteq [task : Tasks, row : Row]

ShelfInv ==
    /\ ShelfType
    /\ LookedUpIsWhole
    /\ \A t \in Tasks : RowOK(t, cache[t], Shelf, now)
    /\ \A w \in late : RowOK(w.task, w.row, Shelf, now)
    /\ \A p \in Pollers : PollerOK(p)

-----------------------------------------------------------------------------
(* Rows.                                                                   *)

\* Durations and times are natural numbers.
LEMMA Durations ==
    /\ CacheTTL \in Nat /\ ArtifactTTL \in Nat /\ Patience \in Nat /\ MaxTime \in Nat
    /\ Renewal \in Nat /\ Times \subseteq Nat
    /\ \A r \in Refs, o \in Outputs : r[o] \in Int /\ (r[o] # None => r[o] \in Times)
  <1>1. CacheTTL \in Nat /\ ArtifactTTL \in Nat /\ Patience \in Nat /\ MaxTime \in Nat
    BY DurationsAssumption
  <1> QED
    BY <1>1 DEF Renewal, Times, Refs, None

\* What a task has to copy.
LEMMA TaskOutputs ==
    ASSUME NEW t \in Tasks
    PROVE  /\ OutputSet(t) \subseteq Outputs
           /\ OutputsOf[t] \in Seq(OutputSet(t)) /\ Len(OutputsOf[t]) \in Nat \ {0}
  <1>1. OutputsOf[t] \in Seq(OutputSet(t)) /\ OutputsOf[t] # <<>>
    BY OutputsAssumption DEF OutputSet
  <1> QED
    BY <1>1 DEF OutputSet, Outputs

\* A task has no more outputs than their sequence is long.
LEMMA HeldIsCounted ==
    ASSUME NEW t \in Tasks, NEW r
    PROVE  /\ IsFiniteSet(Held(t, r))
           /\ Cardinality(Held(t, r)) \in Nat
           /\ Cardinality(Held(t, r)) <= Len(OutputsOf[t])
           /\ Held(t, r) # {} => Cardinality(Held(t, r)) >= 1
  <1> DEFINE n == Len(OutputsOf[t])
             f == [i \in 1 .. n |-> OutputsOf[t][i]]
  <1>1. n \in Nat
    BY TaskOutputs
  <1>2. IsFiniteSet(1 .. n) /\ Cardinality(1 .. n) = n
    BY <1>1, FS_Interval
  <1>3. f \in Surjection(1 .. n, OutputSet(t))
    BY DEF Surjection, OutputSet
  <1>4. IsFiniteSet(OutputSet(t)) /\ Cardinality(OutputSet(t)) <= n /\ Cardinality(OutputSet(t)) \in Nat
    BY <1>2, <1>3, FS_Surjection, FS_CardinalityType DEF ExistsSurjection
  <1>5. Held(t, r) \subseteq OutputSet(t)
    BY DEF Held
  <1>6. IsFiniteSet(Held(t, r)) /\ Cardinality(Held(t, r)) <= Cardinality(OutputSet(t))
    BY <1>4, <1>5, FS_Subset
  <1>7. Cardinality(Held(t, r)) \in Nat /\ (Cardinality(Held(t, r)) = 0 <=> Held(t, r) = {})
    BY <1>6, FS_CardinalityType, FS_EmptySet
  <1> QED
    BY <1>1, <1>4, <1>6, <1>7

\* Ages are products of counts and durations.
LEMMA Product ==
    ASSUME NEW k \in Nat, NEW n \in Nat, NEW d \in Nat, k <= n
    PROVE  k * d <= n * d /\ k * d \in Nat /\ n * d \in Nat /\ (k + 1) * d = k * d + d
  <1>1. k * d \in Nat /\ n * d \in Nat /\ (k + 1) * d = k * d + d
    BY SMT
  <1>2. n - k \in Nat /\ (n - k) * d \in Nat
    BY SMT
  <1>3. n * d = k * d + (n - k) * d
    BY SMT
  <1> QED
    BY <1>1, <1>2, <1>3

\* However a row was made, its references are younger than the artifacts' life
\* allows while it is looked at.
LEMMA RowsDieFirst ==
    ASSUME ShelfType, NEW t \in Tasks, NEW row \in Row, RowIsYoung(t, row), Live(row),
           NEW o \in Held(t, row.refs)
    PROVE  ~Expired(<<t, o, row.refs[o]>>)
  <1> DEFINE n == Len(OutputsOf[t])
             k == Cardinality(Held(t, row.refs))
  <1>1. /\ CacheTTL \in Nat /\ ArtifactTTL \in Nat /\ Patience \in Nat /\ Renewal \in Nat
        /\ now \in Nat /\ row.created \in Nat /\ row.refs[o] \in Nat
    <2>1. row.refs \in Refs /\ row.created \in Times \cup {None} /\ row.created # None
      BY DEF Row, Live
    <2>2. o \in Outputs /\ row.refs[o] # None
      BY TaskOutputs DEF Held
    <2> QED
      BY <2>1, <2>2, Durations DEF ShelfType
  <1>2. n \in Nat \ {0} /\ k \in Nat /\ k <= n /\ k >= 1
    BY TaskOutputs, HeldIsCounted
  <1>3. (n - 1) * Renewal \in Nat /\ (k - 1) * Renewal <= (n - 1) * Renewal /\ (k - 1) * Renewal \in Nat
    <2>1. n - 1 \in Nat /\ k - 1 \in Nat /\ k - 1 <= n - 1
      BY <1>2
    <2> HIDE DEF n, k
    <2> QED
      BY <1>1, <2>1, Product
  <1>4. row.created - row.refs[o] <= (n - 1) * Renewal
    BY <1>1, <1>3 DEF RowIsYoung, Age
  <1>5. now - row.created <= CacheTTL
    BY DEF Live
  <1>6. (n - 1) * Renewal + CacheTTL = n * CacheTTL + (n - 1) * Patience
    <2> HIDE DEF n
    <2>1. (n - 1) * Renewal = (n - 1) * CacheTTL + (n - 1) * Patience
      BY <1>1, <1>2, SMT DEF Renewal
    <2>2. (n - 1) * CacheTTL + CacheTTL = n * CacheTTL
      BY <1>1, <1>2, SMT
    <2>3. (n - 1) * CacheTTL \in Int /\ (n - 1) * Patience \in Int /\ n * CacheTTL \in Int
      BY <1>1, <1>2, SMT
    <2> QED
      BY <1>1, <2>1, <2>2, <2>3
  <1>7. ArtifactTTL > n * CacheTTL + (n - 1) * Patience
    BY LifetimeAssumption
  <1>8. n * CacheTTL + (n - 1) * Patience \in Int
    BY <1>1, <1>3, <1>6
  <1>9. <<t, o, row.refs[o]>>[3] = row.refs[o]
    OBVIOUS
  <1>10. row.refs[o] + ArtifactTTL > now
    <2> HIDE DEF n, k
    <2> QED
      BY <1>1, <1>3, <1>4, <1>5, <1>6, <1>7, <1>8
  <1> QED
    BY <1>1, <1>9, <1>10 DEF Expired
-----------------------------------------------------------------------------
(* Steps.                                                                  *)

\* What has not expired stays where it is, and time does not go back.
StoreKeeps ==
    /\ now' \in Times /\ now <= now' /\ meta' \subseteq Artifacts
    /\ LookedUpIsWhole'
    /\ \A a \in Shelf : a[3] + ArtifactTTL > now' => a \in Shelf'

\* References that are in the store stay there while they have not expired.
LEMMA StillStocked ==
    ASSUME ShelfType, StoreKeeps, NEW t \in Tasks, NEW r \in Refs, Stocked(t, r, Shelf, now)
    PROVE  Stocked(t, r, Shelf', now')
  <1> SUFFICES ASSUME NEW o \in Held(t, r), r[o] + ArtifactTTL > now'
               PROVE  <<t, o, r[o]>> \in Shelf'
    BY DEF Stocked
  <1>1. r[o] \in Int /\ now \in Int /\ now' \in Int /\ ArtifactTTL \in Int
    BY Durations, TaskOutputs DEF Held, ShelfType, StoreKeeps
  <1>2. r[o] + ArtifactTTL > now
    BY <1>1 DEF StoreKeeps
  <1>3. <<t, o, r[o]>> \in Shelf
    BY <1>2 DEF Stocked
  <1>4. <<t, o, r[o]>>[3] = r[o]
    OBVIOUS
  <1> QED
    BY <1>3, <1>4 DEF StoreKeeps

\* A row that is not written stays right as time passes and the store is swept.
LEMMA RowStillOK ==
    ASSUME ShelfType, StoreKeeps, NEW t \in Tasks, NEW row, RowOK(t, row, Shelf, now)
    PROVE  RowOK(t, row, Shelf', now')
  <1>1. row.refs \in Refs
    BY DEF RowOK, Row
  <1> QED
    BY <1>1, StillStocked DEF RowOK

\* No references are references.
LEMMA NoRefsIsRefs == NoRefs \in Refs /\ 0 \in Times
  <1>1. 0 \in Times
    BY Durations DEF Times
  <1> QED
    BY <1>1 DEF NoRefs, Refs

\* A row that names nothing.
LEMMA NoRowOK ==
    ASSUME NEW t \in Tasks, NEW shelf, NEW clock
    PROVE  /\ RowOK(t, NoRow, shelf, clock) /\ NoRefs \in Refs /\ NoRow \in Row
           /\ Held(t, NoRefs) = {} /\ Stocked(t, NoRefs, shelf, clock)
  <1>1. NoRefs \in Refs /\ NoRow \in Row
    BY DEF NoRefs, NoRow, Refs, Row
  <1>2. Held(t, NoRefs) = {}
    BY TaskOutputs DEF Held, NoRefs
  <1> QED
    BY <1>1, <1>2 DEF RowOK, RowIsYoung, Stocked, NoRow

\* A row is kept, dropped, or written by a poller or by a late statement.
CacheStep ==
    /\ cache' = [t \in Tasks |-> cache'[t]]
    /\ \A t \in Tasks :
          \/ cache'[t] \in {cache[t], NoRow}
          \/ \E w \in late : w.task = t /\ cache'[t] = w.row
          \/ \E p \in Pollers : at[p] = "write" /\ task[p] = t /\ cache'[t] = RowOf(p)

LateStep ==
    \A w \in late' :
        \/ w \in late
        \/ \E p \in Pollers : at[p] = "write" /\ w = [task |-> task[p], row |-> RowOf(p)]

\* Rows stay right, wherever they come from.
LEMMA RowsKeep ==
    ASSUME RegistryInv, ShelfInv, StoreKeeps, CacheStep, LateStep, PollTypes',
           \A p \in Pollers : PollerOK(p)'
    PROVE  ShelfInv'
  <1>1. ASSUME NEW p \in Pollers, at[p] = "write"
        PROVE  /\ task[p] \in Tasks /\ RowOf(p) \in Row
               /\ RowOK(task[p], RowOf(p), Shelf', now')
    <2>1. task[p] \in Tasks
      BY <1>1 DEF RegistryInv, EntryInFlight
    <2>2. RowOK(task[p], RowOf(p), Shelf, now)
      BY <1>1 DEF ShelfInv, PollerOK
    <2> QED
      BY <2>1, <2>2, RowStillOK DEF ShelfInv, RowOK
  <1>2. ASSUME NEW w \in late
        PROVE  w.task \in Tasks /\ w.row \in Row /\ RowOK(w.task, w.row, Shelf', now')
    <2>1. w.task \in Tasks
      BY DEF ShelfInv, ShelfType
    <2> QED
      BY <2>1, RowStillOK DEF ShelfInv, RowOK
  <1>3. \A t \in Tasks : RowOK(t, cache'[t], Shelf', now')
    BY <1>1, <1>2, RowStillOK, NoRowOK DEF CacheStep, ShelfInv
  <1>4. cache' \in [Tasks -> Row]
    <2>1. \A t \in Tasks : cache'[t] \in Row
      BY <1>3 DEF RowOK
    <2>2. cache' = [t \in Tasks |-> cache'[t]]
      BY DEF CacheStep
    <2> QED
      BY <2>1, <2>2
  <1>5. \A w \in late' : w \in [task : Tasks, row : Row] /\ RowOK(w.task, w.row, Shelf', now')
    BY <1>1, <1>2 DEF LateStep, ShelfInv, ShelfType
  <1>6. ShelfType'
    BY <1>4, <1>5 DEF ShelfType, StoreKeeps
  <1> QED
    BY <1>3, <1>5, <1>6 DEF ShelfInv, StoreKeeps
\* Pollers that do nothing, and pollers that hold nothing.
SamePoll(q) ==
    /\ at'[q] = at[q] /\ task'[q] = task[q] /\ todo'[q] = todo[q]
    /\ refs'[q] = refs[q] /\ since'[q] = since[q]
Away(q) == at'[q] \in {"idle", "queued", "read"} /\ (at'[q] # "idle" => TodoOK(q)')

\* A poller that stands still keeps what it knows.
LEMMA SamePollKeeps ==
    ASSUME RegistryInv, ShelfInv, StoreKeeps, NEW q \in Pollers, SamePoll(q),
           at[q] = "copy" => since[q] <= now' /\ now' - since[q] <= Patience
    PROVE  PollerOK(q)'
  <1>1. at[q] # "idle" => task[q] \in Tasks
    BY DEF RegistryInv, EntryInFlight
  <1>2. at[q] # "idle" => TodoOK(q)'
    BY DEF SamePoll, ShelfInv, PollerOK, TodoOK
  <1>3. at[q] = "copy" => CopyOK(q)'
    <2> SUFFICES ASSUME at[q] = "copy" PROVE CopyOK(q)'
      OBVIOUS
    <2>1. CopyOK(q)
      BY DEF ShelfInv, PollerOK
    <2>2. refs[q] \in Refs
      BY DEF ShelfInv, ShelfType, PollTypes
    <2>3. Stocked(task[q], refs[q], Shelf', now')
      BY <1>1, <2>1, <2>2, StillStocked DEF CopyOK, ShelfInv
    <2>4. Wanted(q)' = Wanted(q)
      BY DEF Wanted, SamePoll
    <2> QED
      BY <2>1, <2>3, <2>4 DEF CopyOK, SamePoll
  <1>4. at[q] = "write" => RowOK(task[q], RowOf(q), Shelf', now')
    BY <1>1, RowStillOK DEF ShelfInv, PollerOK
  <1>5. RowOf(q)' = RowOf(q)
    BY DEF RowOf, SamePoll
  <1> QED
    BY <1>2, <1>3, <1>4, <1>5 DEF PollerOK, SamePoll

\* A poller that is away knows nothing.
LEMMA AwayKeeps ==
    ASSUME NEW q \in Pollers, Away(q)
    PROVE  PollerOK(q)'
  BY DEF Away, PollerOK

\* One poller takes a step while the clock stands.
OneMoves(p) ==
    /\ now' = now /\ PollTypes'
    /\ \A q \in Pollers : q # p => SamePoll(q)
    /\ PollerOK(p)'

\* One poller moves and the others stand still.
LEMMA OneMovesKeeps ==
    ASSUME RegistryInv, ShelfInv, StoreKeeps, CacheStep, LateStep, NEW p \in Pollers, OneMoves(p)
    PROVE  ShelfInv'
  <1>1. ASSUME NEW q \in Pollers
        PROVE  PollerOK(q)'
    <2>1. at[q] = "copy" => since[q] <= now' /\ now' - since[q] <= Patience
      BY DEF OneMoves, ShelfInv, PollerOK, CopyOK
    <2> QED
      BY <2>1, SamePollKeeps DEF OneMoves
  <1> QED
    BY <1>1, RowsKeep DEF OneMoves

\* The poll ends.
LEMMA FinishMoves ==
    ASSUME RegistryInv, ShelfInv, NEW p \in Pollers, NEW m, Finish(p, m), now' = now
    PROVE  OneMoves(p)
  <1>1. at'[p] = "idle" /\ PollTypes'
    BY NoRefsIsRefs DEF Finish, PollTypes, ShelfInv, ShelfType, RegistryInv, RegistryType
  <1>2. \A q \in Pollers : q # p => SamePoll(q)
    BY DEF Finish, SamePoll, ShelfInv, ShelfType, PollTypes, RegistryInv, RegistryType
  <1> QED
    BY <1>1, <1>2, AwayKeeps DEF OneMoves, Away

\* What is left to copy after one output.
LEMMA RestOfTodo ==
    ASSUME NEW S, NEW s \in Seq(S), NEW n \in Nat, Len(s) \in 1 .. n, Len(s) # 1
    PROVE  /\ Tail(s) \in Seq(S) /\ Len(Tail(s)) = Len(s) - 1
           /\ Len(Tail(s)) \in 1 .. n
  <1>1. s # <<>>
    OBVIOUS
  <1>2. Tail(s) \in Seq(S) /\ Len(Tail(s)) = Len(s) - 1
    BY <1>1
  <1>3. \A k \in 1 .. n : k # 1 => k - 1 \in 1 .. n
    OBVIOUS
  <1> QED
    BY <1>2, <1>3

\* The next track comes up, or the poll ends.
LEMMA AdvanceMoves ==
    ASSUME RegistryInv, ShelfInv, NEW p \in Pollers, at[p] \in Working, Advance(p), now' = now
    PROVE  OneMoves(p)
  <1>1. CASE Len(todo[p]) = 1
    BY <1>1, FinishMoves DEF Advance, End
  <1>2. CASE Len(todo[p]) # 1
    <2>1. /\ at' = [at EXCEPT ![p] = "read"] /\ todo' = [todo EXCEPT ![p] = Tail(todo[p])]
          /\ refs' = [refs EXCEPT ![p] = NoRefs] /\ since' = [since EXCEPT ![p] = 0]
          /\ UNCHANGED task
      BY <1>2 DEF Advance
    <2>2. /\ todo[p] \in Seq(OutputSet(task[p])) /\ Len(todo[p]) \in 1 .. Len(OutputsOf[task[p]])
          /\ task[p] \in Tasks
      BY DEF ShelfInv, PollerOK, TodoOK, Working, RegistryInv, EntryInFlight
    <2>3. Len(OutputsOf[task[p]]) \in Nat
      BY <2>2, TaskOutputs
    <2>4. /\ Tail(todo[p]) \in Seq(OutputSet(task[p]))
          /\ Len(Tail(todo[p])) \in 1 .. Len(OutputsOf[task[p]])
      BY <1>2, <2>2, <2>3, RestOfTodo
    <2>5. todo'[p] = Tail(todo[p]) /\ at'[p] = "read" /\ task'[p] = task[p] /\ PollTypes'
      BY <2>1, NoRefsIsRefs DEF PollTypes, ShelfInv, ShelfType, RegistryInv, RegistryType
    <2>6. \A q \in Pollers : q # p => SamePoll(q)
      BY <2>1 DEF SamePoll, ShelfInv, ShelfType, PollTypes, RegistryInv, RegistryType
    <2> QED
      BY <2>4, <2>5, <2>6, AwayKeeps DEF OneMoves, Away, TodoOK
  <1> QED
    BY <1>1, <1>2

\* What a poller finds in the table may be renewed.
LEMMA KnownIsRenewable ==
    ASSUME ShelfInv, NEW t \in Tasks
    PROVE  /\ Cached(t) \in Refs /\ Stocked(t, Cached(t), Shelf, now)
           /\ ProtocolOf[t] = "tracks" =>
                 \A o \in Held(t, Cached(t)) :
                    now - Cached(t)[o] <= CacheTTL + (Cardinality(Held(t, Cached(t))) - 1) * Renewal
  <1>1. CASE Live(cache[t])
    <2> DEFINE r == cache[t].refs
               bound == (Cardinality(Held(t, r)) - 1) * Renewal
    <2>1. Cached(t) = r /\ RowOK(t, cache[t], Shelf, now)
      BY <1>1 DEF Cached, ShelfInv
    <2>2. r \in Refs /\ cache[t].created \in Times
      BY <1>1, <2>1 DEF RowOK, Row, Live
    <2>3. ASSUME ProtocolOf[t] = "tracks", NEW o \in Held(t, r)
          PROVE  now - r[o] <= CacheTTL + bound
      <3>1. cache[t].created - r[o] <= bound /\ now - cache[t].created <= CacheTTL
        BY <1>1, <2>1, <2>3 DEF RowOK, RowIsYoung, Age, Live
      <3>2. r[o] \in Int /\ now \in Int /\ cache[t].created \in Int /\ CacheTTL \in Int
        <4>1. o \in Outputs
          BY TaskOutputs DEF Held
        <4>2. r[o] \in Int
          BY <2>2, <4>1, Durations
        <4>3. now \in Nat /\ cache[t].created \in Nat /\ CacheTTL \in Nat
          BY <2>2, Durations DEF ShelfInv, ShelfType
        <4> QED
          BY <4>2, <4>3
      <3>3. bound \in Int
        <4>1. Cardinality(Held(t, r)) - 1 \in Int /\ Renewal \in Int
          BY HeldIsCounted, Durations
        <4> QED
          BY <4>1, SMT
      <3> HIDE DEF bound, r
      <3> QED
        BY <3>1, <3>2, <3>3
    <2> QED
      BY <2>1, <2>2, <2>3 DEF RowOK
  <1>2. CASE ~Live(cache[t])
    <2>1. Cached(t) = NoRefs
      BY <1>2 DEF Cached
    <2> QED
      BY <2>1, NoRowOK
  <1> QED
    BY <1>1, <1>2

\* A copy begins.
LEMMA StartCopyMoves ==
    ASSUME RegistryInv, ShelfInv, NEW p \in Pollers, at[p] = "read",
           NEW known \in {NoRefs, Cached(task[p])}, NEW unseen, StartCopy(p, known, unseen),
           UNCHANGED <<now, data, meta>>,
           ProtocolOf[task[p]] = "tracks" => known[Wanted(p)] = None,
           ProtocolOf[task[p]] # "tracks" => known = NoRefs
    PROVE  OneMoves(p)
  <1>1. /\ at' = [at EXCEPT ![p] = "copy"] /\ since' = [since EXCEPT ![p] = now]
        /\ refs' = [refs EXCEPT ![p] = known] /\ UNCHANGED <<task, todo>>
    BY DEF StartCopy
  <1>2. task[p] \in Tasks /\ TodoOK(p) /\ now \in Times
    BY DEF ShelfInv, ShelfType, PollerOK, RegistryInv, EntryInFlight
  <1>3. known \in Refs /\ Stocked(task[p], known, Shelf, now)
    BY <1>2, KnownIsRenewable, NoRowOK
  <1>4. /\ at'[p] = "copy" /\ since'[p] = now /\ refs'[p] = known /\ task'[p] = task[p]
        /\ todo'[p] = todo[p] /\ PollTypes'
    BY <1>1, <1>2, <1>3 DEF ShelfInv, ShelfType, PollTypes, RegistryInv, RegistryType
  <1>5. \A q \in Pollers : q # p => SamePoll(q)
    BY <1>1 DEF SamePoll, ShelfInv, ShelfType, PollTypes, RegistryInv, RegistryType
  <1>6. ProtocolOf[task[p]] = "tracks" =>
           \A o \in Held(task[p], known) :
              now - known[o] <= CacheTTL + (Cardinality(Held(task[p], known)) - 1) * Renewal
    BY <1>2, KnownIsRenewable, NoRowOK
  <1>7. ProtocolOf[task[p]] # "tracks" => Held(task[p], known) = {}
    BY <1>2, NoRowOK
  <1>8. now <= now /\ now - now <= Patience /\ Shelf' = Shelf /\ Wanted(p)' = Wanted(p)
    BY <1>2, <1>4, Durations DEF Shelf, Wanted
  <1>9. CopyOK(p)'
    BY <1>3, <1>4, <1>6, <1>7, <1>8 DEF CopyOK
  <1>10. TodoOK(p)'
    BY <1>2, <1>4 DEF TodoOK
  <1> QED
    BY <1>4, <1>5, <1>9, <1>10 DEF OneMoves, PollerOK
\* The copies are over, or the next output is copied.
LEMMA AfterCopyMoves ==
    ASSUME RegistryInv, ShelfInv, StoreKeeps, NEW p \in Pollers, at[p] = "copy",
           NEW r \in Refs, AfterCopy(p, r), now' = now,
           Stocked(task[p], r, Shelf', now),
           ProtocolOf[task[p]] = "tracks" => RowIsYoung(task[p], [refs |-> r, created |-> now]),
           ProtocolOf[task[p]] # "tracks" =>
              \A o \in Held(task[p], r) :
                 r[o] >= since[p] /\ (r[o] = now \/ Len(todo[p]) < Len(OutputsOf[task[p]]))
    PROVE  OneMoves(p)
  <1> DEFINE t == task[p]
             n == Len(OutputsOf[t])
  <1>1. t \in Tasks /\ TodoOK(p) /\ since[p] <= now /\ now - since[p] <= Patience
    BY DEF ShelfInv, PollerOK, CopyOK, RegistryInv, EntryInFlight
  <1>2. n \in Nat \ {0} /\ Len(todo[p]) \in 1 .. n /\ todo[p] \in Seq(OutputSet(t))
    BY <1>1, TaskOutputs DEF TodoOK
  <1>3. now \in Nat /\ since[p] \in Nat /\ Patience \in Nat /\ Renewal \in Nat /\ CacheTTL \in Nat
    BY Durations DEF ShelfInv, ShelfType, PollTypes
  <1>4. \A o \in Held(t, r) : r[o] \in Int
    BY <1>1, TaskOutputs, Durations DEF Held
  <1>5. CASE ProtocolOf[t] = "whole" /\ Len(todo[p]) > 1
    <2>1. /\ todo' = [todo EXCEPT ![p] = Tail(todo[p])] /\ refs' = [refs EXCEPT ![p] = r]
          /\ UNCHANGED <<at, task, since>>
      BY <1>5 DEF AfterCopy
    <2>2. /\ todo'[p] = Tail(todo[p]) /\ refs'[p] = r /\ at'[p] = "copy" /\ task'[p] = t
          /\ since'[p] = since[p] /\ PollTypes'
      BY <2>1 DEF ShelfInv, ShelfType, PollTypes
    <2>3. \A q \in Pollers : q # p => SamePoll(q)
      BY <2>1 DEF SamePoll, ShelfInv, ShelfType, PollTypes
    <2>4. /\ Tail(todo[p]) \in Seq(OutputSet(t)) /\ Len(Tail(todo[p])) \in 1 .. n
          /\ Len(Tail(todo[p])) = Len(todo[p]) - 1
      <3>1. n \in Nat
        BY <1>2
      <3> HIDE DEF n, t
      <3>2. \A k \in 1 .. n : k > 1 => k # 1
        BY <3>1
      <3> QED
        BY <1>2, <1>5, <3>1, <3>2, RestOfTodo
    <2>5. Len(Tail(todo[p])) < n
      BY <1>2, <2>4
    <2>6. TodoOK(p)'
      BY <2>2, <2>4 DEF TodoOK
    <2>7. CopyOK(p)'
      <3>1. \A o \in Held(t, r) : r[o] >= since[p]
        BY <1>5
      <3> QED
        BY <1>1, <1>5, <2>2, <2>5, <3>1 DEF CopyOK
    <2> QED
      BY <2>2, <2>3, <2>6, <2>7 DEF OneMoves, PollerOK
  <1>6. CASE End(p)
    BY <1>6, FinishMoves DEF End
  <1>7. CASE ~ (ProtocolOf[t] = "whole" /\ Len(todo[p]) > 1) /\ ~ End(p)
    <2> DEFINE row == [refs |-> r, created |-> now]
    <2>1. /\ at' = [at EXCEPT ![p] = "write"] /\ refs' = [refs EXCEPT ![p] = r]
          /\ since' = [since EXCEPT ![p] = now] /\ UNCHANGED <<task, todo>>
      BY <1>7 DEF AfterCopy
    <2>2. /\ todo'[p] = todo[p] /\ refs'[p] = r /\ at'[p] = "write" /\ task'[p] = t
          /\ since'[p] = now
      BY <2>1 DEF ShelfInv, ShelfType, PollTypes, RegistryInv, RegistryType
    <2>3. PollTypes'
      BY <2>1 DEF ShelfInv, ShelfType, PollTypes
    <2>4. \A q \in Pollers : q # p => SamePoll(q)
      BY <2>1 DEF SamePoll, ShelfInv, ShelfType, PollTypes, RegistryInv, RegistryType
    <2>5. ASSUME ProtocolOf[t] # "tracks", NEW o \in Held(t, r)
          PROVE  now - r[o] <= (n - 1) * Renewal
      <3>1. (n - 1) * Renewal \in Nat /\ (n > 1 => Renewal <= (n - 1) * Renewal)
        <4>1. n - 1 \in Nat /\ 1 * Renewal = Renewal
          BY <1>2, <1>3
        <4>2. n > 1 => 1 <= n - 1
          BY <1>2
        <4> HIDE DEF n
        <4> QED
          BY <1>3, <4>1, <4>2, Product
      <3>2. r[o] >= since[p] /\ (r[o] = now \/ Len(todo[p]) < n)
        BY <2>5
      <3>3. CASE r[o] = now
        <4> HIDE DEF n, t
        <4> QED
          BY <1>3, <3>1, <3>3
      <3>4. CASE Len(todo[p]) < n
        <4>1. n > 1
          BY <1>2, <3>4
        <4>2. now - r[o] <= Patience
          BY <1>1, <1>3, <1>4, <2>5, <3>2
        <4>3. Patience <= Renewal
          BY <1>3 DEF Renewal
        <4>4. r[o] \in Int
          BY <1>4, <2>5
        <4> HIDE DEF n, t
        <4> QED
          BY <1>3, <3>1, <4>1, <4>2, <4>3, <4>4
      <3> QED
        BY <3>2, <3>3, <3>4
    <2>6. row \in Row /\ row.refs = r /\ row.created = now
      BY DEF Row, ShelfInv, ShelfType
    <2>7. RowIsYoung(t, row)
      BY <2>5, <2>6 DEF RowIsYoung, Age
    <2>8. RowOf(p)' = row
      BY <2>2 DEF RowOf
    <2>9. RowOK(t, row, Shelf', now)
      BY <2>6, <2>7 DEF RowOK
    <2>10. TodoOK(p)'
      BY <1>1, <2>2 DEF TodoOK
    <2> QED
      BY <2>2, <2>3, <2>4, <2>8, <2>9, <2>10 DEF OneMoves, PollerOK
  <1> QED
    BY <1>5, <1>6, <1>7

\* An artifact is stored.
LEMMA StoredKeeps ==
    ASSUME ShelfInv, NEW a \in Artifacts, Stored(a), now' = now
    PROVE  StoreKeeps
  BY DEF StoreKeeps, Stored, Shelf, LookedUpIsWhole, Expired, ShelfInv, ShelfType, Times

\* A data file without its metadata does no harm.
LEMMA HalfStoredKeeps ==
    ASSUME ShelfInv, NEW a, HalfStored(a) \/ (data' = data /\ meta' = meta), now' = now
    PROVE  StoreKeeps
  BY DEF StoreKeeps, HalfStored, Shelf, LookedUpIsWhole, Expired, ShelfInv, ShelfType, Times

\* No row is written.
LEMMA NothingWritten ==
    ASSUME ShelfInv, UNCHANGED <<cache, late>>
    PROVE  CacheStep /\ LateStep
  BY DEF CacheStep, LateStep, ShelfInv, ShelfType

\* set() writes one row and may evict others.
LEMMA RowIsSet ==
    ASSUME ShelfInv, NEW t \in Tasks, NEW row, SetRow(t, row)
    PROVE  /\ cache' = [u \in Tasks |-> cache'[u]]
           /\ \A u \in Tasks : cache'[u] \in {cache[u], NoRow} \/ (u = t /\ cache'[u] = row)
  BY DEF SetRow, Entered, ShelfInv, ShelfType
-----------------------------------------------------------------------------
(* The invariant.                                                          *)

\* What is copied is an output of the poller's task.
LEMMA CopiedIsArtifact ==
    ASSUME RegistryInv, ShelfInv, NEW p \in Pollers, at[p] # "idle"
    PROVE  /\ task[p] \in Tasks /\ Wanted(p) \in OutputSet(task[p]) /\ Wanted(p) \in Outputs
           /\ <<task[p], Wanted(p), now>> \in Artifacts
  <1>1. task[p] \in Tasks /\ TodoOK(p) /\ now \in Times
    BY DEF ShelfInv, ShelfType, PollerOK, RegistryInv, EntryInFlight
  <1>2. todo[p] \in Seq(OutputSet(task[p])) /\ todo[p] # <<>>
    BY <1>1, TaskOutputs DEF TodoOK
  <1>3. Head(todo[p]) \in OutputSet(task[p])
    BY <1>2
  <1> QED
    BY <1>1, <1>3, TaskOutputs DEF Wanted, Artifacts

\* An output is copied and stored.
LEMMA CopyKeepsShelf ==
    ASSUME RegistryInv, ShelfInv, NEW p \in Pollers, Copy(p)
    PROVE  ShelfInv'
  <1> DEFINE t == task[p]
             o == Wanted(p)
             r == [refs[p] EXCEPT ![o] = now]
             a == <<t, o, now>>
  <1>1. /\ at[p] = "copy" /\ Stored(a) /\ AfterCopy(p, r) /\ UNCHANGED <<now, cache, late>>
    BY DEF Copy
  <1>2. t \in Tasks /\ TodoOK(p) /\ CopyOK(p) /\ now \in Times /\ refs[p] \in Refs
    BY <1>1 DEF ShelfInv, ShelfType, PollTypes, PollerOK, RegistryInv, EntryInFlight
  <1>3. o \in OutputSet(t) /\ o \in Outputs
    BY <1>1, CopiedIsArtifact
  <1>4. a \in Artifacts
    BY <1>1, CopiedIsArtifact
  <1>5. StoreKeeps
    BY <1>1, <1>4, StoredKeeps
  <1>6. /\ r \in Refs /\ r[o] = now /\ \A u \in Outputs : u # o => r[u] = refs[p][u]
    BY <1>2, <1>3 DEF Refs
  <1>7. now # None /\ now \in Nat /\ since[p] \in Nat
    BY <1>2, Durations DEF Times, None, ShelfInv, ShelfType, PollTypes
  <1>8. Held(t, r) = Held(t, refs[p]) \cup {o} /\ Held(t, r) \subseteq Outputs
    BY <1>2, <1>3, <1>6, <1>7, TaskOutputs DEF Held
  <1>9. Stocked(t, r, Shelf', now)
    <2>1. Stocked(t, refs[p], Shelf', now')
      BY <1>2, <1>5, StillStocked DEF CopyOK, ShelfInv
    <2>2. a \in Shelf'
      BY <1>1 DEF Stored, Shelf
    <2> QED
      BY <1>1, <1>6, <1>8, <2>1, <2>2 DEF Stocked
  <1>10. ASSUME ProtocolOf[t] = "tracks"
         PROVE  RowIsYoung(t, [refs |-> r, created |-> now])
    <2> DEFINE k == Cardinality(Held(t, refs[p]))
    <2>1. refs[p][o] = None /\ o \notin Held(t, refs[p])
      BY <1>2, <1>10 DEF CopyOK, Held
    <2>2. k \in Nat /\ Cardinality(Held(t, r)) = k + 1
      BY <1>2, <1>8, <2>1, HeldIsCounted, FS_AddElement
    <2>3. Renewal \in Nat /\ CacheTTL \in Nat /\ Patience \in Nat /\ Renewal = CacheTTL + Patience
      BY Durations DEF Renewal
    <2>4. k * Renewal \in Nat /\ (k - 1) * Renewal + Renewal = k * Renewal /\ (k - 1) * Renewal \in Int
      <3> HIDE DEF k
      <3>1. k * Renewal \in Nat /\ (k - 1) * Renewal + Renewal = k * Renewal
        BY <2>2, <2>3, SMT
      <3>2. (k - 1) * Renewal \in Int
        BY <2>2, <2>3, SMT
      <3> QED
        BY <3>1, <3>2
    <2>5. ASSUME NEW u \in Held(t, r)
          PROVE  now - r[u] <= k * Renewal
      <3>1. CASE u = o
        <4> HIDE DEF k, o, r
        <4> QED
          BY <1>6, <1>7, <2>4, <3>1
      <3>2. CASE u # o
        <4>1. u \in Held(t, refs[p]) /\ u \in Outputs /\ r[u] = refs[p][u]
          BY <1>6, <1>8, <3>2
        <4>2. since[p] - refs[p][u] <= CacheTTL + (k - 1) * Renewal
          BY <1>2, <1>10, <4>1 DEF CopyOK
        <4>3. refs[p][u] \in Int /\ now - since[p] <= Patience
          BY <1>2, <4>1, Durations DEF CopyOK
        <4> HIDE DEF k, o, r
        <4> QED
          BY <1>7, <2>3, <2>4, <4>1, <4>2, <4>3
      <3> QED
        BY <3>1, <3>2
    <2>6. (Cardinality(Held(t, r)) - 1) * Renewal = k * Renewal
      <3>1. Cardinality(Held(t, r)) - 1 = k
        BY <2>2
      <3> QED
        BY <3>1
    <2> QED
      BY <1>10, <2>5, <2>6 DEF RowIsYoung, Age
  <1>11. ASSUME ProtocolOf[t] # "tracks", NEW u \in Held(t, r)
         PROVE  r[u] >= since[p] /\ (r[u] = now \/ Len(todo[p]) < Len(OutputsOf[t]))
    <2>1. CASE u = o
      <3>1. since[p] <= now
        BY <1>2 DEF CopyOK
      <3> QED
        BY <1>6, <2>1, <3>1
    <2>2. CASE u # o
      BY <1>2, <1>6, <1>8, <1>11, <2>2 DEF CopyOK
    <2> QED
      BY <2>1, <2>2
  <1> QED
    BY <1>1, <1>5, <1>6, <1>9, <1>10, <1>11, AfterCopyMoves, NothingWritten, OneMovesKeeps

\* A poller looks into the cache.
LEMMA ReadKeepsShelf ==
    ASSUME RegistryInv, ShelfInv, NEW p \in Pollers, ReadHit(p) \/ ReadMiss(p) \/ ReadFails(p)
    PROVE  ShelfInv'
  <1>1. at[p] = "read" /\ UNCHANGED <<now, data, meta, cache, late>>
    BY DEF ReadHit, ReadMiss, ReadFails, storeVars
  <1>2. StoreKeeps /\ CacheStep /\ LateStep
    BY <1>1, HalfStoredKeeps, NothingWritten
  <1>3. CASE ReadHit(p)
    <2>1. (\E m : Finish(p, m)) \/ Advance(p)
      BY <1>3 DEF ReadHit, End
    <2> QED
      BY <1>1, <1>2, <2>1, FinishMoves, AdvanceMoves, OneMovesKeeps DEF Working
  <1>4. CASE ReadMiss(p)
    <2> DEFINE known == IF ProtocolOf[task[p]] = "tracks" THEN Cached(task[p]) ELSE NoRefs
    <2>1. StartCopy(p, known, FALSE) /\ ~Hit(p)
      BY <1>4 DEF ReadMiss
    <2>2. /\ known \in {NoRefs, Cached(task[p])}
          /\ ProtocolOf[task[p]] = "tracks" => known[Wanted(p)] = None
          /\ ProtocolOf[task[p]] # "tracks" => known = NoRefs
      BY <2>1 DEF Hit
    <2> HIDE DEF known
    <2> QED
      BY <1>1, <1>2, <2>1, <2>2, StartCopyMoves, OneMovesKeeps
  <1>5. CASE ReadFails(p)
    <2>1. CASE InFlight(p)
      <3>1. StartCopy(p, NoRefs, TRUE) /\ ProtocolOf[task[p]] # "tracks"
        BY <1>5, <2>1 DEF ReadFails, InFlight
      <3> QED
        BY <1>1, <1>2, <3>1, StartCopyMoves, OneMovesKeeps
    <2>2. CASE ~InFlight(p)
      BY <1>1, <1>2, <1>5, <2>2, FinishMoves, OneMovesKeeps DEF ReadFails, End
    <2> QED
      BY <2>1, <2>2
  <1> QED
    BY <1>3, <1>4, <1>5

\* A copy fails, perhaps half way.
LEMMA CopyFailsKeepsShelf ==
    ASSUME RegistryInv, ShelfInv, NEW p \in Pollers, CopyFails(p)
    PROVE  ShelfInv'
  <1>1. /\ at[p] = "copy" /\ UNCHANGED <<now, meta, cache, late>>
        /\ data' = data \/ HalfStored(<<task[p], Wanted(p), now>>)
    BY DEF CopyFails
  <1>2. StoreKeeps /\ CacheStep /\ LateStep
    BY <1>1, HalfStoredKeeps, NothingWritten
  <1>3. CASE End(p) \/ Advance(p)
    BY <1>1, <1>2, <1>3, FinishMoves, AdvanceMoves, OneMovesKeeps DEF End, Working
  <1>4. CASE ProtocolOf[task[p]] = "whole" /\ AfterCopy(p, refs[p])
    <2>1. task[p] \in Tasks /\ CopyOK(p) /\ refs[p] \in Refs
      BY <1>1 DEF ShelfInv, ShelfType, PollTypes, PollerOK, RegistryInv, EntryInFlight
    <2>2. Stocked(task[p], refs[p], Shelf', now)
      BY <1>1, <1>2, <2>1, StillStocked DEF CopyOK, ShelfInv
    <2>3. \A o \in Held(task[p], refs[p]) :
             refs[p][o] >= since[p] /\ Len(todo[p]) < Len(OutputsOf[task[p]])
      BY <1>4, <2>1 DEF CopyOK
    <2> QED
      BY <1>1, <1>2, <1>4, <2>1, <2>2, <2>3, AfterCopyMoves, OneMovesKeeps
  <1> QED
    BY <1>3, <1>4 DEF CopyFails

\* A row is written by its poller: the references were stored for its whole
\* life.
LEMMA WriteKeepsShelf ==
    ASSUME RegistryInv, ShelfInv, NEW p \in Pollers, Write(p) \/ WriteFails(p)
    PROVE  ShelfInv'
  <1>1. /\ at[p] = "write" /\ UNCHANGED <<now, data, meta, late>>
        /\ End(p) \/ Advance(p)
    BY DEF Write, WriteFails, storeVars
  <1>2. StoreKeeps
    BY <1>1, HalfStoredKeeps
  <1>3. CacheStep
    <2>1. CASE Write(p)
      <3>1. task[p] \in Tasks
        BY <1>1 DEF RegistryInv, EntryInFlight
      <3>2. SetRow(task[p], RowOf(p))
        BY <2>1 DEF Write
      <3> QED
        BY <1>1, <3>1, <3>2, RowIsSet DEF CacheStep
    <2>2. CASE WriteFails(p)
      BY <1>1, <2>2, NothingWritten DEF WriteFails, storeVars
    <2> QED
      BY <2>1, <2>2
  <1>4. LateStep
    BY <1>1 DEF LateStep
  <1> QED
    BY <1>1, <1>2, <1>3, <1>4, FinishMoves, AdvanceMoves, OneMovesKeeps DEF End, Working

\* A cancelled poller may leave a statement behind, which knows what it knew.
LEMMA CancelKeepsShelf ==
    ASSUME RegistryInv, ShelfInv, NEW p \in Pollers, Cancel(p)
    PROVE  ShelfInv'
  <1>1. End(p) /\ UNCHANGED <<now, data, meta, cache>>
    BY DEF Cancel, storeVars
  <1>2. StoreKeeps
    BY <1>1, HalfStoredKeeps
  <1>3. CacheStep /\ LateStep
    <2>1. CacheStep
      BY <1>1 DEF CacheStep, ShelfInv, ShelfType
    <2>2. LateStep
      BY DEF Cancel, LateStep
    <2> QED
      BY <2>1, <2>2
  <1> QED
    BY <1>1, <1>2, <1>3, FinishMoves, OneMovesKeeps DEF End

\* A poll begins, shares or enters: nothing is copied yet.
LEMMA QueueKeepsShelf ==
    ASSUME RegistryInv, ShelfInv, NEW p \in Pollers,
           Share(p) \/ Enter(p) \/ \E t \in Tasks : Begin(p, t)
    PROVE  ShelfInv'
  <1>1. UNCHANGED <<now, data, meta, cache, late>>
    BY DEF Share, Enter, Begin, storeVars
  <1>2. StoreKeeps /\ CacheStep /\ LateStep
    BY <1>1, HalfStoredKeeps, NothingWritten
  <1>3. CASE Share(p)
    BY <1>1, <1>2, <1>3, FinishMoves, OneMovesKeeps DEF Share, End
  <1>4. CASE Enter(p)
    <2>1. at[p] = "queued" /\ at' = [at EXCEPT ![p] = "read"] /\ UNCHANGED <<task, todo, refs, since>>
      BY <1>4 DEF Enter
    <2>2. TodoOK(p)'
      BY <2>1 DEF ShelfInv, PollerOK, TodoOK
    <2>3. at'[p] = "read" /\ PollTypes' /\ \A q \in Pollers : q # p => SamePoll(q)
      BY <2>1 DEF SamePoll, ShelfInv, ShelfType, PollTypes, RegistryInv, RegistryType
    <2> QED
      BY <1>1, <1>2, <2>2, <2>3, AwayKeeps, OneMovesKeeps DEF OneMoves, Away
  <1>5. ASSUME NEW t \in Tasks, Begin(p, t)
        PROVE  ShelfInv'
    <2>1. /\ task' = [task EXCEPT ![p] = t] /\ todo' = [todo EXCEPT ![p] = OutputsOf[t]]
          /\ UNCHANGED <<refs, since>>
          /\ at' = [at EXCEPT ![p] = "queued"] \/ at' = [at EXCEPT ![p] = "read"]
      BY <1>5 DEF Begin
    <2>2. /\ at'[p] \in {"queued", "read"} /\ task'[p] = t /\ todo'[p] = OutputsOf[t] /\ PollTypes'
          /\ \A q \in Pollers : q # p => SamePoll(q)
      BY <2>1 DEF SamePoll, ShelfInv, ShelfType, PollTypes, RegistryInv, RegistryType
    <2>3. TodoOK(p)'
      <3>1. OutputsOf[t] \in Seq(OutputSet(t)) /\ Len(OutputsOf[t]) \in 1 .. Len(OutputsOf[t])
        BY TaskOutputs
      <3> QED
        BY <2>2, <3>1 DEF TodoOK
    <2> QED
      BY <1>1, <1>2, <2>2, <2>3, AwayKeeps, OneMovesKeeps DEF OneMoves, Away
  <1> QED
    BY <1>3, <1>4, <1>5
\* Nobody's polls change.
LEMMA PollsStand ==
    ASSUME RegistryInv, ShelfInv, StoreKeeps, CacheStep, LateStep,
           UNCHANGED <<now, at, task, todo, refs, since>>
    PROVE  ShelfInv'
  <1>1. ASSUME NEW q \in Pollers
        PROVE  PollerOK(q)'
    <2>1. at[q] = "copy" => since[q] <= now' /\ now' - since[q] <= Patience
      BY DEF ShelfInv, PollerOK, CopyOK
    <2> QED
      BY <2>1, SamePollKeeps DEF SamePoll
  <1>2. PollTypes'
    BY DEF ShelfInv, ShelfType, PollTypes
  <1> QED
    BY <1>1, <1>2, RowsKeep

\* A statement that was left behind ends.
LEMMA LateWriteKeepsShelf ==
    ASSUME RegistryInv, ShelfInv, NEW w \in late, LateWrite(w)
    PROVE  ShelfInv'
  <1>1. UNCHANGED <<now, data, meta, at, task, todo, refs, since>> /\ late' = late \ {w}
    BY DEF LateWrite
  <1>2. CacheStep
    <2>1. w.task \in Tasks /\ SetRow(w.task, w.row)
      BY DEF LateWrite, ShelfInv, ShelfType
    <2> QED
      BY <2>1, RowIsSet DEF CacheStep
  <1>3. StoreKeeps /\ LateStep
    BY <1>1, HalfStoredKeeps DEF LateStep
  <1> QED
    BY <1>1, <1>2, <1>3, PollsStand

\* The dead are those whose life is over.
LEMMA SweptKeeps ==
    ASSUME ShelfInv, now' = now, NEW gone \in SUBSET Dead,
           data' = data \ gone, meta' = meta \/ meta' = meta \ gone
    PROVE  StoreKeeps
  <1>1. \A a \in gone : Expired(a)
    BY DEF Dead
  <1>2. \A a \in Artifacts : a[3] + ArtifactTTL > now => ~Expired(a)
    <2> SUFFICES ASSUME NEW a \in Artifacts PROVE a[3] + ArtifactTTL > now => ~Expired(a)
      OBVIOUS
    <2>1. a[3] \in Times
      BY DEF Artifacts
    <2>2. a[3] \in Nat /\ ArtifactTTL \in Nat /\ now \in Nat
      BY <2>1, Durations DEF ShelfInv, ShelfType
    <2> QED
      BY <2>2 DEF Expired
  <1>3. \A a \in Shelf : a[3] + ArtifactTTL > now => a \in Shelf'
    BY <1>1, <1>2 DEF Shelf, ShelfInv, ShelfType
  <1>4. LookedUpIsWhole'
    BY <1>1 DEF LookedUpIsWhole, Expired, ShelfInv
  <1>5. now' \in Times /\ now <= now' /\ meta' \subseteq Artifacts
    BY DEF ShelfInv, ShelfType, Times
  <1> QED
    BY <1>3, <1>4, <1>5 DEF StoreKeeps

\* A process that dies leaves half an artifact at most, or half of a dead one.
LEMMA CrashKeepsStore ==
    ASSUME ShelfInv, Crash
    PROVE  StoreKeeps
  <1>1. now' = now
    BY DEF Crash
  <1>2. CASE UNCHANGED <<data, meta>> \/ \E a : HalfStored(a)
    BY <1>1, <1>2, HalfStoredKeeps
  <1>3. ASSUME NEW a \in Dead, data' = data \ {a}, UNCHANGED <<meta, cache>>
        PROVE  StoreKeeps
    <2>1. {a} \in SUBSET Dead
      BY <1>3
    <2> QED
      BY <1>1, <1>3, <2>1, SweptKeeps
  <1> QED
    BY <1>2, <1>3 DEF Crash, storeVars

\* A crash, between two files or before the evictions.
LEMMA CrashKeepsShelf ==
    ASSUME RegistryInv, ShelfInv, Crash
    PROVE  ShelfInv'
  <1>1. /\ now' = now /\ late' = {} /\ at' = [p \in Pollers |-> "idle"]
        /\ todo' = [p \in Pollers |-> <<>>] /\ refs' = [p \in Pollers |-> NoRefs]
        /\ since' = [p \in Pollers |-> 0]
    BY DEF Crash
  <1>2. PollTypes' /\ \A p \in Pollers : PollerOK(p)'
    BY <1>1, NoRefsIsRefs DEF PollTypes, PollerOK
  <1>3. LateStep
    BY <1>1 DEF LateStep
  <1>4. CacheStep
    <2>1. ASSUME NEW p \in Pollers, at[p] = "write", cache' = Entered(cache, task[p], RowOf(p))
          PROVE  CacheStep
      <3>1. task[p] \in Tasks
        BY <2>1 DEF RegistryInv, EntryInFlight
      <3> QED
        BY <2>1, <3>1 DEF CacheStep, Entered, ShelfInv, ShelfType
    <2>2. CASE UNCHANGED cache
      BY <2>2 DEF CacheStep, ShelfInv, ShelfType
    <2> QED
      BY <2>1, <2>2 DEF Crash, storeVars
  <1> QED
    BY <1>2, <1>3, <1>4, CrashKeepsStore, RowsKeep

\* Time does not bring back what has expired.
LEMMA TickKeepsStore ==
    ASSUME ShelfInv, Tick
    PROVE  StoreKeeps
  <1>1. now' = now + 1 /\ now < MaxTime /\ UNCHANGED <<data, meta>>
    BY DEF Tick, storeVars
  <1>2. now \in Nat /\ now + 1 \in Times /\ now <= now + 1
    BY <1>1, Durations DEF ShelfInv, ShelfType, Times
  <1>3. \A a \in Artifacts : Expired(a) => Expired(a)'
    <2> SUFFICES ASSUME NEW a \in Artifacts PROVE Expired(a) => Expired(a)'
      OBVIOUS
    <2>1. a[3] \in Times
      BY DEF Artifacts
    <2>2. a[3] \in Nat /\ ArtifactTTL \in Nat
      BY <2>1, Durations
    <2> QED
      BY <1>1, <1>2, <2>2 DEF Expired
  <1>4. LookedUpIsWhole'
    BY <1>1, <1>3 DEF LookedUpIsWhole, ShelfInv, ShelfType
  <1> QED
    BY <1>1, <1>2, <1>4 DEF StoreKeeps, Shelf, ShelfInv, ShelfType

\* Time passes: rows age with the artifacts they name.
LEMMA TickKeepsShelf ==
    ASSUME RegistryInv, ShelfInv, Tick
    PROVE  ShelfInv'
  <1>1. /\ now' = now + 1 /\ now < MaxTime
        /\ UNCHANGED <<data, meta, cache, late, at, task, todo, refs, since>>
    BY DEF Tick, storeVars, pollVars
  <1>2. now \in Nat /\ now + 1 \in Times /\ now <= now + 1
    BY <1>1, Durations DEF ShelfInv, ShelfType, Times
  <1>3. StoreKeeps
    BY TickKeepsStore
  <1>4. CacheStep /\ LateStep
    BY <1>1, NothingWritten
  <1>5. ASSUME NEW q \in Pollers
        PROVE  PollerOK(q)'
    <2>1. SamePoll(q)
      BY <1>1 DEF SamePoll
    <2>2. at[q] = "copy" => since[q] <= now' /\ now' - since[q] <= Patience
      <3> SUFFICES ASSUME at[q] = "copy" PROVE since[q] <= now' /\ now' - since[q] <= Patience
        OBVIOUS
      <3>1. now - since[q] < Patience
        BY DEF Tick
      <3>2. since[q] <= now /\ since[q] \in Nat /\ Patience \in Nat
        BY Durations DEF ShelfInv, ShelfType, PollTypes, PollerOK, CopyOK
      <3> QED
        BY <1>1, <1>2, <3>1, <3>2
    <2> QED
      BY <1>3, <2>1, <2>2, SamePollKeeps
  <1>6. PollTypes'
    BY <1>1 DEF ShelfInv, ShelfType, PollTypes
  <1> QED
    BY <1>3, <1>4, <1>5, <1>6, RowsKeep

\* The sweeper deletes what has expired.
LEMMA SweepsKeepShelf ==
    ASSUME RegistryInv, ShelfInv, SweepArtifacts \/ PruneCache \/ UNCHANGED vars
    PROVE  ShelfInv'
  <1>1. UNCHANGED <<now, at, task, todo, refs, since, late>>
    BY DEF SweepArtifacts, PruneCache, vars, pollVars
  <1>2. StoreKeeps
    <2>1. CASE SweepArtifacts
      <3>1. Dead \in SUBSET Dead
        OBVIOUS
      <3> QED
        BY <1>1, <2>1, <3>1, SweptKeeps DEF SweepArtifacts
    <2>2. CASE PruneCache \/ UNCHANGED vars
      BY <1>1, <2>2, HalfStoredKeeps DEF PruneCache, vars, storeVars
    <2> QED
      BY <2>1, <2>2
  <1>3. CacheStep
    BY DEF SweepArtifacts, PruneCache, vars, storeVars, CacheStep, ShelfInv, ShelfType
  <1>4. LateStep
    BY <1>1 DEF LateStep
  <1> QED
    BY <1>1, <1>2, <1>3, <1>4, PollsStand

\* A new server has nothing.
LEMMA ShelfInit ==
    ASSUME Init
    PROVE  ShelfInv
  <1>1. ShelfType
    BY NoRefsIsRefs DEF Init, ShelfType, PollTypes, Row, NoRow
  <1>2. \A t \in Tasks : RowOK(t, cache[t], Shelf, now)
    BY NoRowOK DEF Init
  <1> QED
    BY <1>1, <1>2 DEF Init, ShelfInv, LookedUpIsWhole, PollerOK

\* The store and the table keep their invariant.
LEMMA ShelfCorrect == Spec => []ShelfInv
  <1>1. Init => ShelfInv
    BY ShelfInit
  <1>2. RegistryInv /\ ShelfInv /\ [Next]_vars => ShelfInv'
    <2> SUFFICES ASSUME RegistryInv, ShelfInv, [Next]_vars
                 PROVE  ShelfInv'
      OBVIOUS
    <2>1. ASSUME NEW p \in Pollers, Step(p) \/ Cancel(p) \/ \E t \in Tasks : Begin(p, t)
          PROVE  ShelfInv'
      BY <2>1, CopyKeepsShelf, ReadKeepsShelf, CopyFailsKeepsShelf, WriteKeepsShelf,
         CancelKeepsShelf, QueueKeepsShelf DEF Step
    <2> QED
      BY <2>1, LateWriteKeepsShelf, CrashKeepsShelf, TickKeepsShelf, SweepsKeepShelf DEF Next
  <1> QED
    BY <1>1, <1>2, RegistryCorrect, PTL DEF Spec

\* Whatever expires, is swept or evicted, and wherever the process dies, what a
\* poll would hand out from the table is still in the store: rows die first.
THEOREM CachedCorrect == Spec => []CachedIsStored
  <1>1. ShelfInv => CachedIsStored
    <2> SUFFICES ASSUME ShelfInv, NEW t \in Tasks, Live(cache[t]), NEW o \in OutputSet(t),
                        cache[t].refs[o] # None
                 PROVE  <<t, o, cache[t].refs[o]>> \in data \cap meta
      BY DEF CachedIsStored
    <2>1. o \in Held(t, cache[t].refs) /\ RowOK(t, cache[t], Shelf, now) /\ ShelfType
      BY DEF Held, ShelfInv
    <2>2. ~Expired(<<t, o, cache[t].refs[o]>>)
      BY <2>1, RowsDieFirst DEF RowOK
    <2>3. cache[t].refs[o] + ArtifactTTL > now
      <3>1. <<t, o, cache[t].refs[o]>>[3] = cache[t].refs[o]
        OBVIOUS
      <3>2. cache[t].refs \in Refs /\ o \in Outputs
        BY <2>1, TaskOutputs DEF RowOK, Row, Held
      <3>3. cache[t].refs[o] \in Int /\ now \in Int /\ ArtifactTTL \in Int
        BY <2>1, <3>2, Durations DEF ShelfType
      <3> QED
        BY <2>2, <3>1, <3>3 DEF Expired
    <2> QED
      BY <2>1, <2>3 DEF RowOK, Stocked, Shelf
  <1> QED
    BY <1>1, ShelfCorrect, PTL

\* The two files of an artifact: one that can be looked up and has not expired
\* has its data, whatever failed or died half way.
THEOREM WholeCorrect == Spec => []LookedUpIsWhole
  <1>1. ShelfInv => LookedUpIsWhole
    BY DEF ShelfInv
  <1> QED
    BY <1>1, ShelfCorrect, PTL
-----------------------------------------------------------------------------
(***************************************************************************)
(* What an entry remembers.  Its users share an artifact that one of them  *)
(* has stored or found, so it must be in the store, and of their task: the *)
(* entry forgets with its last user.                                       *)
(***************************************************************************)

\* m, if it names an artifact of t, names one that is stored or has expired.
Kept(t, m, shelf, clock) ==
    m # None /\ m + ArtifactTTL > clock => <<t, Head(OutputsOf[t]), m>> \in shelf

MemoInv ==
    /\ memo \in [Entries -> Times \cup {None}]
    /\ \A e \in Entries : memo[e] # None => \E t \in Tasks : entries[t] = e
    /\ \A t \in Tasks : entries[t] # Nobody => Kept(t, memo[entries[t]], Shelf, now)

\* No step makes the store forget what has not expired.
LEMMA StepKeepsStore ==
    ASSUME RegistryInv, ShelfInv, [Next]_vars
    PROVE  StoreKeeps
  <1>1. ASSUME NEW p \in Pollers, Copy(p)
        PROVE  StoreKeeps
    <2>1. at[p] = "copy" /\ Stored(<<task[p], Wanted(p), now>>) /\ now' = now
      BY <1>1 DEF Copy
    <2> QED
      BY <2>1, CopiedIsArtifact, StoredKeeps
  <1>2. ASSUME NEW p \in Pollers, CopyFails(p)
        PROVE  StoreKeeps
    BY <1>2, HalfStoredKeeps DEF CopyFails
  <1>3. CASE SweepArtifacts
    <2>1. Dead \in SUBSET Dead
      OBVIOUS
    <2> QED
      BY <1>3, <2>1, SweptKeeps DEF SweepArtifacts
  <1>4. CASE \/ \E p \in Pollers : \/ Share(p) \/ Enter(p) \/ ReadHit(p) \/ ReadMiss(p) \/ ReadFails(p)
                                   \/ Write(p) \/ WriteFails(p) \/ Cancel(p)
                                   \/ \E t \in Tasks : Begin(p, t)
             \/ \E w \in late : LateWrite(w)
             \/ PruneCache \/ UNCHANGED vars
    <2>1. UNCHANGED <<now, data, meta>>
      BY <1>4 DEF Share, Enter, ReadHit, ReadMiss, ReadFails, Write, WriteFails, Cancel, Begin, LateWrite,
         PruneCache, vars, storeVars
    <2> QED
      BY <2>1, HalfStoredKeeps
  <1> QED
    BY <1>1, <1>2, <1>3, <1>4, CrashKeepsStore, TickKeepsStore DEF Next, Step

\* An artifact that an entry remembers stays where it is until it expires.
LEMMA StillKept ==
    ASSUME ShelfInv, StoreKeeps, NEW t \in Tasks, NEW m \in Times \cup {None}, Kept(t, m, Shelf, now)
    PROVE  Kept(t, m, Shelf', now')
  <1> SUFFICES ASSUME m # None, m + ArtifactTTL > now'
               PROVE  <<t, Head(OutputsOf[t]), m>> \in Shelf'
    BY DEF Kept
  <1>1. m \in Int /\ now \in Int /\ now' \in Int /\ ArtifactTTL \in Int /\ now <= now'
    BY Durations DEF ShelfInv, ShelfType, StoreKeeps
  <1>2. <<t, Head(OutputsOf[t]), m>> \in Shelf
    BY <1>1 DEF Kept
  <1>3. <<t, Head(OutputsOf[t]), m>>[3] = m
    OBVIOUS
  <1> QED
    BY <1>2, <1>3 DEF StoreKeeps

\* The output that a flight wants is the only one of its task.
LEMMA FlightWants ==
    ASSUME RegistryInv, ShelfInv, NEW p \in Pollers, at[p] # "idle", InFlight(p)
    PROVE  Wanted(p) = Head(OutputsOf[task[p]])
  <1> DEFINE s == OutputsOf[task[p]]
  <1>1. task[p] \in Tasks /\ Wanted(p) \in OutputSet(task[p])
    BY CopiedIsArtifact
  <1>2. Len(s) = 1 /\ s \in Seq(OutputSet(task[p]))
    BY <1>1, FlightAssumption, TaskOutputs DEF InFlight
  <1>3. OutputSet(task[p]) = {s[1]} /\ Head(s) = s[1]
    <2>1. 1 .. Len(s) = {1}
      BY <1>2
    <2> QED
      BY <1>2, <2>1 DEF OutputSet
  <1> QED
    BY <1>1, <1>3
\* An entry keeps its memory, forgets, or learns of a stored artifact.
LEMMA MemoKeeps ==
    ASSUME ShelfInv, StoreKeeps, MemoInv,
           memo' \in [Entries -> Times \cup {None}],
           \A e \in Entries : memo'[e] # None => \E t \in Tasks : entries'[t] = e,
           \A t \in Tasks : entries'[t] # Nobody =>
              \/ entries'[t] = entries[t] /\ memo'[entries[t]] = memo[entries[t]]
              \/ Kept(t, memo'[entries'[t]], Shelf', now'),
           entries \in [Tasks -> Entries \cup {Nobody}]
    PROVE  MemoInv'
  <1>1. ASSUME NEW t \in Tasks, entries'[t] # Nobody
        PROVE  Kept(t, memo'[entries'[t]], Shelf', now')
    <2>1. CASE entries'[t] = entries[t] /\ memo'[entries[t]] = memo[entries[t]]
      <3>1. entries[t] \in Entries /\ memo[entries[t]] \in Times \cup {None}
        BY <1>1, <2>1 DEF MemoInv
      <3>2. Kept(t, memo[entries[t]], Shelf, now)
        BY <1>1, <2>1 DEF MemoInv
      <3> QED
        BY <2>1, <3>1, <3>2, StillKept
    <2> QED
      BY <1>1, <2>1
  <1> QED
    BY <1>1 DEF MemoInv

\* Steps that touch neither the registry nor the entries.
LEMMA MemoStands ==
    ASSUME RegistryInv, ShelfInv, StoreKeeps, MemoInv, UNCHANGED <<entries, memo>>
    PROVE  MemoInv'
  BY MemoKeeps DEF MemoInv, RegistryInv, RegistryType

\* A poll that ends leaves its entry with m, or, the last user, with nothing.
LEMMA FinishRemembers ==
    ASSUME RegistryInv, ShelfInv, StoreKeeps, MemoInv, NEW p \in Pollers, at[p] # "idle",
           NEW m \in Times \cup {None}, Finish(p, m),
           mine[p] # Nobody => m = memo[mine[p]] \/ Kept(task[p], m, Shelf', now')
    PROVE  MemoInv'
  <1> DEFINE e == mine[p]
             t == task[p]
  <1>1. CASE e = Nobody
    BY <1>1, MemoStands DEF Finish, lockVars
  <1>2. CASE e # Nobody
    <2>1. e \in Entries /\ t \in Tasks /\ entries[t] = e /\ users[e] \in Nat
      BY <1>2 DEF RegistryInv, RegistryType, EntryInFlight, MineIsRegistered
    <2>2. /\ memo' = [memo EXCEPT ![e] = IF users[e] = 1 THEN None ELSE m]
          /\ users' = [users EXCEPT ![e] = users[e] - 1]
          /\ entries' = IF users'[e] = 0 THEN [entries EXCEPT ![t] = Nobody] ELSE entries
      BY <1>2 DEF Finish, Quit, Uncount, DropUnused
    <2>3. users'[e] = users[e] - 1
      BY <2>1, <2>2 DEF RegistryInv, RegistryType
    <2>4. entries' = IF users[e] = 1 THEN [entries EXCEPT ![t] = Nobody] ELSE entries
      BY <2>1, <2>2, <2>3
    <2>5. \A u \in Tasks : entries[u] = e => u = t
      BY <1>2, <2>1 DEF RegistryInv, EntriesDiffer
    <2>6. entries \in [Tasks -> Entries \cup {Nobody}] /\ memo \in [Entries -> Times \cup {None}]
      BY DEF RegistryInv, RegistryType, MemoInv
    <2>7. memo' \in [Entries -> Times \cup {None}]
      BY <2>2, <2>6
    <2> HIDE DEF e, t
    <2>8. CASE users[e] = 1
      <3>1. entries' = [entries EXCEPT ![t] = Nobody] /\ memo' = [memo EXCEPT ![e] = None]
        BY <2>2, <2>4, <2>8
      <3>2. \A f \in Entries : memo'[f] # None => \E u \in Tasks : entries'[u] = f
        <4> SUFFICES ASSUME NEW f \in Entries, memo'[f] # None
                     PROVE  \E u \in Tasks : entries'[u] = f
          OBVIOUS
        <4>1. f # e /\ memo[f] # None
          BY <2>1, <2>6, <3>1
        <4>2. PICK u \in Tasks : entries[u] = f
          BY <4>1 DEF MemoInv
        <4> QED
          BY <2>1, <2>6, <3>1, <4>1, <4>2
      <3>3. ASSUME NEW u \in Tasks, entries'[u] # Nobody
            PROVE  entries'[u] = entries[u] /\ memo'[entries[u]] = memo[entries[u]]
        <4>1. u # t /\ entries'[u] = entries[u]
          BY <2>6, <3>1, <3>3
        <4>2. entries[u] # e /\ entries[u] \in Entries
          BY <2>5, <2>6, <3>3, <4>1
        <4> QED
          BY <2>6, <3>1, <4>1, <4>2
      <3> QED
        BY <2>6, <2>7, <3>2, <3>3, MemoKeeps
    <2>9. CASE users[e] # 1
      <3>1. entries' = entries /\ memo' = [memo EXCEPT ![e] = m]
        BY <2>2, <2>4, <2>9
      <3>2. \A f \in Entries : memo'[f] # None => \E u \in Tasks : entries'[u] = f
        BY <2>1, <2>6, <3>1 DEF MemoInv
      <3>3. ASSUME NEW u \in Tasks, entries'[u] # Nobody
            PROVE  \/ entries'[u] = entries[u] /\ memo'[entries[u]] = memo[entries[u]]
                   \/ Kept(u, memo'[entries'[u]], Shelf', now')
        <4>1. CASE u = t
          <5>1. memo'[e] = m /\ entries'[u] = e
            BY <2>1, <2>6, <3>1, <4>1
          <5> QED
            BY <1>2, <2>1, <3>1, <4>1, <5>1 DEF e, t
        <4>2. CASE u # t
          <5>1. entries[u] # e /\ entries[u] \in Entries
            BY <2>5, <2>6, <3>1, <3>3, <4>2
          <5> QED
            BY <2>6, <3>1, <5>1
        <4> QED
          BY <4>1, <4>2
      <3> QED
        BY <2>6, <2>7, <3>2, <3>3, MemoKeeps
    <2> QED
      BY <2>8, <2>9
  <1> QED
    BY <1>1, <1>2

\* A poll that ends with nothing new.
LEMMA EndRemembers ==
    ASSUME RegistryInv, ShelfInv, StoreKeeps, MemoInv, NEW p \in Pollers, at[p] # "idle", End(p)
    PROVE  MemoInv'
  <1> DEFINE m == IF mine[p] = Nobody THEN None ELSE memo[mine[p]]
  <1>1. m \in Times \cup {None} /\ Finish(p, m)
    BY DEF End, MemoInv, RegistryInv, RegistryType
  <1>2. mine[p] # Nobody => m = memo[mine[p]]
    OBVIOUS
  <1> HIDE DEF m
  <1> QED
    BY <1>1, <1>2, FinishRemembers

\* The next track.
LEMMA AdvanceRemembers ==
    ASSUME RegistryInv, ShelfInv, StoreKeeps, MemoInv, NEW p \in Pollers, at[p] # "idle", Advance(p)
    PROVE  MemoInv'
  <1>1. CASE Len(todo[p]) = 1
    BY <1>1, EndRemembers DEF Advance
  <1>2. CASE Len(todo[p]) # 1
    BY <1>2, MemoStands DEF Advance, lockVars
  <1> QED
    BY <1>1, <1>2

\* A copy is over: a flight's entry learns of what was stored.
LEMMA AfterCopyRemembers ==
    ASSUME RegistryInv, ShelfInv, StoreKeeps, MemoInv, NEW p \in Pollers, at[p] = "copy",
           NEW r, AfterCopy(p, r), now' = now,
           InFlight(p) => Kept(task[p], now, Shelf', now')
    PROVE  MemoInv'
  <1>1. CASE End(p)
    BY <1>1, EndRemembers
  <1>2. CASE UNCHANGED <<entries, memo>>
    BY <1>2, MemoStands
  <1>3. CASE ~End(p) /\ ~UNCHANGED <<entries, memo>>
    <2> DEFINE e == mine[p]
               t == task[p]
    <2>1. InFlight(p) /\ UNCHANGED entries /\ memo' = [memo EXCEPT ![e] = now]
      BY <1>3 DEF AfterCopy, lockVars
    <2>2. e \in Entries /\ t \in Tasks /\ entries[t] = e
      BY <2>1 DEF RegistryInv, RegistryType, EntryInFlight, MineIsRegistered
    <2>3. \A u \in Tasks : entries[u] = e => u = t
      BY <2>2, LocksAssumption DEF RegistryInv, EntriesDiffer
    <2>4. entries \in [Tasks -> Entries \cup {Nobody}] /\ memo \in [Entries -> Times \cup {None}]
          /\ now \in Times
      BY DEF RegistryInv, RegistryType, MemoInv, ShelfInv, ShelfType
    <2>5. Kept(t, now, Shelf', now')
      BY <2>1
    <2> HIDE DEF e, t
    <2>6. memo' \in [Entries -> Times \cup {None}] /\ memo'[e] = now
      BY <2>1, <2>2, <2>4
    <2>7. \A f \in Entries : memo'[f] # None => \E u \in Tasks : entries'[u] = f
      BY <2>1, <2>2, <2>4 DEF MemoInv
    <2>8. ASSUME NEW u \in Tasks, entries'[u] # Nobody
          PROVE  \/ entries'[u] = entries[u] /\ memo'[entries[u]] = memo[entries[u]]
                 \/ Kept(u, memo'[entries'[u]], Shelf', now')
      <3>1. CASE u = t
        BY <2>1, <2>2, <2>5, <2>6, <3>1
      <3>2. CASE u # t
        BY <2>1, <2>3, <2>4, <2>8, <3>2
      <3> QED
        BY <3>1, <3>2
    <2> QED
      BY <2>4, <2>6, <2>7, <2>8, MemoKeeps
  <1> QED
    BY <1>1, <1>2, <1>3

\* What the cache shows is stored, so that it may be remembered.
LEMMA CachedIsKept ==
    ASSUME RegistryInv, ShelfInv, NEW p \in Pollers, at[p] # "idle", InFlight(p)
    PROVE  LET m == Cached(task[p])[Wanted(p)]
           IN  m \in Times \cup {None} /\ Kept(task[p], m, Shelf, now)
  <1> DEFINE t == task[p]
             o == Wanted(p)
             m == Cached(t)[o]
  <1>1. t \in Tasks /\ o \in OutputSet(t) /\ o \in Outputs /\ o = Head(OutputsOf[t])
    BY CopiedIsArtifact, FlightWants
  <1>2. RowOK(t, cache[t], Shelf, now)
    BY <1>1 DEF ShelfInv
  <1>3. CASE Live(cache[t])
    <2>1. m = cache[t].refs[o] /\ cache[t].refs \in Refs
      BY <1>2, <1>3 DEF Cached, RowOK, Row
    <2>2. m \in Times \cup {None}
      BY <1>1, <2>1 DEF Refs
    <2>3. m # None => o \in Held(t, cache[t].refs)
      BY <1>1, <2>1 DEF Held
    <2>4. Kept(t, m, Shelf, now)
      BY <1>1, <1>2, <2>1, <2>3 DEF Kept, RowOK, Stocked
    <2> QED
      BY <2>2, <2>4
  <1>4. CASE ~Live(cache[t])
    <2>1. m = None
      BY <1>1, <1>4 DEF Cached, NoRefs
    <2> QED
      BY <2>1 DEF Kept
  <1> QED
    BY <1>3, <1>4

\* Every step of a poller.
LEMMA PollerKeepsMemo ==
    ASSUME RegistryInv, ShelfInv, StoreKeeps, MemoInv, NEW p \in Pollers, Step(p) \/ Cancel(p)
    PROVE  MemoInv'
  <1>1. CASE Share(p) \/ WriteFails(p) \/ Cancel(p)
    BY <1>1, EndRemembers DEF Share, WriteFails, Cancel
  <1>2. CASE Enter(p) \/ ReadMiss(p)
    BY <1>2, MemoStands DEF Enter, Take, ReadMiss, StartCopy, lockVars
  <1>3. CASE ReadHit(p)
    <2>1. at[p] # "idle" /\ UNCHANGED <<now, data, meta>>
      BY <1>3 DEF ReadHit, storeVars
    <2>2. ASSUME InFlight(p), Finish(p, Cached(task[p])[Wanted(p)])
          PROVE  MemoInv'
      <3> DEFINE m == Cached(task[p])[Wanted(p)]
      <3>1. m \in Times \cup {None} /\ Kept(task[p], m, Shelf', now')
        BY <2>1, <2>2, CachedIsKept DEF Shelf
      <3> HIDE DEF m
      <3> QED
        BY <2>1, <2>2, <3>1, FinishRemembers DEF m
    <2> QED
      BY <1>3, <2>1, <2>2, EndRemembers, AdvanceRemembers DEF ReadHit
  <1>4. CASE ReadFails(p)
    <2>1. CASE InFlight(p)
      BY <1>4, <2>1, MemoStands DEF ReadFails, StartCopy, lockVars
    <2>2. CASE ~InFlight(p)
      BY <1>4, <2>2, EndRemembers DEF ReadFails
    <2> QED
      BY <2>1, <2>2
  <1>5. CASE Copy(p)
    <2>1. /\ at[p] = "copy" /\ Stored(<<task[p], Wanted(p), now>>) /\ now' = now
          /\ AfterCopy(p, [refs[p] EXCEPT ![Wanted(p)] = now])
      BY <1>5 DEF Copy
    <2>2. InFlight(p) => Kept(task[p], now, Shelf', now')
      BY <2>1, FlightWants DEF Kept, Stored, Shelf
    <2> QED
      BY <2>1, <2>2, AfterCopyRemembers
  <1>6. CASE CopyFails(p)
    <2>1. at[p] = "copy" /\ now' = now
      BY <1>6 DEF CopyFails
    <2>2. CASE ProtocolOf[task[p]] = "whole" /\ AfterCopy(p, refs[p])
      BY <2>1, <2>2, AfterCopyRemembers DEF InFlight
    <2> QED
      BY <1>6, <2>1, <2>2, EndRemembers, AdvanceRemembers DEF CopyFails
  <1>7. CASE Write(p)
    BY <1>7, EndRemembers, AdvanceRemembers DEF Write
  <1> QED
    BY <1>1, <1>2, <1>3, <1>4, <1>5, <1>6, <1>7 DEF Step

\* A poll begins: an entry that is made for it remembers nothing.
LEMMA BeginKeepsMemo ==
    ASSUME RegistryInv, ShelfInv, StoreKeeps, MemoInv, NEW p \in Pollers, NEW t \in Tasks, Begin(p, t)
    PROVE  MemoInv'
  <1>1. CASE UNCHANGED entries
    BY <1>1, MemoStands DEF Begin
  <1>2. CASE ~UNCHANGED entries
    <2>1. Ask(p, t) /\ memo' = memo
      BY <1>2 DEF Begin, lockVars
    <2>2. PICK e \in Entries : /\ IF entries[t] = Nobody THEN Fresh(e) ELSE e = entries[t]
                               /\ entries' = [entries EXCEPT ![t] = e]
      BY <2>1 DEF Ask
    <2>3. entries \in [Tasks -> Entries \cup {Nobody}] /\ memo \in [Entries -> Times \cup {None}]
      BY DEF RegistryInv, RegistryType, MemoInv
    <2>4. entries[t] = Nobody /\ Fresh(e)
      BY <1>2, <2>2, <2>3
    <2>5. memo[e] = None
      BY <2>4 DEF Fresh, MemoInv
    <2>6. \A f \in Entries : memo'[f] # None => \E u \in Tasks : entries'[u] = f
      <3> SUFFICES ASSUME NEW f \in Entries, memo[f] # None
                   PROVE  \E u \in Tasks : entries'[u] = f
        BY <2>1
      <3>1. PICK u \in Tasks : entries[u] = f
        BY DEF MemoInv
      <3>2. u # t
        BY <2>4, <3>1, LocksAssumption
      <3> QED
        BY <2>2, <2>3, <3>1, <3>2
    <2>7. ASSUME NEW u \in Tasks, entries'[u] # Nobody
          PROVE  \/ entries'[u] = entries[u] /\ memo'[entries[u]] = memo[entries[u]]
                 \/ Kept(u, memo'[entries'[u]], Shelf', now')
      <3>1. CASE u = t
        BY <2>1, <2>2, <2>3, <2>5, <3>1 DEF Kept
      <3>2. CASE u # t
        BY <2>1, <2>2, <2>3, <3>2
      <3> QED
        BY <3>1, <3>2
    <2> QED
      BY <2>1, <2>3, <2>6, <2>7, MemoKeeps
  <1> QED
    BY <1>1, <1>2

\* What the entries remember, in every state.
LEMMA MemoCorrect == Spec => []MemoInv
  <1>1. Init => MemoInv
    BY DEF Init, LocksInit, MemoInv, Kept
  <1>2. RegistryInv /\ ShelfInv /\ MemoInv /\ [Next]_vars => MemoInv'
    <2> SUFFICES ASSUME RegistryInv, ShelfInv, MemoInv, [Next]_vars
                 PROVE  MemoInv'
      OBVIOUS
    <2>1. StoreKeeps
      BY StepKeepsStore
    <2>2. ASSUME NEW p \in Pollers, Step(p) \/ Cancel(p) \/ \E t \in Tasks : Begin(p, t)
          PROVE  MemoInv'
      BY <2>1, <2>2, PollerKeepsMemo, BeginKeepsMemo
    <2>3. CASE Crash
      BY <2>3 DEF Crash, MemoInv
    <2>4. CASE (\E w \in late : LateWrite(w)) \/ Tick \/ SweepArtifacts \/ PruneCache \/ UNCHANGED vars
      <3>1. UNCHANGED <<entries, memo>>
        BY <2>4 DEF LateWrite, Tick, SweepArtifacts, PruneCache, vars, lockVars
      <3> QED
        BY <2>1, <3>1, MemoStands
    <2> QED
      BY <2>2, <2>3, <2>4 DEF Next
  <1> QED
    BY <1>1, <1>2, RegistryCorrect, ShelfCorrect, PTL DEF Spec

\* What pollers share through an entry is an artifact of their task, in the
\* store with both its files until it expires: an entry learns only of what was
\* stored or found, and forgets before another task may use its identity.
THEOREM RememberedCorrect == Spec => []RememberedIsStored
  <1>1. RegistryInv /\ ShelfInv /\ MemoInv => RememberedIsStored
    <2> SUFFICES ASSUME RegistryInv, ShelfInv, MemoInv, NEW p \in Pollers, mine[p] # Nobody,
                        memo[mine[p]] # None
                 PROVE  LET a == <<task[p], Head(OutputsOf[task[p]]), memo[mine[p]]>>
                        IN a \in data \cap meta \/ Expired(a)
      BY DEF RememberedIsStored
    <2> DEFINE m == memo[mine[p]]
               a == <<task[p], Head(OutputsOf[task[p]]), m>>
    <2>1. task[p] \in Tasks /\ entries[task[p]] = mine[p] /\ mine[p] \in Entries
      BY DEF RegistryInv, RegistryType, EntryInFlight, MineIsRegistered
    <2>2. Kept(task[p], m, Shelf, now)
      BY <2>1 DEF MemoInv
    <2>3. m \in Int /\ now \in Int /\ ArtifactTTL \in Int
      <3>1. m \in Times /\ now \in Times
        BY <2>1 DEF MemoInv, ShelfInv, ShelfType
      <3> HIDE DEF m
      <3> QED
        BY <3>1, Durations
    <2>4. CASE m + ArtifactTTL > now
      BY <2>2, <2>4 DEF Kept, Shelf
    <2>5. CASE ~(m + ArtifactTTL > now)
      <3>1. a[3] = m
        OBVIOUS
      <3>2. m + ArtifactTTL <= now
        <4> HIDE DEF m
        <4> QED
          BY <2>3, <2>5
      <3>3. Expired(a)
        <4> HIDE DEF m, a
        <4> QED
          BY <3>1, <3>2 DEF Expired
      <3> QED
        BY <3>3
    <2> QED
      BY <2>4, <2>5
  <1> QED
    BY <1>1, RegistryCorrect, ShelfCorrect, MemoCorrect, PTL

-----------------------------------------------------------------------------
(* A flight copies what nobody has.                                        *)

\* Inside a flight the entry remembers nothing, and the table shows nothing that
\* the poller could have seen.
FlightOK(p) ==
    InFlight(p) =>
        /\ at[p] \in {"read", "copy"} => memo[mine[p]] = None
        /\ at[p] = "copy" => (Cached(task[p])[Wanted(p)] # None => excused[p])

FlightInv ==
    /\ DOMAIN memo = Entries /\ DOMAIN excused = Pollers
    /\ \A p \in Pollers : FlightOK(p)

\* A poller that is not concerned keeps its flight.
SameFlight(p) ==
    /\ at'[p] = at[p] /\ task'[p] = task[p] /\ todo'[p] = todo[p] /\ mine'[p] = mine[p]
    /\ excused[p] => excused'[p]

\* A poller that is not concerned keeps its flight, unless its row shows
\* something new.
LEMMA SameFlightKeeps ==
    ASSUME RegistryInv, ShelfInv, FlightInv, NEW p \in Pollers, SameFlight(p),
           now' \in Times, now <= now',
           at[p] \in {"read", "copy"} /\ InFlight(p) => memo'[mine[p]] \in {memo[mine[p]], None},
           at[p] = "copy" /\ InFlight(p) =>
              cache'[task[p]] \in {cache[task[p]], NoRow} \/ excused'[p]
    PROVE  FlightOK(p)'
  <1> SUFFICES ASSUME InFlight(p)' PROVE FlightOK(p)'
    BY DEF FlightOK
  <1>1. InFlight(p)
    BY DEF SameFlight, InFlight
  <1>2. at'[p] \in {"read", "copy"} => memo'[mine'[p]] = None
    BY <1>1 DEF SameFlight, FlightInv, FlightOK
  <1>3. ASSUME at'[p] = "copy", ~excused'[p]
        PROVE  Cached(task[p])'[Wanted(p)'] = None
    <2>1. /\ at[p] = "copy" /\ ~excused[p] /\ task'[p] = task[p] /\ Wanted(p)' = Wanted(p)
          /\ cache'[task[p]] \in {cache[task[p]], NoRow}
      BY <1>1, <1>3 DEF SameFlight, Wanted
    <2>2. task[p] \in Tasks /\ TodoOK(p)
      BY <2>1 DEF ShelfInv, PollerOK, RegistryInv, EntryInFlight
    <2>3. Wanted(p) \in Outputs
      <3>1. todo[p] \in Seq(OutputSet(task[p])) /\ todo[p] # <<>>
        BY <2>2, TaskOutputs DEF TodoOK
      <3>2. Head(todo[p]) \in OutputSet(task[p])
        BY <3>1
      <3> QED
        BY <2>2, <3>2, TaskOutputs DEF Wanted
    <2>4. NoRefs[Wanted(p)] = None
      BY <2>3 DEF NoRefs
    <2>5. Cached(task[p])[Wanted(p)] = None
      BY <1>1, <2>1 DEF FlightInv, FlightOK
    <2>6. CASE cache'[task[p]] = NoRow
      BY <2>1, <2>4, <2>6 DEF Cached, Live, NoRow
    <2>7. CASE cache'[task[p]] = cache[task[p]]
      <3>1. cache[task[p]].created \in Int /\ now \in Int /\ now' \in Int /\ CacheTTL \in Int
        <4>1. cache[task[p]] \in Row
          BY <2>2 DEF ShelfInv, ShelfType
        <4>2. cache[task[p]].created \in Times \cup {None}
          BY <4>1 DEF Row
        <4>3. cache[task[p]].created \in Int
          BY <4>2 DEF None, Times
        <4>4. now \in Int /\ now' \in Int
          BY DEF ShelfInv, ShelfType, Times
        <4>5. CacheTTL \in Int
          BY Durations
        <4> QED
          BY <4>3, <4>4, <4>5
      <3>2. now' - cache[task[p]].created <= CacheTTL => now - cache[task[p]].created <= CacheTTL
        BY <3>1
      <3>3. Live(cache[task[p]])' => Live(cache[task[p]])
        BY <2>7, <2>1, <3>2 DEF Live
      <3> QED
        BY <2>1, <2>4, <2>5, <2>7, <3>2 DEF Cached, Live
    <2> QED
      BY <2>1, <2>6, <2>7
  <1> QED
    BY <1>2, <1>3 DEF FlightOK, SameFlight

\* One poller acts: it may change what its own entry remembers while it works in
\* a flight, and write its own task's row.
Acts(q) ==
    /\ now' = now /\ DOMAIN memo' = Entries /\ DOMAIN excused' = Pollers
    /\ \A p \in Pollers : p # q => SameFlight(p)
    /\ \A e \in Entries : \/ memo'[e] \in {memo[e], None}
                          \/ at[q] \in Working /\ InFlight(q) /\ e = mine[q]
    /\ \A t \in Tasks : \/ cache'[t] \in {cache[t], NoRow}
                        \/ at[q] = "write" /\ t = task[q]
    /\ FlightOK(q)'

\* A step of one poller keeps the flights of all: no other is inside its task's
\* flight.
LEMMA ActsKeeps ==
    ASSUME RegistryInv, ShelfInv, FlightInv, NEW q \in Pollers, Acts(q)
    PROVE  FlightInv'
  <1>1. ASSUME NEW p \in Pollers, p # q
        PROVE  FlightOK(p)'
    <2>1. ASSUME at[p] \in {"read", "copy"}, InFlight(p)
          PROVE  /\ mine[p] \in Entries /\ task[p] \in Tasks
                 /\ ~ (at[q] \in Working /\ InFlight(q) /\ mine[q] = mine[p])
                 /\ ~ (at[q] = "write" /\ task[q] = task[p])
      <3>1. holder[mine[p]] = p /\ mine[p] # Nobody /\ task[p] \in Tasks
        BY <2>1 DEF RegistryInv, WorkingHolds, EntryInFlight, Working
      <3>2. mine[p] \in Entries /\ entries[task[p]] = mine[p]
        BY <3>1 DEF RegistryInv, RegistryType, MineIsRegistered
      <3>3. at[q] \in Working /\ InFlight(q) => holder[mine[q]] = q
        BY DEF RegistryInv, WorkingHolds
      <3>4. ASSUME at[q] = "write", task[q] = task[p] PROVE FALSE
        <4>1. at[q] \in Working /\ InFlight(q)
          BY <2>1, <3>4 DEF InFlight, Working
        <4>2. mine[q] # Nobody
          BY <3>4, <4>1 DEF RegistryInv, EntryInFlight, Working
        <4>3. mine[q] = mine[p]
          BY <3>2, <3>4, <4>2 DEF RegistryInv, MineIsRegistered
        <4> QED
          BY <1>1, <3>1, <3>3, <4>1, <4>3
      <3> QED
        BY <1>1, <3>1, <3>2, <3>3, <3>4
    <2>2. now' \in Times /\ now <= now'
      BY DEF Acts, ShelfInv, ShelfType, Times
    <2>3. SameFlight(p)
      BY <1>1 DEF Acts
    <2>4. at[p] \in {"read", "copy"} /\ InFlight(p) => memo'[mine[p]] \in {memo[mine[p]], None}
      BY <2>1 DEF Acts
    <2>5. at[p] = "copy" /\ InFlight(p) => cache'[task[p]] \in {cache[task[p]], NoRow}
      BY <2>1 DEF Acts
    <2> QED
      BY <2>2, <2>3, <2>4, <2>5, SameFlightKeeps
  <1> QED
    BY <1>1 DEF FlightInv, Acts

\* A poll that ends.
LEMMA FinishActs ==
    ASSUME RegistryInv, ShelfInv, FlightInv, NEW q \in Pollers, at[q] # "idle",
           NEW m, Finish(q, m), m \in {memo[mine[q]], None} \/ at[q] \in Working,
           now' = now,
           \A t \in Tasks : cache'[t] \in {cache[t], NoRow} \/ (at[q] = "write" /\ t = task[q])
    PROVE  Acts(q)
  <1>1. /\ at' = [at EXCEPT ![q] = "idle"] /\ task' = [task EXCEPT ![q] = Nobody]
        /\ todo' = [todo EXCEPT ![q] = <<>>] /\ excused' = [excused EXCEPT ![q] = FALSE]
    BY DEF Finish
  <1>2. /\ mine' = mine \/ mine' = [mine EXCEPT ![q] = Nobody]
        /\ memo' = memo \/ (mine[q] # Nobody /\ memo' = [memo EXCEPT ![mine[q]] = m])
                        \/ (mine[q] # Nobody /\ memo' = [memo EXCEPT ![mine[q]] = None])
    BY DEF Finish, Quit, lockVars
  <1>3. mine[q] # Nobody => InFlight(q)
    BY DEF RegistryInv, EntryInFlight
  <1>4. at'[q] = "idle" /\ \A p \in Pollers : p # q => SameFlight(p)
    BY <1>1, <1>2 DEF SameFlight, RegistryInv, RegistryType, ShelfInv, ShelfType, PollTypes, FlightInv
  <1>5. \A e \in Entries : memo'[e] \in {memo[e], None} \/ (at[q] \in Working /\ InFlight(q) /\ e = mine[q])
    BY <1>2, <1>3 DEF FlightInv
  <1>6. DOMAIN memo' = Entries /\ DOMAIN excused' = Pollers
    BY <1>1, <1>2 DEF FlightInv
  <1>7. FlightOK(q)'
    BY <1>4 DEF FlightOK
  <1> QED
    BY <1>4, <1>5, <1>6, <1>7 DEF Acts

\* A poll that ends and leaves the entry's memory.
LEMMA EndActs ==
    ASSUME RegistryInv, ShelfInv, FlightInv, NEW q \in Pollers, at[q] # "idle", End(q), now' = now,
           \A t \in Tasks : cache'[t] \in {cache[t], NoRow} \/ (at[q] = "write" /\ t = task[q])
    PROVE  Acts(q)
  BY FinishActs DEF End

\* A poller without a flight goes on.
LEMMA AdvanceActs ==
    ASSUME RegistryInv, ShelfInv, FlightInv, NEW q \in Pollers, at[q] # "idle", Advance(q),
           ~InFlight(q), now' = now,
           \A t \in Tasks : cache'[t] \in {cache[t], NoRow} \/ (at[q] = "write" /\ t = task[q])
    PROVE  Acts(q)
  <1>1. CASE Len(todo[q]) = 1
    BY <1>1, EndActs DEF Advance
  <1>2. CASE Len(todo[q]) # 1
    <2>1. /\ at' = [at EXCEPT ![q] = "read"] /\ todo' = [todo EXCEPT ![q] = Tail(todo[q])]
          /\ excused' = [excused EXCEPT ![q] = FALSE] /\ UNCHANGED <<mine, memo, task>>
      BY <1>2 DEF Advance, lockVars
    <2>2. \A p \in Pollers : p # q => SameFlight(p)
      BY <2>1 DEF SameFlight, RegistryInv, RegistryType, ShelfInv, ShelfType, PollTypes, FlightInv
    <2>3. ~InFlight(q)' /\ DOMAIN memo' = Entries /\ DOMAIN excused' = Pollers
      BY <2>1 DEF InFlight, FlightInv
    <2>4. FlightOK(q)' /\ \A e \in Entries : memo'[e] = memo[e]
      BY <2>1, <2>3 DEF FlightOK
    <2> QED
      BY <2>2, <2>3, <2>4 DEF Acts
  <1> QED
    BY <1>1, <1>2

\* A copy begins: the cache shows nothing, or did not answer.
LEMMA StartCopyActs ==
    ASSUME RegistryInv, ShelfInv, FlightInv, NEW q \in Pollers, at[q] = "read",
           NEW known, NEW unseen, StartCopy(q, known, unseen), UNCHANGED <<now, cache>>,
           Cached(task[q])[Wanted(q)] # None /\ InFlight(q) => unseen
    PROVE  Acts(q)
  <1>1. /\ at' = [at EXCEPT ![q] = "copy"] /\ excused' = [excused EXCEPT ![q] = unseen]
        /\ UNCHANGED <<mine, memo, task, todo>>
    BY DEF StartCopy, lockVars
  <1>2. \A p \in Pollers : p # q => SameFlight(p)
    BY <1>1 DEF SameFlight, RegistryInv, RegistryType, ShelfInv, ShelfType, PollTypes, FlightInv
  <1>3. /\ at'[q] = "copy" /\ excused'[q] = unseen /\ DOMAIN memo' = Entries
        /\ DOMAIN excused' = Pollers
    BY <1>1 DEF RegistryInv, RegistryType, FlightInv
  <1>4. InFlight(q)' => InFlight(q) /\ memo[mine[q]] = None
    BY <1>1 DEF InFlight, FlightInv, FlightOK
  <1>5. Cached(task[q])'[Wanted(q)'] = Cached(task[q])[Wanted(q)]
    BY <1>1 DEF Cached, Live, Wanted
  <1>6. FlightOK(q)'
    BY <1>1, <1>3, <1>4, <1>5 DEF FlightOK
  <1>7. /\ \A e \in Entries : memo'[e] = memo[e]
        /\ \A t \in Tasks : cache'[t] = cache[t]
    BY <1>1
  <1> QED
    BY <1>2, <1>3, <1>6, <1>7 DEF Acts

\* A copy is over.
LEMMA AfterCopyActs ==
    ASSUME RegistryInv, ShelfInv, FlightInv, NEW q \in Pollers, at[q] = "copy", NEW r,
           AfterCopy(q, r), UNCHANGED <<now, cache>>
    PROVE  Acts(q)
  <1>1. CASE ProtocolOf[task[q]] = "whole" /\ Len(todo[q]) > 1
    <2>1. todo' = [todo EXCEPT ![q] = Tail(todo[q])] /\ UNCHANGED <<mine, memo, at, task, excused>>
      BY <1>1 DEF AfterCopy, lockVars
    <2>2. \A p \in Pollers : p # q => SameFlight(p)
      BY <2>1 DEF SameFlight, RegistryInv, RegistryType, ShelfInv, ShelfType, PollTypes, FlightInv
    <2>3. ~InFlight(q)' /\ DOMAIN memo' = Entries /\ DOMAIN excused' = Pollers
      BY <1>1, <2>1 DEF InFlight, FlightInv
    <2>4. FlightOK(q)' /\ \A e \in Entries : memo'[e] = memo[e]
      BY <2>1, <2>3 DEF FlightOK
    <2>5. \A t \in Tasks : cache'[t] = cache[t]
      OBVIOUS
    <2> QED
      BY <2>2, <2>3, <2>4, <2>5 DEF Acts
  <1>2. CASE End(q)
    BY <1>2, EndActs
  <1>3. CASE ~ (ProtocolOf[task[q]] = "whole" /\ Len(todo[q]) > 1) /\ ~ End(q)
    <2>1. /\ at' = [at EXCEPT ![q] = "write"] /\ UNCHANGED <<mine, task, todo, excused>>
          /\ memo' = IF InFlight(q) THEN [memo EXCEPT ![mine[q]] = now] ELSE memo
      BY <1>3 DEF AfterCopy, lockVars
    <2>2. /\ at'[q] = "write" /\ \A p \in Pollers : p # q => SameFlight(p)
      BY <2>1 DEF SameFlight, RegistryInv, RegistryType, ShelfInv, ShelfType, PollTypes, FlightInv
    <2>3. /\ DOMAIN memo' = Entries /\ DOMAIN excused' = Pollers
          /\ \A e \in Entries : memo'[e] = memo[e] \/ (InFlight(q) /\ e = mine[q])
      BY <2>1 DEF FlightInv
    <2>4. FlightOK(q)' /\ at[q] \in Working /\ \A t \in Tasks : cache'[t] = cache[t]
      BY <2>2 DEF FlightOK, Working
    <2> QED
      BY <2>2, <2>3, <2>4 DEF Acts
  <1> QED
    BY <1>1, <1>2, <1>3

\* Every step of a poller is such a step.
LEMMA PollerKeepsFlight ==
    ASSUME RegistryInv, ShelfInv, FlightInv, NEW q \in Pollers,
           Step(q) \/ Cancel(q) \/ \E t \in Tasks : Begin(q, t)
    PROVE  FlightInv'
  <1>1. CASE Share(q)
    BY <1>1, EndActs, ActsKeeps DEF Share, storeVars
  <1>2. CASE Enter(q)
    <2>1. /\ at[q] = "queued" /\ memo[mine[q]] = None /\ at' = [at EXCEPT ![q] = "read"]
          /\ UNCHANGED <<now, cache, memo, mine, task, todo, excused>>
      BY <1>2 DEF Enter, Take, storeVars
    <2>2. /\ at'[q] = "read" /\ \A p \in Pollers : p # q => SameFlight(p)
      BY <2>1 DEF SameFlight, RegistryInv, RegistryType
    <2>3. FlightOK(q)'
      BY <2>1, <2>2 DEF FlightOK
    <2>4. /\ DOMAIN memo' = Entries /\ DOMAIN excused' = Pollers
          /\ \A e \in Entries : memo'[e] = memo[e]
          /\ \A t \in Tasks : cache'[t] = cache[t]
      BY <2>1 DEF FlightInv
    <2> QED
      BY <2>1, <2>2, <2>3, <2>4, ActsKeeps DEF Acts
  <1>3. CASE ReadHit(q)
    <2>1. at[q] = "read" /\ UNCHANGED <<now, cache>> /\ at[q] # "idle" /\ at[q] \in Working
      BY <1>3 DEF ReadHit, storeVars, Working
    <2>2. CASE \E m : Finish(q, m)
      BY <2>1, <2>2, FinishActs, ActsKeeps
    <2>3. CASE ProtocolOf[task[q]] = "tracks" /\ Advance(q)
      BY <2>1, <2>3, AdvanceActs, ActsKeeps DEF InFlight
    <2> QED
      BY <1>3, <2>2, <2>3 DEF ReadHit, End
  <1>4. CASE ReadMiss(q)
    <2>1. at[q] = "read" /\ UNCHANGED <<now, cache>> /\ \E known : StartCopy(q, known, FALSE)
      BY <1>4 DEF ReadMiss, storeVars
    <2>2. InFlight(q) => Cached(task[q])[Wanted(q)] = None
      BY <1>4 DEF ReadMiss, Hit, InFlight
    <2> QED
      BY <2>1, <2>2, StartCopyActs, ActsKeeps
  <1>5. CASE ReadFails(q)
    <2>1. at[q] = "read" /\ UNCHANGED <<now, cache>>
      BY <1>5 DEF ReadFails, storeVars
    <2> QED
      BY <1>5, <2>1, StartCopyActs, EndActs, ActsKeeps DEF ReadFails
  <1>6. CASE Copy(q)
    BY <1>6, AfterCopyActs, ActsKeeps DEF Copy
  <1>7. CASE CopyFails(q)
    <2>1. at[q] = "copy" /\ UNCHANGED <<now, cache>>
      BY <1>7 DEF CopyFails
    <2>2. \/ End(q) \/ AfterCopy(q, refs[q])
          \/ ProtocolOf[task[q]] = "tracks" /\ Advance(q)
      BY <1>7 DEF CopyFails
    <2> QED
      BY <2>1, <2>2, EndActs, AfterCopyActs, AdvanceActs, ActsKeeps DEF InFlight
  <1>8. CASE Write(q)
    <2>1. /\ at[q] = "write" /\ now' = now /\ task[q] \in Tasks /\ SetRow(task[q], RowOf(q))
          /\ End(q) \/ (ProtocolOf[task[q]] = "tracks" /\ Advance(q))
      BY <1>8 DEF Write, RegistryInv, EntryInFlight
    <2>2. \A t \in Tasks : cache'[t] \in {cache[t], NoRow} \/ (at[q] = "write" /\ t = task[q])
      BY <2>1, RowIsSet
    <2> QED
      BY <2>1, <2>2, EndActs, AdvanceActs, ActsKeeps DEF InFlight
  <1>9. CASE WriteFails(q)
    BY <1>9, EndActs, ActsKeeps DEF WriteFails, storeVars
  <1>10. CASE Cancel(q)
    BY <1>10, EndActs, ActsKeeps DEF Cancel, storeVars
  <1>11. ASSUME NEW t \in Tasks, Begin(q, t)
         PROVE  FlightInv'
    <2>1. /\ at[q] = "idle" /\ task' = [task EXCEPT ![q] = t] /\ todo' = [todo EXCEPT ![q] = OutputsOf[t]]
          /\ UNCHANGED <<now, cache, memo, excused>>
          /\ \/ at' = [at EXCEPT ![q] = "queued"]
             \/ ProtocolOf[t] # "flight" /\ at' = [at EXCEPT ![q] = "read"]
          /\ mine' = mine \/ \E e \in Entries : mine' = [mine EXCEPT ![q] = e]
      BY <1>11 DEF Begin, Ask, storeVars, lockVars
    <2>2. \A p \in Pollers : p # q => SameFlight(p)
      BY <2>1 DEF SameFlight, RegistryInv, RegistryType, ShelfInv, ShelfType, PollTypes
    <2>3. at'[q] = "queued" \/ ~InFlight(q)'
      BY <2>1 DEF InFlight, RegistryInv, RegistryType
    <2>4. FlightOK(q)'
      <3>1. CASE at'[q] = "queued"
        BY <3>1 DEF FlightOK
      <3>2. CASE ~InFlight(q)'
        BY <3>2 DEF FlightOK
      <3> QED
        BY <2>3, <3>1, <3>2
    <2>5. /\ DOMAIN memo' = Entries /\ DOMAIN excused' = Pollers
          /\ \A e \in Entries : memo'[e] = memo[e]
          /\ \A u \in Tasks : cache'[u] = cache[u]
      BY <2>1 DEF FlightInv
    <2> QED
      BY <2>1, <2>2, <2>4, <2>5, ActsKeeps DEF Acts
  <1> QED
    BY <1>1, <1>2, <1>3, <1>4, <1>5, <1>6, <1>7, <1>8, <1>9, <1>10, <1>11 DEF Step

\* Steps that are nobody's poll.
LEMMA OthersKeepFlight ==
    ASSUME RegistryInv, ShelfInv, FlightInv, UNCHANGED <<at, task, todo, mine, memo>>,
           now' \in Times, now <= now', DOMAIN excused' = Pollers,
           \A p \in Pollers :
              /\ excused[p] => excused'[p]
              /\ at[p] = "copy" => cache'[task[p]] \in {cache[task[p]], NoRow} \/ excused'[p]
    PROVE  FlightInv'
  <1>1. \A p \in Pollers : FlightOK(p)'
    BY SameFlightKeeps DEF SameFlight
  <1> QED
    BY <1>1 DEF FlightInv

\* The inductive step.
LEMMA FlightInductive ==
    ASSUME RegistryInv, ShelfInv, FlightInv, [Next]_vars
    PROVE  FlightInv'
  <1>1. now \in Times /\ now \in Nat
    BY Durations DEF ShelfInv, ShelfType
  <1>2. ASSUME NEW w \in late, LateWrite(w)
        PROVE  FlightInv'
    <2>1. /\ UNCHANGED <<now, at, task, todo, mine, memo>>
          /\ excused' = [p \in Pollers |-> excused[p] \/ (at[p] = "copy" /\ task[p] = w.task)]
          /\ w.task \in Tasks /\ SetRow(w.task, w.row)
      BY <1>2 DEF LateWrite, lockVars, ShelfInv, ShelfType
    <2>2. \A t \in Tasks : cache'[t] \in {cache[t], NoRow} \/ t = w.task
      BY <2>1, RowIsSet
    <2>3. \A p \in Pollers : at[p] = "copy" => task[p] \in Tasks
      BY DEF RegistryInv, EntryInFlight
    <2>4. ASSUME NEW p \in Pollers
          PROVE  /\ excused[p] => excused'[p]
                 /\ at[p] = "copy" => cache'[task[p]] \in {cache[task[p]], NoRow} \/ excused'[p]
      BY <2>1, <2>2, <2>3
    <2>5. now' \in Times /\ now <= now' /\ DOMAIN excused' = Pollers
      BY <1>1, <2>1
    <2> QED
      BY <2>1, <2>4, <2>5, OthersKeepFlight
  <1>3. CASE Crash
    BY <1>3 DEF Crash, FlightInv, FlightOK
  <1>4. CASE Tick
    <2>1. /\ now' = now + 1 /\ now < MaxTime /\ UNCHANGED <<cache, at, task, todo, mine, memo, excused>>
      BY <1>4 DEF Tick, lockVars, storeVars, pollVars
    <2>2. now' \in Times /\ now <= now'
      BY <1>1, <2>1, Durations DEF Times
    <2> QED
      BY <2>1, <2>2, OthersKeepFlight DEF FlightInv
  <1>5. CASE SweepArtifacts \/ PruneCache \/ UNCHANGED vars
    <2>1. UNCHANGED <<now, at, task, todo, mine, memo, excused>>
      BY <1>5 DEF SweepArtifacts, PruneCache, vars, lockVars, pollVars
    <2>2. \A t \in Tasks : cache'[t] \in {cache[t], NoRow}
      BY <1>5 DEF SweepArtifacts, PruneCache, vars, storeVars
    <2>3. \A p \in Pollers : at[p] = "copy" => task[p] \in Tasks
      BY DEF RegistryInv, EntryInFlight
    <2> QED
      BY <1>1, <2>1, <2>2, <2>3, OthersKeepFlight DEF FlightInv
  <1> QED
    BY <1>2, <1>3, <1>4, <1>5, PollerKeepsFlight DEF Next

\* Single flight saves copies: whatever is cancelled, fails or dies, a poller of
\* an enhancement or subtitle task copies only what neither the entry remembers
\* nor the table shows.
THEOREM FlightCopiesCorrect == Spec => []FlightCopiesAreNeeded
  <1>1. Init => FlightInv
    BY DEF Init, FlightInv, FlightOK
  <1>2. RegistryInv /\ ShelfInv /\ FlightInv /\ [Next]_vars => FlightInv'
    BY FlightInductive
  <1>3. FlightInv => FlightCopiesAreNeeded
    BY DEF FlightInv, FlightOK, FlightCopiesAreNeeded
  <1> QED
    BY <1>1, <1>2, <1>3, RegistryCorrect, ShelfCorrect, PTL DEF Spec

-----------------------------------------------------------------------------
(* The types of everything.                                                *)

RestInv ==
    /\ data \subseteq Artifacts
    /\ \A p \in Pollers : at[p] = "idle" => todo[p] = <<>>
    /\ excused \in [Pollers -> BOOLEAN]
    /\ polls \in 0 .. MaxPolls

\* A poll that ends has nothing left to copy.
LEMMA FinishRests ==
    ASSUME RegistryInv, ShelfInv, RestInv, NEW p \in Pollers, NEW m, Finish(p, m)
    PROVE  /\ \A q \in Pollers : at'[q] = "idle" => todo'[q] = <<>>
           /\ excused' \in [Pollers -> BOOLEAN]
  <1>1. /\ at' = [at EXCEPT ![p] = "idle"] /\ todo' = [todo EXCEPT ![p] = <<>>]
        /\ excused' = [excused EXCEPT ![p] = FALSE]
    BY DEF Finish
  <1>2. DOMAIN todo = Pollers
    BY DEF ShelfInv, ShelfType, PollTypes
  <1> QED
    BY <1>1, <1>2 DEF RestInv, RegistryInv, RegistryType

\* Nor has anybody who goes on stopped.
LEMMA AdvanceRests ==
    ASSUME RegistryInv, ShelfInv, RestInv, NEW p \in Pollers, Advance(p)
    PROVE  /\ \A q \in Pollers : at'[q] = "idle" => todo'[q] = <<>>
           /\ excused' \in [Pollers -> BOOLEAN]
  <1>1. CASE Len(todo[p]) = 1
    BY <1>1, FinishRests DEF Advance, End
  <1>2. CASE Len(todo[p]) # 1
    <2>1. /\ at' = [at EXCEPT ![p] = "read"] /\ todo' = [todo EXCEPT ![p] = Tail(todo[p])]
          /\ excused' = [excused EXCEPT ![p] = FALSE]
      BY <1>2 DEF Advance
    <2> QED
      BY <2>1 DEF RestInv, RegistryInv, RegistryType, ShelfInv, ShelfType, PollTypes
  <1> QED
    BY <1>1, <1>2

\* A copy that begins.
LEMMA StartCopyRests ==
    ASSUME RegistryInv, ShelfInv, RestInv, NEW p \in Pollers, NEW known, NEW unseen \in BOOLEAN,
           StartCopy(p, known, unseen)
    PROVE  /\ \A q \in Pollers : at'[q] = "idle" => todo'[q] = <<>>
           /\ excused' \in [Pollers -> BOOLEAN]
  BY DEF StartCopy, RestInv, RegistryInv, RegistryType

\* A copy that is over.
LEMMA AfterCopyRests ==
    ASSUME RegistryInv, ShelfInv, RestInv, NEW p \in Pollers, at[p] = "copy", NEW r, AfterCopy(p, r)
    PROVE  /\ \A q \in Pollers : at'[q] = "idle" => todo'[q] = <<>>
           /\ excused' \in [Pollers -> BOOLEAN]
  <1>1. CASE End(p)
    BY <1>1, FinishRests DEF End
  <1>2. CASE todo' = [todo EXCEPT ![p] = Tail(todo[p])] /\ UNCHANGED <<at, excused>>
    BY <1>2 DEF RestInv, ShelfInv, ShelfType, PollTypes
  <1>3. CASE at' = [at EXCEPT ![p] = "write"] /\ UNCHANGED <<todo, excused>>
    BY <1>3 DEF RestInv, RegistryInv, RegistryType
  <1> QED
    BY <1>1, <1>2, <1>3 DEF AfterCopy

\* A step of a poller keeps the rest.
LEMMA PollerKeepsRest ==
    ASSUME RegistryInv, ShelfInv, RestInv, NEW p \in Pollers,
           Step(p) \/ Cancel(p) \/ \E t \in Tasks : Begin(p, t)
    PROVE  RestInv'
  <1> DEFINE Rests == /\ \A q \in Pollers : at'[q] = "idle" => todo'[q] = <<>>
                      /\ excused' \in [Pollers -> BOOLEAN]
  <1>1. data' \subseteq Artifacts
    <2>1. CASE Copy(p) \/ CopyFails(p)
      <3>1. /\ at[p] = "copy"
            /\ data' = data \/ data' = data \cup {<<task[p], Wanted(p), now>>}
        BY <2>1 DEF Copy, CopyFails, Stored, HalfStored
      <3> QED
        BY <3>1, CopiedIsArtifact DEF RestInv
    <2>2. CASE data' = data
      BY <2>2 DEF RestInv
    <2>3. \/ Copy(p) \/ CopyFails(p) \/ data' = data
      BY DEF Step, Share, Enter, ReadHit, ReadMiss, ReadFails, Write, WriteFails, Cancel, Begin, storeVars
    <2> QED
      BY <2>1, <2>2, <2>3
  <1>2. polls' \in 0 .. MaxPolls
    <2>1. CASE \E t \in Tasks : Begin(p, t)
      <3>1. polls' = polls + 1 /\ polls < MaxPolls
        BY <2>1 DEF Begin
      <3> QED
        BY <3>1, DurationsAssumption DEF RestInv
    <2>2. CASE Step(p) \/ Cancel(p)
      BY <2>2 DEF Step, Share, Enter, ReadHit, ReadMiss, ReadFails, Copy, CopyFails, Write, WriteFails, Cancel,
         RestInv
    <2> QED
      BY <2>1, <2>2
  <1>3. CASE Share(p) \/ WriteFails(p) \/ Cancel(p)
    <2>1. Rests
      BY <1>3, FinishRests DEF Share, WriteFails, Cancel, End
    <2> QED
      BY <1>1, <1>2, <2>1 DEF RestInv
  <1>4. CASE Enter(p)
    <2>1. Rests
      BY <1>4 DEF Enter, RestInv, RegistryInv, RegistryType
    <2> QED
      BY <1>1, <1>2, <2>1 DEF RestInv
  <1>5. CASE ReadHit(p)
    <2>1. Advance(p) \/ \E m : Finish(p, m)
      BY <1>5 DEF ReadHit, End
    <2>2. Rests
      BY <2>1, FinishRests, AdvanceRests
    <2> QED
      BY <1>1, <1>2, <2>2 DEF RestInv
  <1>6. CASE ReadMiss(p) \/ ReadFails(p)
    <2>1. Rests
      BY <1>6, StartCopyRests, FinishRests DEF ReadMiss, ReadFails, End
    <2> QED
      BY <1>1, <1>2, <2>1 DEF RestInv
  <1>7. CASE Copy(p) \/ CopyFails(p)
    <2>1. at[p] = "copy" /\ (End(p) \/ Advance(p) \/ \E r : AfterCopy(p, r))
      BY <1>7 DEF Copy, CopyFails
    <2>2. Rests
      BY <2>1, FinishRests, AdvanceRests, AfterCopyRests DEF End
    <2> QED
      BY <1>1, <1>2, <2>2 DEF RestInv
  <1>8. CASE Write(p)
    <2>1. Rests
      BY <1>8, FinishRests, AdvanceRests DEF Write, End
    <2> QED
      BY <1>1, <1>2, <2>1 DEF RestInv
  <1>9. ASSUME NEW t \in Tasks, Begin(p, t)
        PROVE  RestInv'
    <2>1. /\ at' = [at EXCEPT ![p] = "queued"] \/ at' = [at EXCEPT ![p] = "read"]
          /\ todo' = [todo EXCEPT ![p] = OutputsOf[t]] /\ UNCHANGED excused
      BY <1>9 DEF Begin
    <2>2. Rests
      BY <2>1 DEF RestInv, RegistryInv, RegistryType, ShelfInv, ShelfType, PollTypes
    <2> QED
      BY <1>1, <1>2, <2>2 DEF RestInv
  <1> QED
    BY <1>3, <1>4, <1>5, <1>6, <1>7, <1>8, <1>9 DEF Step

\* The rest, in every state.
LEMMA RestCorrect == Spec => []RestInv
  <1>1. Init => RestInv
    BY DurationsAssumption DEF Init, RestInv
  <1>2. RegistryInv /\ ShelfInv /\ RestInv /\ [Next]_vars => RestInv'
    <2> SUFFICES ASSUME RegistryInv, ShelfInv, RestInv, [Next]_vars
                 PROVE  RestInv'
      OBVIOUS
    <2>1. ASSUME NEW p \in Pollers, Step(p) \/ Cancel(p) \/ \E t \in Tasks : Begin(p, t)
          PROVE  RestInv'
      BY <2>1, PollerKeepsRest
    <2>2. ASSUME NEW w \in late, LateWrite(w)
          PROVE  RestInv'
      <3>1. excused' \in [Pollers -> BOOLEAN]
        BY <2>2 DEF LateWrite
      <3> QED
        BY <2>2, <3>1 DEF LateWrite, RestInv
    <2>3. CASE Crash
      <3>1. data' \subseteq Artifacts
        <4>1. CASE data' = data \/ \E a \in Dead : data' = data \ {a}
          BY <4>1 DEF RestInv
        <4>2. ASSUME NEW p \in Pollers, at[p] = "copy", HalfStored(<<task[p], Wanted(p), now>>)
              PROVE  data' \subseteq Artifacts
          BY <4>2, CopiedIsArtifact DEF HalfStored, RestInv
        <4> QED
          BY <2>3, <4>1, <4>2 DEF Crash, storeVars
      <3> QED
        BY <2>3, <3>1 DEF Crash, RestInv
    <2>4. CASE Tick \/ SweepArtifacts \/ PruneCache \/ UNCHANGED vars
      <3>1. UNCHANGED <<at, todo, excused, polls>> /\ data' \subseteq data
        BY <2>4 DEF Tick, SweepArtifacts, PruneCache, vars, storeVars, pollVars
      <3> QED
        BY <3>1 DEF RestInv
    <2> QED
      BY <2>1, <2>2, <2>3, <2>4 DEF Next
  <1> QED
    BY <1>1, <1>2, RegistryCorrect, ShelfCorrect, PTL DEF Spec

\* Every variable keeps its type, the references and rows of cancelled pollers
\* included.
THEOREM PollsTypeCorrect == Spec => []TypeOK
  <1>1. RegistryInv /\ QueueInv /\ ShelfInv /\ MemoInv /\ RestInv => TypeOK
    <2> SUFFICES ASSUME RegistryInv, QueueInv, ShelfInv, MemoInv, RestInv
                 PROVE  TypeOK
      OBVIOUS
    <2>1. LocksTypeOK
      BY DEF RegistryInv, RegistryType, QueueInv, LocksTypeOK
    <2>2. ASSUME NEW p \in Pollers
          PROVE  todo[p] \in Seq(Outputs)
      <3>1. CASE at[p] = "idle"
        <4>1. todo[p] = <<>> /\ <<>> \in Seq(Outputs)
          BY <3>1 DEF RestInv
        <4> QED
          BY <4>1
      <3>2. CASE at[p] # "idle"
        <4>1. task[p] \in Tasks /\ todo[p] \in Seq(OutputSet(task[p]))
          BY <3>2 DEF ShelfInv, PollerOK, TodoOK, RegistryInv, EntryInFlight
        <4> QED
          BY <4>1, TaskOutputs
      <3> QED
        BY <3>1, <3>2
    <2> QED
      BY <2>1, <2>2 DEF TypeOK, RegistryInv, RegistryType, Places, ShelfInv, ShelfType, PollTypes, MemoInv, RestInv
  <1> QED
    BY <1>1, RegistryCorrect, QueuesCorrect, ShelfCorrect, MemoCorrect, RestCorrect, PTL
=============================================================================
