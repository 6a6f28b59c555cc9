------------------------- MODULE BudgetLedgerProofs -------------------------
(***************************************************************************)
(* BudgetLedger for every set of calls, costs and limit: its types, what   *)
(* the lock guarantees, the limit that the calls which are not abandoned   *)
(* keep, what a call that was answered may rely on, and the implementation *)
(* of Budget until a call is abandoned.                                    *)
(***************************************************************************)
EXTENDS BudgetLedger, BudgetRowsProofs

USE FreeAssumption, DayAssumption

\* Every variable stays in its type.
THEOREM TypeCorrect == Spec => []TypeOK
<1>1. Init => TypeOK
    BY DEF Init, TypeOK, Days, Row, NoRow, Statuses, Outcomes, Tasks, Threads
<1>2. ASSUME TypeOK, [Next]_vars PROVE TypeOK'
    <2> USE TypeOK DEF TypeOK
    <2>1. ASSUME NEW c \in Calls, CallReserve(c) PROVE TypeOK'
        BY <2>1 DEF CallReserve, Tasks
    <2>2. ASSUME NEW c \in Calls, NEW s \in Outcomes, CallSettle(c, s) PROVE TypeOK'
        BY <2>2 DEF CallSettle, Tasks
    <2>3. ASSUME NEW c \in Calls, StartThread(c) PROVE TypeOK'
        BY <2>3 DEF StartThread, Threads, Statements
    <2>4. ASSUME NEW c \in Calls, Resume(c) PROVE TypeOK'
        BY <2>4 DEF Resume, Tasks, Threads
    <2>5. ASSUME NEW c \in Calls, Cancel(c) \/ Abandon(c) PROVE TypeOK'
        BY <2>5 DEF Cancel, Abandon, Tasks, Threads
    <2>6. ASSUME NEW c \in Calls, Select(c) \/ Commit(c) \/ ThreadExit(c) PROVE TypeOK'
        BY <2>6 DEF Select, Commit, ThreadExit, Threads, Statements
    <2>7. ASSUME NEW c \in Calls, Insert(c) \/ Update(c) PROVE TypeOK'
        <3>1. Entered(rows, c, date[c]) \in [Calls -> Row]
            BY DEF Entered, Row, Statuses
        <3>2. Settled(rows, c, target[c]) \in [Calls -> Row]
            BY DEF Settled, Row, Statuses
        <3> QED BY <2>7, <3>1, <3>2 DEF Insert, Update, Threads, Statements
    <2>8. ASSUME Prune PROVE TypeOK'
        BY <2>8 DEF Prune, Pruned, NoRow, Row, Statuses, Days
    <2>9. ASSUME NewDay PROVE TypeOK'
        BY <2>9 DEF NewDay, Days
    <2>10. ASSUME Crash PROVE TypeOK'
        BY <2>10 DEF Crash, Tasks, Threads
    <2>11. CASE UNCHANGED vars
        BY <2>11 DEF vars
    <2> QED BY <1>2, <2>1, <2>2, <2>3, <2>4, <2>5, <2>6, <2>7, <2>8, <2>9, <2>10, <2>11 DEF Next
<1> QED BY <1>1, <1>2, PTL DEF Spec

-----------------------------------------------------------------------------
(***************************************************************************)
(* The lock.  A closure that is not abandoned, finished or not, has its    *)
(* task inside `async with lock`; an abandoned task is gone.               *)
(***************************************************************************)
LockInv ==
    \A c \in Calls :
        /\ c \in abandoned => pc[c] = "gone" /\ lock # c
        /\ thread[c] # "none" /\ c \notin abandoned => lock = c /\ pc[c] \in Awaiting
        /\ thread[c] = "update" => pc[c] \in {"settling", "gone"}

\* The lock has at most one holder: each step keeps what LockInv says.
LEMMA LockInductive ==
    ASSUME TypeOK, LockInv, [Next]_vars
    PROVE  LockInv'
<1> USE TypeOK, LockInv DEF TypeOK, LockInv, Awaiting
<1>1. ASSUME NEW c \in Calls, CallReserve(c) PROVE LockInv'
    BY <1>1 DEF CallReserve
<1>2. ASSUME NEW c \in Calls, NEW s \in Outcomes, CallSettle(c, s) PROVE LockInv'
    BY <1>2 DEF CallSettle
<1>3. ASSUME NEW c \in Calls, StartThread(c) PROVE LockInv'
    BY <1>3 DEF StartThread
<1>4. ASSUME NEW c \in Calls, Resume(c) PROVE LockInv'
    BY <1>4 DEF Resume
<1>5. ASSUME NEW c \in Calls, Cancel(c) PROVE LockInv'
    BY <1>5 DEF Cancel
<1>6. ASSUME NEW c \in Calls, Abandon(c) PROVE LockInv'
    <2>1. c \notin abandoned /\ thread[c] # "none"
        BY <1>6 DEF Abandon, Running, Statements
    <2>2. \A d \in Calls : d # c /\ thread[d] # "none" => d \in abandoned
        BY <2>1
    <2> QED BY <1>6, <2>1, <2>2 DEF Abandon
<1>7. ASSUME NEW c \in Calls, Select(c) \/ Insert(c) \/ Update(c) \/ Commit(c) \/ ThreadExit(c)
      PROVE LockInv'
    BY <1>7 DEF Select, Insert, Update, Commit, ThreadExit
<1>8. ASSUME Prune \/ NewDay \/ Crash PROVE LockInv'
    BY <1>8 DEF Prune, NewDay, Crash
<1>9. CASE UNCHANGED vars
    BY <1>9 DEF vars
<1> QED BY <1>1, <1>2, <1>3, <1>4, <1>5, <1>6, <1>7, <1>8, <1>9 DEF Next

\* The lock's invariant holds in every reachable state.
LEMMA LockCorrect == Spec => []LockInv
<1>1. Init => LockInv
    BY DEF Init, LockInv
<1> QED BY <1>1, LockInductive, TypeCorrect, PTL DEF Spec

\* A closure that somebody waits for has its task inside the lock.
THEOREM AwaitedThreadCorrect == Spec => []AwaitedThreadHoldsLock
<1>1. LockInv => AwaitedThreadHoldsLock
    BY DEF LockInv, AwaitedThreadHoldsLock, Running, Statements
<1> QED BY <1>1, LockCorrect, PTL

-----------------------------------------------------------------------------
(***************************************************************************)
(* The limit.  Three facts make it inductive: the room that a closure saw  *)
(* with its SELECT is still there when it runs its INSERT (CheckInv), a    *)
(* row is not released before its call settles it (UnsettledInv), and the  *)
(* committed table obeys the limit too, as a crash falls back to it.       *)
(***************************************************************************)
CheckInv ==
    \A c \in Calls :
        DailyLimit # 0 /\ thread[c] = "insert" /\ c \notin abandoned =>
            KeptSpent(rows, OwnerOf[c], date[c]) + CostOf[c] <= DailyLimit

Unsettled(c) ==
    \/ pc[c] \in {"idle", "reserving", "reserved"}
    \/ pc[c] = "settling" /\ thread[c] \in {"none", "update"}

UnsettledInv ==
    \A c \in Calls :
        Unsettled(c) => rows[c].status # "released" /\ disk[c].status # "released"

IInv == TypeOK /\ LockInv /\ UnsettledInv /\ CheckInv /\ LimitWithoutAbandoned

\* A table whose kept live rows are among those of another, on the same
\* date, keeps no more.
LEMMA KeptMonotone ==
    ASSUME NEW t, NEW u, NEW A, NEW B, NEW o, NEW d,
           \A c \in Calls : c \notin A /\ IsLive(t[c]) /\ t[c].date = d
                              => c \notin B /\ IsLive(u[c]) /\ u[c].date = d
    PROVE  Amount(LiveCalls(t, o, d) \ A) <= Amount(LiveCalls(u, o, d) \ B)
<1>1. LiveCalls(t, o, d) \ A \in SUBSET (LiveCalls(u, o, d) \ B)
    BY DEF LiveCalls
<1>2. LiveCalls(u, o, d) \ B \in SUBSET Calls
    BY DEF LiveCalls
<1> QED BY <1>1, <1>2, AmountMonotone

\* What kept rows amount to is a natural number.
LEMMA KeptType ==
    ASSUME NEW t, NEW A, NEW o, NEW d
    PROVE  Amount(LiveCalls(t, o, d) \ A) \in Nat
<1>1. LiveCalls(t, o, d) \ A \in SUBSET Calls
    BY DEF LiveCalls
<1> QED BY <1>1, AmountType

\* A row is released only by the closure that settles its call.
LEMMA UnsettledInductive ==
    ASSUME TypeOK, LockInv, UnsettledInv, [Next]_vars
    PROVE  UnsettledInv'
<1> USE TypeOK, LockInv, UnsettledInv DEF TypeOK, UnsettledInv, Unsettled
<1>1. ASSUME NEW c \in Calls, CallReserve(c) PROVE UnsettledInv'
    BY <1>1 DEF CallReserve
<1>2. ASSUME NEW c \in Calls, NEW s \in Outcomes, CallSettle(c, s) PROVE UnsettledInv'
    BY <1>2 DEF CallSettle
<1>3. ASSUME NEW c \in Calls, StartThread(c) PROVE UnsettledInv'
    <2>1. thread[c] = "none"
        BY <1>3 DEF StartThread, LockInv, Awaiting
    <2> QED BY <1>3, <2>1 DEF StartThread, Awaiting
<1>4. ASSUME NEW c \in Calls, Resume(c) PROVE UnsettledInv'
    BY <1>4 DEF Resume
<1>5. ASSUME NEW c \in Calls, Cancel(c) \/ Abandon(c) PROVE UnsettledInv'
    BY <1>5 DEF Cancel, Abandon
<1>6. ASSUME NEW c \in Calls, Select(c) \/ Commit(c) \/ ThreadExit(c) PROVE UnsettledInv'
    BY <1>6 DEF Select, Commit, ThreadExit
<1>7. ASSUME NEW c \in Calls, Insert(c) PROVE UnsettledInv'
    BY <1>7 DEF Insert, Entered
<1>8. ASSUME NEW c \in Calls, Update(c) PROVE UnsettledInv'
    <2>1. thread'[c] = "commit" /\ pc'[c] \in {"settling", "gone"}
        BY <1>8 DEF Update, LockInv
    <2>2. \A x \in Calls : x # c => /\ rows'[x] = rows[x] /\ thread'[x] = thread[x]
                                    /\ pc'[x] = pc[x]
        BY <1>8 DEF Update, Settled
    <2>3. disk' = disk
        BY <1>8 DEF Update
    <2> QED BY <2>1, <2>2, <2>3
<1>9. ASSUME Prune PROVE UnsettledInv'
    BY <1>9 DEF Prune, Pruned, NoRow
<1>10. ASSUME NewDay \/ Crash PROVE UnsettledInv'
    BY <1>10 DEF NewDay, Crash, Awaiting
<1>11. CASE UNCHANGED vars
    BY <1>11 DEF vars
<1> QED BY <1>1, <1>2, <1>3, <1>4, <1>5, <1>6, <1>7, <1>8, <1>9, <1>10, <1>11 DEF Next

\* A step after which the kept live rows of both tables are among the kept
\* live rows of one of them before, and every pending INSERT was pending
\* before, cannot break the limit.
LEMMA ShrinkingStep ==
    ASSUME TypeOK, CheckInv, LimitWithoutAbandoned,
           \A c \in Calls : c \notin abandoned' /\ IsLive(rows'[c])
                => c \notin abandoned /\ IsLive(rows[c]) /\ rows'[c].date = rows[c].date,
           disk' \in {disk, rows, rows'},
           \A c \in Calls : thread'[c] = "insert" /\ c \notin abandoned'
                => thread[c] = "insert" /\ c \notin abandoned /\ date'[c] = date[c],
           abandoned \subseteq abandoned'
    PROVE  CheckInv' /\ LimitWithoutAbandoned'
<1>1. ASSUME NEW o, NEW d
      PROVE  Amount(LiveCalls(rows', o, d) \ abandoned') <= Amount(LiveCalls(rows, o, d) \ abandoned)
    <2>1. \A c \in Calls : c \notin abandoned' /\ IsLive(rows'[c]) /\ rows'[c].date = d
                           => c \notin abandoned /\ IsLive(rows[c]) /\ rows[c].date = d
        OBVIOUS
    <2> QED BY <2>1, KeptMonotone
<1>2. ASSUME NEW o, NEW d, NEW t
      PROVE  Amount(LiveCalls(t, o, d) \ abandoned') <= Amount(LiveCalls(t, o, d) \ abandoned)
    <2>1. \A c \in Calls : c \notin abandoned' /\ IsLive(t[c]) /\ t[c].date = d
                           => c \notin abandoned /\ IsLive(t[c]) /\ t[c].date = d
        OBVIOUS
    <2> QED BY <2>1, KeptMonotone
<1>3. CheckInv'
    <2> SUFFICES ASSUME NEW c \in Calls, DailyLimit # 0, thread'[c] = "insert", c \notin abandoned'
                 PROVE  KeptSpent(rows, OwnerOf[c], date[c])' + CostOf[c] <= DailyLimit
        BY DEF CheckInv
    <2>1. /\ KeptSpent(rows, OwnerOf[c], date[c]) + CostOf[c] <= DailyLimit
          /\ date'[c] = date[c]
        BY DEF CheckInv
    <2>2. KeptSpent(rows, OwnerOf[c], date[c])' <= KeptSpent(rows, OwnerOf[c], date[c])
        BY <1>1, <2>1 DEF KeptSpent
    <2>3. /\ KeptSpent(rows, OwnerOf[c], date[c]) \in Nat
          /\ KeptSpent(rows, OwnerOf[c], date[c])' \in Nat
          /\ CostOf[c] \in Nat
        BY KeptType, CostAssumption DEF KeptSpent
    <2> QED BY <2>1, <2>2, <2>3, LimitAssumption
<1>4. LimitWithoutAbandoned'
    <2> SUFFICES ASSUME DailyLimit # 0, NEW o \in Owners, NEW d \in Days
                 PROVE  /\ Amount(LiveCalls(rows', o, d) \ abandoned') <= DailyLimit
                        /\ Amount(LiveCalls(disk', o, d) \ abandoned') <= DailyLimit
        BY DEF LimitWithoutAbandoned, KeptSpent, LiveCalls
    <2>1. /\ Amount(LiveCalls(rows, o, d) \ abandoned) <= DailyLimit
          /\ Amount(LiveCalls(disk, o, d) \ abandoned) <= DailyLimit
        BY DEF LimitWithoutAbandoned, KeptSpent
    <2>2. /\ Amount(LiveCalls(rows, o, d) \ abandoned) \in Nat
          /\ Amount(LiveCalls(disk, o, d) \ abandoned) \in Nat
          /\ Amount(LiveCalls(rows, o, d) \ abandoned') \in Nat
          /\ Amount(LiveCalls(disk, o, d) \ abandoned') \in Nat
          /\ Amount(LiveCalls(rows', o, d) \ abandoned') \in Nat
        BY KeptType
    <2>3. /\ Amount(LiveCalls(rows', o, d) \ abandoned') <= Amount(LiveCalls(rows, o, d) \ abandoned)
          /\ Amount(LiveCalls(rows, o, d) \ abandoned') <= Amount(LiveCalls(rows, o, d) \ abandoned)
          /\ Amount(LiveCalls(disk, o, d) \ abandoned') <= Amount(LiveCalls(disk, o, d) \ abandoned)
        BY <1>1, <1>2
    <2>4. /\ Amount(LiveCalls(rows', o, d) \ abandoned') <= DailyLimit
          /\ Amount(LiveCalls(rows, o, d) \ abandoned') <= DailyLimit
          /\ Amount(LiveCalls(disk, o, d) \ abandoned') <= DailyLimit
        BY <2>1, <2>2, <2>3, LimitAssumption
    <2>5. disk' = disk \/ disk' = rows \/ disk' = rows'
        OBVIOUS
    <2> QED BY <2>4, <2>5
<1> QED BY <1>3, <1>4

\* Inserting the row of a kept closure uses the room that its SELECT saw.
LEMMA InsertKeepsLimit ==
    ASSUME TypeOK, LockInv, CheckInv, LimitWithoutAbandoned, NEW c \in Calls, Insert(c)
    PROVE  CheckInv' /\ LimitWithoutAbandoned'
<1> USE DEF TypeOK
<1>1. /\ rows'[c] = [status |-> "reserved", date |-> date[c]]
      /\ \A x \in Calls : x # c => rows'[x] = rows[x] /\ thread'[x] = thread[x]
      /\ thread'[c] = "commit" /\ thread[c] = "insert"
      /\ disk' = disk /\ abandoned' = abandoned /\ date' = date
    BY DEF Insert, Entered
<1>2. CASE c \in abandoned
    BY <1>1, <1>2, ShrinkingStep
<1>3. CASE c \notin abandoned
    <2>1. \A x \in Calls : thread[x] # "none" /\ x \notin abandoned => x = c
        BY <1>1, <1>3 DEF LockInv
    <2>2. CheckInv'
        BY <1>1, <2>1 DEF CheckInv
    <2>3. ASSUME DailyLimit # 0, NEW o \in Owners, NEW d \in Days
          PROVE  /\ Amount(LiveCalls(rows', o, d) \ abandoned') <= DailyLimit
                 /\ Amount(LiveCalls(disk', o, d) \ abandoned') <= DailyLimit
        <3>1. /\ Amount(LiveCalls(rows, o, d) \ abandoned) <= DailyLimit
              /\ Amount(LiveCalls(disk, o, d) \ abandoned) <= DailyLimit
            BY <2>3 DEF LimitWithoutAbandoned, KeptSpent
        <3>2. Amount(LiveCalls(rows, OwnerOf[c], date[c]) \ abandoned) + CostOf[c] <= DailyLimit
            BY <1>1, <1>3, <2>3 DEF CheckInv, KeptSpent
        <3>3. /\ Amount(LiveCalls(rows, o, d) \ abandoned) \in Nat
              /\ Amount(LiveCalls(rows', o, d) \ abandoned) \in Nat
            BY KeptType
        <3>4. CASE o = OwnerOf[c] /\ d = date[c]
            <4> DEFINE S == LiveCalls(rows, o, d) \ abandoned
            <4>1. LiveCalls(rows', o, d) \ abandoned = S \cup {c}
                BY <1>1, <1>3, <3>4 DEF LiveCalls, IsLive
            <4>2. S \in SUBSET Calls
                BY DEF LiveCalls
            <4>3. Amount(S \cup {c}) <= Amount(S) + CostOf[c]
                BY <4>2, AmountAdd
            <4>4. Amount(S) + CostOf[c] <= DailyLimit
                BY <3>2, <3>4
            <4>5. Amount(S \cup {c}) \in Nat /\ Amount(S) \in Nat /\ CostOf[c] \in Nat
                BY <3>3, <4>1, CostAssumption
            <4>6. Amount(S \cup {c}) <= DailyLimit
                <5> HIDE DEF S
                <5> QED BY <4>3, <4>4, <4>5, LimitAssumption
            <4> QED BY <1>1, <3>1, <4>1, <4>6
        <3>5. CASE ~(o = OwnerOf[c] /\ d = date[c])
            <4>1. \A x \in Calls : x \in LiveCalls(rows', o, d) => x \in LiveCalls(rows, o, d)
                BY <1>1, <3>5 DEF LiveCalls
            <4>2. LiveCalls(rows', o, d) \ abandoned \in SUBSET (LiveCalls(rows, o, d) \ abandoned)
                BY <4>1 DEF LiveCalls
            <4>3. LiveCalls(rows, o, d) \ abandoned \in SUBSET Calls
                BY DEF LiveCalls
            <4>4. Amount(LiveCalls(rows', o, d) \ abandoned) <= Amount(LiveCalls(rows, o, d) \ abandoned)
                BY <4>2, <4>3, AmountMonotone
            <4> QED BY <1>1, <3>1, <3>3, <4>4, LimitAssumption
        <3> QED BY <3>4, <3>5
    <2>4. LimitWithoutAbandoned'
        BY <2>3 DEF LimitWithoutAbandoned, KeptSpent, LiveCalls
    <2> QED BY <2>2, <2>4
<1> QED BY <1>2, <1>3

\* A SELECT that finds room finds it among the kept rows too.
LEMMA SelectChecks ==
    ASSUME TypeOK, CheckInv, LimitWithoutAbandoned, NEW c \in Calls, Select(c)
    PROVE  CheckInv' /\ LimitWithoutAbandoned'
<1> USE DEF TypeOK
<1>1. /\ \A x \in Calls : x # c => thread'[x] = thread[x]
      /\ thread'[c] = "insert" => Fits(rows, c, date[c])
      /\ rows' = rows /\ disk' = disk /\ abandoned' = abandoned /\ date' = date
    BY DEF Select
<1>2. Fits(rows, c, date[c]) /\ DailyLimit # 0
        => KeptSpent(rows, OwnerOf[c], date[c]) + CostOf[c] <= DailyLimit
    <2> DEFINE L == LiveCalls(rows, OwnerOf[c], date[c])
    <2>1. L \in SUBSET Calls /\ L \ abandoned \in SUBSET L /\ L \ abandoned \in SUBSET Calls
        BY DEF LiveCalls
    <2>2. Amount(L \ abandoned) <= Amount(L)
        BY <2>1, AmountMonotone
    <2>3. Amount(L) \in Nat /\ Amount(L \ abandoned) \in Nat /\ CostOf[c] \in Nat
        BY <2>1, AmountType, CostAssumption
    <2>4. Fits(rows, c, date[c]) /\ DailyLimit # 0 => Amount(L) + CostOf[c] <= DailyLimit
        BY DEF Fits, Spent
    <2>5. Fits(rows, c, date[c]) /\ DailyLimit # 0 => Amount(L \ abandoned) + CostOf[c] <= DailyLimit
        <3> HIDE DEF L
        <3> QED BY <2>2, <2>3, <2>4, LimitAssumption
    <2> QED BY <2>5 DEF KeptSpent
<1>3. CheckInv'
    BY <1>1, <1>2 DEF CheckInv, KeptSpent
<1>4. LimitWithoutAbandoned'
    BY <1>1 DEF LimitWithoutAbandoned, KeptSpent
<1> QED BY <1>3, <1>4

\* An UPDATE of a kept closure cannot bring a released row back.
LEMMA UpdateKeepsLimit ==
    ASSUME TypeOK, LockInv, UnsettledInv, CheckInv, LimitWithoutAbandoned,
           NEW c \in Calls, Update(c)
    PROVE  CheckInv' /\ LimitWithoutAbandoned'
<1> USE DEF TypeOK
<1>1. /\ \A x \in Calls : x # c => rows'[x] = rows[x] /\ thread'[x] = thread[x]
      /\ thread'[c] = "commit"
      /\ disk' = disk /\ abandoned' = abandoned /\ date' = date
    BY DEF Update, Settled
<1>2. c \notin abandoned => rows[c].status # "released"
    BY DEF UnsettledInv, Unsettled, LockInv, Update, Awaiting
<1>3. rows'[c].date = rows[c].date
    BY DEF Update, Settled, Row
<1>4. IsLive(rows'[c]) /\ c \notin abandoned => IsLive(rows[c])
    BY <1>2 DEF Update, Settled, IsLive, Row, Statuses, Outcomes
<1> QED BY <1>1, <1>3, <1>4, ShrinkingStep

\* Each step keeps the limit and the room that open closures have checked.
LEMMA LimitInductive ==
    ASSUME IInv, [Next]_vars
    PROVE  CheckInv' /\ LimitWithoutAbandoned'
<1> USE DEF IInv
<1>1. ASSUME NEW c \in Calls,
             \/ CallReserve(c) \/ StartThread(c) \/ Resume(c) \/ Cancel(c) \/ Abandon(c)
             \/ Commit(c) \/ ThreadExit(c) \/ \E s \in Outcomes : CallSettle(c, s)
      PROVE  CheckInv' /\ LimitWithoutAbandoned'
    <2>1. /\ rows' = rows
          /\ disk' \in {disk, rows}
          /\ abandoned \subseteq abandoned'
          /\ \A x \in Calls : thread'[x] = "insert" => thread[x] = "insert"
        BY <1>1 DEF CallReserve, StartThread, Resume, Cancel, Abandon, Commit, ThreadExit,
            CallSettle, TypeOK
    <2>2. \A x \in Calls : thread[x] = "insert" /\ x \notin abandoned => date'[x] = date[x]
        BY <1>1 DEF CallReserve, StartThread, Resume, Cancel, Abandon, Commit, ThreadExit,
            CallSettle, TypeOK, LockInv, Awaiting
    <2> QED BY <2>1, <2>2, ShrinkingStep
<1>2. ASSUME Prune \/ NewDay PROVE CheckInv' /\ LimitWithoutAbandoned'
    <2>1. /\ \A x \in Calls : IsLive(rows'[x]) => rows'[x] = rows[x]
          /\ disk' \in {disk, rows'}
          /\ abandoned' = abandoned /\ thread' = thread /\ date' = date
        BY <1>2 DEF Prune, NewDay, Pruned, NoRow, IsLive
    <2> QED BY <2>1, ShrinkingStep
<1>3. ASSUME Crash PROVE CheckInv' /\ LimitWithoutAbandoned'
    <2>1. /\ rows' = disk /\ disk' = disk /\ abandoned' = abandoned
          /\ \A x \in Calls : thread'[x] = "none"
        BY <1>3 DEF Crash
    <2>2. CheckInv'
        BY <2>1 DEF CheckInv
    <2>3. LimitWithoutAbandoned'
        BY <2>1 DEF LimitWithoutAbandoned, KeptSpent
    <2> QED BY <2>2, <2>3
<1>4. CASE UNCHANGED vars
    BY <1>4, ShrinkingStep DEF vars
<1> QED BY <1>1, <1>2, <1>3, <1>4, InsertKeepsLimit, SelectChecks, UpdateKeepsLimit DEF Next

\* Calls that are never abandoned keep the daily limit, in the transaction and
\* on disk, whatever abandoned closures do.
THEOREM LimitCorrect == Spec => []LimitWithoutAbandoned
<1>1. Init => UnsettledInv /\ CheckInv /\ LimitWithoutAbandoned
    <2> SUFFICES ASSUME Init PROVE UnsettledInv /\ CheckInv /\ LimitWithoutAbandoned
        OBVIOUS
    <2>1. UnsettledInv /\ CheckInv
        BY DEF Init, UnsettledInv, CheckInv, NoRow
    <2>2. \A o, d : KeptSpent(rows, o, d) = 0 /\ KeptSpent(disk, o, d) = 0
        <3>1. \A o, d : LiveCalls(rows, o, d) = {} /\ LiveCalls(disk, o, d) = {}
            BY DEF Init, LiveCalls, IsLive, NoRow
        <3>2. Units({}) = {}
            BY DEF Units
        <3>3. Amount({}) = 0
            BY <3>2, FS_EmptySet DEF Amount
        <3> QED BY <3>1, <3>3 DEF KeptSpent
    <2>3. LimitWithoutAbandoned
        BY <2>2, LimitAssumption DEF LimitWithoutAbandoned
    <2> QED BY <2>1, <2>3
<1>2. TypeOK /\ LockInv /\ UnsettledInv /\ CheckInv /\ LimitWithoutAbandoned /\ [Next]_vars
        => UnsettledInv' /\ CheckInv' /\ LimitWithoutAbandoned'
    BY UnsettledInductive, LimitInductive DEF IInv
<1> QED BY <1>1, <1>2, TypeCorrect, LockCorrect, PTL DEF Spec

-----------------------------------------------------------------------------
(***************************************************************************)
(* Refinement.  When no closure can be abandoned, the tables differ only   *)
(* by the statement of the one closure that is about to commit, and that   *)
(* statement is a step of the abstract budget.                             *)
(***************************************************************************)
Fresh(c) ==
    \/ pc[c] = "idle"
    \/ pc[c] = "reserving" /\ thread[c] \in {"none", "select", "insert"}
Held(c) ==
    \/ pc[c] = "reserving" /\ thread[c] \in {"commit", "done"}
    \/ pc[c] = "reserved"
    \/ pc[c] = "settling" /\ thread[c] \in {"none", "update"}

PhaseInv ==
    \A c \in Calls :
        /\ date[c] <= day
        /\ Fresh(c) => rows[c].status = "absent" /\ disk[c].status = "absent"
        /\ Held(c) => /\ rows[c].status \in {"absent", "reserved"}
                      /\ disk[c].status \in {"absent", "reserved"}
        /\ thread[c] \in {"select", "insert"} => pc[c] = "reserving"

PendingReserve(c) ==
    /\ pc[c] = "reserving"
    /\ rows = Entered(disk, c, date[c])
    /\ disk[c].status = "absent"
    /\ Fits(disk, c, date[c])

PendingSettle(c) ==
    /\ pc[c] = "settling"
    /\ rows = Settled(disk, c, target[c])
    /\ disk[c].status \in {"absent", "reserved"}

TransactionInv ==
    /\ (\A c \in Calls : thread[c] # "commit") => rows = disk
    /\ \A c \in Calls :
          /\ thread[c] = "insert" => Fits(rows, c, date[c])
          /\ thread[c] = "commit" => PendingReserve(c) \/ PendingSettle(c)

Serial ==
    \A c \in Calls : thread[c] # "none" => lock = c /\ pc[c] \in Awaiting

\* No step forgets that a closure was abandoned, and before the first is, the
\* closures run one at a time.
LEMMA SerialUntilAbandoned ==
    ASSUME TypeOK, LockInv, [Next]_vars
    PROVE  /\ abandoned' = {} => abandoned = {}
           /\ abandoned = {} => Serial
<1>1. abandoned \subseteq abandoned'
    BY DEF Next, vars, CallReserve, CallSettle, StartThread, Resume, Cancel, Abandon,
        Select, Insert, Update, Commit, ThreadExit, Prune, NewDay, Crash
<1>2. abandoned = {} => Serial
    BY DEF LockInv, Serial
<1> QED BY <1>1, <1>2

\* While nothing is abandoned, each step keeps rows in agreement with the phases
\* of their calls.
LEMMA PhaseInductive ==
    ASSUME abandoned' = {}, TypeOK, LockInv, Serial, PhaseInv, [Next]_vars
    PROVE  PhaseInv'
<1> USE DEF TypeOK, PhaseInv, Fresh, Held
<1>1. ASSUME NEW c \in Calls, CallReserve(c) PROVE PhaseInv'
    BY <1>1 DEF CallReserve, Days, Serial, Awaiting
<1>2. ASSUME NEW c \in Calls, NEW s \in Outcomes, CallSettle(c, s) PROVE PhaseInv'
    BY <1>2 DEF CallSettle, Serial, Awaiting
<1>3. ASSUME NEW c \in Calls, StartThread(c) PROVE PhaseInv'
    <2>1. thread[c] = "none"
        BY <1>3 DEF StartThread, Serial
    <2> QED BY <1>3, <2>1 DEF StartThread, Awaiting
<1>4. ASSUME NEW c \in Calls, Resume(c) PROVE PhaseInv'
    BY <1>4 DEF Resume
<1>5. ASSUME NEW c \in Calls, Cancel(c) \/ Abandon(c) PROVE PhaseInv'
    BY <1>5 DEF Cancel, Abandon, Awaiting, Running, Statements
<1>6. ASSUME NEW c \in Calls, Select(c) PROVE PhaseInv'
    BY <1>6 DEF Select
<1>7. ASSUME NEW c \in Calls, Insert(c) PROVE PhaseInv'
    BY <1>7 DEF Insert, Entered
<1>8. ASSUME NEW c \in Calls, Update(c) PROVE PhaseInv'
    <2>1. pc[c] = "settling"
        BY <1>8 DEF Update, LockInv, Serial, Awaiting
    <2>2. /\ thread'[c] = "commit" /\ pc' = pc /\ date' = date /\ day' = day /\ disk' = disk
          /\ \A x \in Calls : x # c => rows'[x] = rows[x] /\ thread'[x] = thread[x]
        BY <1>8 DEF Update, Settled
    <2> QED BY <2>1, <2>2
<1>9. ASSUME NEW c \in Calls, Commit(c) \/ ThreadExit(c) PROVE PhaseInv'
    BY <1>9 DEF Commit, ThreadExit
<1>10. ASSUME Prune PROVE PhaseInv'
    BY <1>10 DEF Prune, Pruned, NoRow
<1>11. ASSUME NewDay PROVE PhaseInv'
    <2>1. \A c \in Calls : date[c] <= day => date[c] <= day + 1
        BY DEF Days
    <2> QED BY <1>11, <2>1 DEF NewDay
<1>12. ASSUME Crash PROVE PhaseInv'
    <2>1. \A c \in Calls : pc'[c] \in {"idle", "gone", "refused", "settled"} /\ thread'[c] = "none"
        BY <1>12 DEF Crash, Awaiting, Tasks
    <2>2. \A c \in Calls : pc'[c] = "idle" => pc[c] = "idle"
        BY <1>12 DEF Crash
    <2>3. rows' = disk /\ disk' = disk /\ date' = date /\ day' = day
        BY <1>12 DEF Crash
    <2>4. \A c \in Calls : pc'[c] = "idle" => rows'[c].status = "absent" /\ disk'[c].status = "absent"
        BY <2>2, <2>3
    <2>5. \A c \in Calls : date'[c] <= day'
        BY <2>3
    <2> QED BY <2>1, <2>4, <2>5
<1>13. CASE UNCHANGED vars
    BY <1>13 DEF vars
<1> QED BY <1>1, <1>2, <1>3, <1>4, <1>5, <1>6, <1>7, <1>8, <1>9, <1>10, <1>11, <1>12,
    <1>13 DEF Next

\* While nothing is abandoned, the open transaction differs from the disk only
\* by the statement of the closure about to commit.
LEMMA TransactionInductive ==
    ASSUME abandoned' = {}, TypeOK, LockInv, Serial, PhaseInv, TransactionInv, [Next]_vars
    PROVE  TransactionInv'
<1> USE DEF TypeOK, TransactionInv, PendingReserve, PendingSettle
<1>1. ASSUME NEW c \in Calls, CallReserve(c) \/ \E s \in Outcomes : CallSettle(c, s)
      PROVE  TransactionInv'
    <2>1. thread[c] = "none"
        BY <1>1 DEF CallReserve, CallSettle, Serial, Awaiting
    <2> QED BY <1>1, <2>1 DEF CallReserve, CallSettle
<1>2. ASSUME NEW c \in Calls, StartThread(c) \/ Resume(c) \/ Cancel(c) \/ ThreadExit(c)
      PROVE  TransactionInv'
    <2>1. /\ \A x \in Calls : thread'[x] \in {"insert", "commit"} => thread'[x] = thread[x] /\ x # c
          /\ \A x \in Calls : thread[x] = "commit" => thread'[x] = "commit"
        BY <1>2 DEF StartThread, Resume, Cancel, ThreadExit, Running, Statements, Serial
    <2>2. /\ \A x \in Calls : x # c => pc'[x] = pc[x]
          /\ UNCHANGED <<rows, disk, date, target>>
        BY <1>2 DEF StartThread, Resume, Cancel, ThreadExit
    <2> QED BY <2>1, <2>2
<1>3. ASSUME NEW c \in Calls, Abandon(c) PROVE TransactionInv'
    BY <1>3 DEF Abandon
<1>4. ASSUME NEW c \in Calls, thread[c] # "none", thread[c] # "commit"
      PROVE  /\ rows = disk
             /\ \A x \in Calls : x # c => thread[x] = "none"
    BY <1>4 DEF Serial
<1>5. ASSUME NEW c \in Calls, Select(c) PROVE TransactionInv'
    <2>1. /\ rows = disk
          /\ \A x \in Calls : x # c => thread[x] = "none"
        BY <1>4, <1>5 DEF Select
    <2>2. thread'[c] = "insert" => Fits(rows, c, date[c])
        BY <1>5 DEF Select
    <2>3. /\ thread'[c] # "commit"
          /\ \A x \in Calls : x # c => thread'[x] = "none"
          /\ UNCHANGED <<rows, disk, date>>
        BY <1>5, <2>1 DEF Select
    <2> QED BY <2>1, <2>2, <2>3
<1>6. ASSUME NEW c \in Calls, Insert(c) PROVE TransactionInv'
    <2>1. /\ rows = disk
          /\ \A x \in Calls : x # c => thread[x] = "none"
        BY <1>4, <1>6 DEF Insert
    <2>2. /\ pc[c] = "reserving" /\ disk[c].status = "absent" /\ Fits(disk, c, date[c])
          /\ rows' = Entered(disk, c, date[c])
        BY <1>6, <2>1 DEF Insert, PhaseInv, Fresh
    <2>3. /\ thread'[c] = "commit"
          /\ \A x \in Calls : x # c => thread'[x] = "none"
          /\ UNCHANGED <<disk, date, pc>>
        BY <1>6, <2>1 DEF Insert
    <2> QED BY <2>2, <2>3
<1>7. ASSUME NEW c \in Calls, Update(c) PROVE TransactionInv'
    <2>1. /\ rows = disk
          /\ \A x \in Calls : x # c => thread[x] = "none"
        BY <1>4, <1>7 DEF Update
    <2>2. pc[c] = "settling"
        BY <1>7 DEF Update, LockInv, Serial, Awaiting
    <2>3. /\ disk[c].status \in {"absent", "reserved"}
          /\ rows' = Settled(disk, c, target[c])
        BY <1>7, <2>1, <2>2 DEF Update, PhaseInv, Held
    <2>4. /\ thread'[c] = "commit"
          /\ \A x \in Calls : x # c => thread'[x] = "none"
          /\ UNCHANGED <<disk, target, pc>>
        BY <1>7, <2>1 DEF Update
    <2> QED BY <2>2, <2>3, <2>4
<1>8. ASSUME NEW c \in Calls, Commit(c) PROVE TransactionInv'
    BY <1>8 DEF Commit, Serial
<1>9. ASSUME Prune PROVE TransactionInv'
    BY <1>9 DEF Prune, Serial
<1>10. ASSUME NewDay \/ Crash PROVE TransactionInv'
    BY <1>10 DEF NewDay, Crash
<1>11. CASE UNCHANGED vars
    BY <1>11 DEF vars
<1> QED BY <1>1, <1>2, <1>3, <1>5, <1>6, <1>7, <1>8, <1>9, <1>10, <1>11 DEF Next

\* The instance computes what this module computes.
LEMMA SameOperators ==
    /\ \A t, c, d : Promise!Fits(t, c, d) <=> Fits(t, c, d)
    /\ \A t, c, d : Promise!Entered(t, c, d) = Entered(t, c, d)
    /\ \A t, c, s : Promise!Settled(t, c, s) = Settled(t, c, s)
    /\ \A t, d : Promise!Pruned(t, d) = Pruned(t, d)
    /\ Promise!Days = Days /\ Promise!Outcomes = Outcomes /\ Promise!NoRow = NoRow
<1>1. ASSUME NEW t, NEW o, NEW d PROVE Promise!Spent(t, o, d) = Spent(t, o, d)
    <2>1. Promise!LiveCalls(t, o, d) = LiveCalls(t, o, d)
        BY DEF Promise!LiveCalls, LiveCalls, Promise!IsLive, IsLive
    <2>2. ASSUME NEW S PROVE Promise!Amount(S) = Amount(S)
        <3>1. Promise!Units(S) = Units(S)
            BY DEF Promise!Units, Units
        <3> QED BY <3>1 DEF Promise!Amount, Amount, Promise!Cardinality, Cardinality
    <2> QED BY <2>1, <2>2 DEF Promise!Spent, Spent
<1>2. \A t, c, d : Promise!Fits(t, c, d) <=> Fits(t, c, d)
    BY <1>1 DEF Promise!Fits, Fits
<1>3. /\ \A t, c, d : Promise!Entered(t, c, d) = Entered(t, c, d)
      /\ \A t, c, s : Promise!Settled(t, c, s) = Settled(t, c, s)
    BY DEF Promise!Entered, Entered, Promise!Settled, Settled
<1>4. Promise!Days = Days /\ Promise!Outcomes = Outcomes /\ Promise!NoRow = NoRow
    BY DEF Promise!NoRow, NoRow, Promise!Days, Days, Promise!Outcomes, Outcomes
<1>5. \A t, d : Promise!Pruned(t, d) = Pruned(t, d)
    BY <1>4 DEF Promise!Pruned, Pruned
<1> QED BY <1>2, <1>3, <1>4, <1>5

\* Each step of the ledger is a step of the abstract budget or leaves it alone.
LEMMA StepSimulation ==
    ASSUME abandoned' = {}, TypeOK, LockInv, Serial, PhaseInv, TransactionInv, [Next]_vars
    PROVE  [Promise!Next]_Promise!vars
<1> USE SameOperators DEF TypeOK, Promise!vars
<1>1. ASSUME NEW c \in Calls, Commit(c) PROVE [Promise!Next]_Promise!vars
    <2>1. thread[c] = "commit" /\ disk' = rows /\ day' = day
        BY <1>1 DEF Commit
    <2>2. CASE PendingReserve(c)
        <3>1. date[c] \in Days /\ date[c] <= day
            BY DEF PhaseInv
        <3>2. Promise!Reserve(c, date[c])
            BY <2>1, <2>2, <3>1 DEF Promise!Reserve, PendingReserve
        <3> QED BY <3>1, <3>2 DEF Promise!Next
    <2>3. CASE PendingSettle(c)
        <3>1. CASE disk[c].status = "absent"
            <4>1. disk' = disk
                BY <2>1, <2>3, <3>1 DEF PendingSettle, Settled
            <4> QED BY <2>1, <4>1
        <3>2. CASE disk[c].status = "reserved"
            <4>1. Promise!Settle(c, target[c])
                BY <2>1, <2>3, <3>2 DEF Promise!Settle, PendingSettle
            <4> QED BY <4>1 DEF Promise!Next
        <3> QED BY <2>3, <3>1, <3>2 DEF PendingSettle
    <2> QED BY <2>1, <2>2, <2>3 DEF TransactionInv
<1>2. ASSUME Prune PROVE [Promise!Next]_Promise!vars
    <2>1. rows = disk
        BY <1>2 DEF Prune, Serial, TransactionInv
    <2> QED BY <1>2, <2>1 DEF Prune, Promise!Prune, Promise!Next
<1>3. ASSUME NewDay PROVE [Promise!Next]_Promise!vars
    BY <1>3 DEF NewDay, Promise!NewDay, Promise!Next
<1>4. ASSUME ~\E c \in Calls : Commit(c), ~Prune, ~NewDay
      PROVE  UNCHANGED <<day, disk>>
    BY <1>4 DEF Next, vars, CallReserve, CallSettle, StartThread, Resume, Cancel, Abandon,
        Select, Insert, Update, ThreadExit, Crash
<1> QED BY <1>1, <1>2, <1>3, <1>4

\* The ledger implements the budget until a closure is abandoned: threads,
\* statements and transactions amount to atomic reservations and settlements
\* of the committed table.
THEOREM Refinement == Spec => ImplementsBudget
<1> DEFINE UntilAbandoned == abandoned = {} => PhaseInv /\ TransactionInv
           Simulated == abandoned' = {} => Promise!Next
<1>1. Init => UntilAbandoned
    BY DEF Init, PhaseInv, TransactionInv, Fresh, Held, NoRow, Days
<1>2. Init => Promise!Init
    BY SameOperators DEF Init, Promise!Init
<1>3. ASSUME TypeOK, LockInv, UntilAbandoned, [Next]_vars
      PROVE  UntilAbandoned' /\ [Simulated]_Promise!vars
    <2>1. CASE abandoned' = {}
        <3>1. Serial /\ PhaseInv /\ TransactionInv
            BY <1>3, <2>1, SerialUntilAbandoned
        <3>2. PhaseInv' /\ TransactionInv' /\ [Promise!Next]_Promise!vars
            BY <1>3, <2>1, <3>1, PhaseInductive, TransactionInductive, StepSimulation
        <3> QED BY <3>2
    <2>2. CASE abandoned' # {}
        BY <2>2
    <2> QED BY <2>1, <2>2
<1>4. TypeOK /\ LockInv /\ UntilAbandoned /\ [Next]_vars
        => UntilAbandoned' /\ [Simulated]_Promise!vars
    BY <1>3
<1> HIDE DEF UntilAbandoned, Simulated
<1>5. Spec => Promise!Init /\ [][Simulated]_Promise!vars
    BY <1>1, <1>2, <1>4, TypeCorrect, LockCorrect, PTL DEF Spec
<1> QED BY <1>5 DEF ImplementsBudget, Simulated

-----------------------------------------------------------------------------
(***************************************************************************)
(* Answers.  What a call was told follows its row through the statements   *)
(* of its closure: in the open transaction first, on disk once committed,  *)
(* whoever commits.  A row may go in the meantime, but only for its age.   *)
(***************************************************************************)
\* The row of c, with a status it was given, unless pruned for age.
Kept(row, c, s) ==
    \/ row.status = "absent" /\ date[c] + PruneAge < day
    \/ row = [status |-> s, date |-> date[c]]

NoRowYet(c) ==
    \/ pc[c] = "idle"
    \/ pc[c] = "reserving" /\ thread[c] \in {"none", "select", "insert"}
Given(c) ==
    \/ pc[c] = "reserving" /\ thread[c] = "done"
    \/ pc[c] = "reserved"
    \/ pc[c] = "settling" /\ thread[c] \in {"none", "update"}
Told(c) ==
    \/ pc[c] = "settling" /\ thread[c] = "done"
    \/ pc[c] = "settled"
Committing(c, p) == pc[c] = p /\ thread[c] = "commit"

AnswerOK(c) ==
    /\ NoRowYet(c) => rows[c].status = "absent" /\ disk[c].status = "absent"
    /\ Committing(c, "reserving") => Kept(rows[c], c, "reserved")
    /\ Given(c) => Kept(rows[c], c, "reserved") /\ Kept(disk[c], c, "reserved")
    /\ Committing(c, "settling") =>
          /\ Kept(rows[c], c, target[c])
          /\ Kept(disk[c], c, "reserved") \/ Kept(disk[c], c, target[c])
    /\ Told(c) => Kept(rows[c], c, target[c]) /\ Kept(disk[c], c, target[c])
    /\ thread[c] \in {"select", "insert", "over"} => pc[c] \in {"reserving", "gone"}

AnswerInv == \A c \in Calls : AnswerOK(c)

\* Being too old does not change with time.
LEMMA KeptStays ==
    ASSUME NEW c \in Calls, NEW row, NEW s, TypeOK, date'[c] = date[c], day' \in Days, day <= day',
           Kept(row, c, s)
    PROVE  \/ row.status = "absent" /\ date'[c] + PruneAge < day'
           \/ row = [status |-> s, date |-> date'[c]]
<1>1. CASE row.status = "absent" /\ date[c] + PruneAge < day
    <2>1. date[c] \in Int /\ day \in Int /\ day' \in Int /\ PruneAge \in Int
        BY DEF TypeOK, Days
    <2> QED BY <1>1, <2>1
<1>2. CASE row = [status |-> s, date |-> date[c]]
    BY <1>2
<1> QED BY <1>1, <1>2 DEF Kept

\* A call that takes no step keeps what it was told, whoever commits.
LEMMA OthersKeepAnswers ==
    ASSUME TypeOK, NEW c \in Calls, AnswerOK(c),
           pc'[c] = pc[c], thread'[c] = thread[c], date'[c] = date[c], target'[c] = target[c],
           day' \in Days, day <= day', rows'[c] = rows[c], disk'[c] \in {disk[c], rows[c]}
    PROVE  AnswerOK(c)'
<1>1. ASSUME NEW row, NEW s, Kept(row, c, s)
      PROVE  \/ row.status = "absent" /\ date'[c] + PruneAge < day'
             \/ row = [status |-> s, date |-> date'[c]]
    BY <1>1, KeptStays
<1>2. \A s : Kept(rows[c], c, s) => Kept(rows[c], c, s)'
    BY <1>1 DEF Kept
<1>3. \A s : Kept(disk[c], c, s) => Kept(disk[c], c, s)' \/ disk'[c] = rows[c]
    BY <1>1 DEF Kept
<1>4. disk'[c] = rows[c] => \A s : Kept(disk[c], c, s)' <=> Kept(rows[c], c, s)'
    BY DEF Kept
<1>5. /\ NoRowYet(c)' <=> NoRowYet(c)
      /\ Given(c)' <=> Given(c)
      /\ Told(c)' <=> Told(c)
      /\ \A p : Committing(c, p)' <=> Committing(c, p)
    BY DEF NoRowYet, Given, Told, Committing
<1> QED BY <1>2, <1>3, <1>4, <1>5 DEF AnswerOK

\* prune() takes rows for their age only.
LEMMA PruneKeepsAnswers ==
    ASSUME TypeOK, AnswerInv, Prune
    PROVE  AnswerInv'
<1> SUFFICES ASSUME NEW c \in Calls
             PROVE  AnswerOK(c)'
    BY DEF AnswerInv
<1>1. /\ UNCHANGED <<day, pc, date, target, thread>>
      /\ rows'[c] = IF rows[c].date + PruneAge < day THEN NoRow ELSE rows[c]
      /\ disk'[c] = rows'[c]
    BY DEF Prune, Pruned
<1>2. AnswerOK(c)
    BY DEF AnswerInv
<1>3. \A s : Kept(rows[c], c, s) => Kept(rows[c], c, s)'
    BY <1>1 DEF Kept, NoRow
<1>4. \A s : Kept(disk[c], c, s)' <=> Kept(rows[c], c, s)'
    BY <1>1 DEF Kept
<1>5. rows[c].status = "absent" => rows'[c].status = "absent"
    BY <1>1 DEF NoRow
<1>6. /\ NoRowYet(c)' <=> NoRowYet(c)
      /\ Given(c)' <=> Given(c)
      /\ Told(c)' <=> Told(c)
      /\ \A p : Committing(c, p)' <=> Committing(c, p)
    BY <1>1 DEF NoRowYet, Given, Told, Committing
<1> QED BY <1>1, <1>2, <1>3, <1>4, <1>5, <1>6 DEF AnswerOK

\* A crash loses the open transaction: nobody was told of what was in it.
LEMMA CrashKeepsAnswers ==
    ASSUME TypeOK, LockInv, AnswerInv, Crash
    PROVE  AnswerInv'
<1> SUFFICES ASSUME NEW c \in Calls
             PROVE  AnswerOK(c)'
    BY DEF AnswerInv
<1>1. /\ UNCHANGED <<day, disk, date, target>>
      /\ rows'[c] = disk[c] /\ thread'[c] = "none"
      /\ pc'[c] = IF pc[c] \in Awaiting \cup {"reserved"} THEN "gone" ELSE pc[c]
    BY DEF Crash
<1>2. AnswerOK(c)
    BY DEF AnswerInv
<1>3. /\ NoRowYet(c)' => NoRowYet(c)
      /\ Told(c)' => Told(c)
      /\ ~Given(c)'
      /\ \A p : ~Committing(c, p)'
    BY <1>1 DEF NoRowYet, Given, Told, Committing, Awaiting
<1>4. \A s : /\ Kept(disk[c], c, s) => Kept(disk[c], c, s)'
             /\ Kept(disk[c], c, s) => Kept(rows[c], c, s)'
    BY <1>1 DEF Kept
<1> QED BY <1>1, <1>2, <1>3, <1>4 DEF AnswerOK

\* What the call whose step it is was told: its own statements change its row
\* between two answers.
LEMMA CallKeepsAnswer ==
    ASSUME TypeOK, LockInv, AnswerInv, NEW c \in Calls,
           \/ CallReserve(c) \/ (\E s \in Outcomes : CallSettle(c, s)) \/ StartThread(c)
           \/ Resume(c) \/ Cancel(c) \/ Abandon(c)
           \/ Select(c) \/ Insert(c) \/ Update(c) \/ Commit(c) \/ ThreadExit(c)
    PROVE  AnswerOK(c)'
<1> USE DEF TypeOK
<1>0. AnswerOK(c) /\ day' = day
    BY DEF AnswerInv, CallReserve, CallSettle, StartThread, Resume, Cancel, Abandon, Select,
       Insert, Update, Commit, ThreadExit
<1>1. CASE CallReserve(c)
    <2>1. /\ pc[c] = "idle" /\ pc'[c] = "reserving" /\ thread'[c] = thread[c]
          /\ rows'[c] = rows[c] /\ disk'[c] = disk[c]
        BY <1>1 DEF CallReserve
    <2>2. thread[c] = "none"
        BY <2>1 DEF LockInv, Awaiting
    <2> QED BY <1>0, <2>1, <2>2 DEF AnswerOK, NoRowYet, Given, Told, Committing
<1>2. ASSUME NEW s \in Outcomes, CallSettle(c, s)
      PROVE  AnswerOK(c)'
    <2>1. /\ pc[c] = "reserved" /\ pc'[c] = "settling" /\ thread'[c] = thread[c]
          /\ rows'[c] = rows[c] /\ disk'[c] = disk[c] /\ date' = date
        BY <1>2 DEF CallSettle
    <2>2. thread[c] = "none"
        BY <2>1 DEF LockInv, Awaiting
    <2> QED BY <1>0, <2>1, <2>2 DEF AnswerOK, NoRowYet, Given, Told, Committing, Kept
<1>3. CASE StartThread(c)
    <2>1. /\ pc[c] \in Awaiting /\ lock = Free /\ pc'[c] = pc[c]
          /\ thread'[c] = IF pc[c] = "reserving" THEN "select" ELSE "update"
          /\ UNCHANGED <<rows, disk, date, target>>
        BY <1>3 DEF StartThread
    <2>2. thread[c] = "none"
        BY <2>1 DEF LockInv, Awaiting
    <2> QED BY <1>0, <2>1, <2>2 DEF AnswerOK, NoRowYet, Given, Told, Committing, Kept, Awaiting
<1>4. CASE Resume(c)
    <2>1. /\ thread[c] \in {"done", "over"} /\ thread'[c] = "none" /\ lock = c
          /\ pc'[c] = IF thread[c] = "over" THEN "refused"
                      ELSE IF pc[c] = "reserving" THEN "reserved" ELSE "settled"
          /\ UNCHANGED <<rows, disk, date, target>>
        BY <1>4 DEF Resume
    <2>2. pc[c] \in Awaiting
        BY <2>1 DEF LockInv
    <2> QED BY <1>0, <2>1, <2>2 DEF AnswerOK, NoRowYet, Given, Told, Committing, Kept, Awaiting
<1>5. CASE Cancel(c) \/ Abandon(c)
    <2>1. pc'[c] = "gone"
        BY <1>5 DEF Cancel, Abandon
    <2> QED BY <2>1 DEF AnswerOK, NoRowYet, Given, Told, Committing
<1>6. CASE Select(c)
    <2>1. /\ thread[c] = "select" /\ thread'[c] \in {"insert", "over"} /\ pc'[c] = pc[c]
          /\ UNCHANGED <<rows, disk>>
        BY <1>6 DEF Select
    <2> QED BY <1>0, <2>1 DEF AnswerOK, NoRowYet, Given, Told, Committing
<1>7. CASE Insert(c)
    <2>1. /\ thread[c] = "insert" /\ thread'[c] = "commit" /\ pc'[c] = pc[c]
          /\ rows'[c] = [status |-> "reserved", date |-> date[c]] /\ date' = date
        BY <1>7 DEF Insert, Entered
    <2> QED BY <1>0, <2>1 DEF AnswerOK, NoRowYet, Given, Told, Committing, Kept
<1>8. CASE Update(c)
    <2>1. /\ thread[c] = "update" /\ thread'[c] = "commit" /\ pc'[c] = pc[c]
          /\ UNCHANGED <<disk, date, target>>
          /\ pc[c] \in {"settling", "gone"}
        BY <1>8 DEF Update, LockInv
    <2>2. rows'[c] = IF rows[c].status = "absent" THEN rows[c]
                     ELSE [rows[c] EXCEPT !.status = target[c]]
        BY <1>8 DEF Update, Settled
    <2>3. pc[c] = "settling" => Kept(rows[c], c, target[c])'
        BY <1>0, <2>1, <2>2 DEF AnswerOK, Given, Kept
    <2>4. pc[c] = "settling" => Kept(disk[c], c, "reserved")'
        BY <1>0, <2>1 DEF AnswerOK, Given, Kept
    <2> QED BY <2>1, <2>3, <2>4 DEF AnswerOK, NoRowYet, Given, Told, Committing
<1>9. CASE Commit(c)
    <2>1. /\ thread[c] = "commit" /\ thread'[c] = "done" /\ pc'[c] = pc[c]
          /\ UNCHANGED <<rows, date, target>> /\ disk'[c] = rows[c]
        BY <1>9 DEF Commit
    <2>2. \A s : Kept(rows[c], c, s) => Kept(rows[c], c, s)' /\ Kept(disk[c], c, s)'
        BY <1>0, <2>1 DEF Kept
    <2>3. pc[c] = "settled" => thread[c] = "none" \/ c \in abandoned
        BY DEF LockInv, Awaiting
    <2>4. pc[c] # "settled"
        BY <2>1, <2>3 DEF LockInv
    <2> QED BY <1>0, <2>1, <2>2, <2>4 DEF AnswerOK, NoRowYet, Given, Told, Committing
<1>10. CASE ThreadExit(c)
    <2>1. pc'[c] = "gone"
        BY <1>10 DEF ThreadExit
    <2> QED BY <2>1 DEF AnswerOK, NoRowYet, Given, Told, Committing
<1> QED BY <1>1, <1>2, <1>3, <1>4, <1>5, <1>6, <1>7, <1>8, <1>9, <1>10

\* The inductive step.
LEMMA AnswerInductive ==
    ASSUME TypeOK, LockInv, AnswerInv, [Next]_vars
    PROVE  AnswerInv'
<1> USE DEF TypeOK
<1>1. ASSUME NEW c \in Calls, NEW x \in Calls, x # c,
             \/ CallReserve(c) \/ (\E s \in Outcomes : CallSettle(c, s)) \/ StartThread(c)
             \/ Resume(c) \/ Cancel(c) \/ Abandon(c)
             \/ Select(c) \/ Insert(c) \/ Update(c) \/ Commit(c) \/ ThreadExit(c)
      PROVE  AnswerOK(x)'
    <2>1. /\ pc'[x] = pc[x] /\ thread'[x] = thread[x] /\ date'[x] = date[x]
          /\ target'[x] = target[x] /\ day' = day
          /\ rows'[x] = rows[x] /\ disk'[x] \in {disk[x], rows[x]}
        BY <1>1 DEF CallReserve, CallSettle, StartThread, Resume, Cancel, Abandon, Select, Insert,
           Update, Commit, ThreadExit, Entered, Settled
    <2>2. day' \in Days /\ day <= day'
        BY <2>1 DEF Days
    <2> QED BY <2>1, <2>2, OthersKeepAnswers DEF AnswerInv
<1>2. ASSUME NEW c \in Calls,
             \/ CallReserve(c) \/ (\E s \in Outcomes : CallSettle(c, s)) \/ StartThread(c)
             \/ Resume(c) \/ Cancel(c) \/ Abandon(c)
             \/ Select(c) \/ Insert(c) \/ Update(c) \/ Commit(c) \/ ThreadExit(c)
      PROVE  AnswerInv'
    BY <1>1, <1>2, CallKeepsAnswer DEF AnswerInv
<1>3. ASSUME NewDay \/ UNCHANGED vars PROVE AnswerInv'
    <2>1. /\ UNCHANGED <<pc, thread, date, target, rows, disk>>
          /\ day' = day \/ (day' = day + 1 /\ day < MaxDay)
        BY <1>3 DEF NewDay, vars
    <2>2. day' \in Days /\ day <= day'
        BY <2>1 DEF Days
    <2> QED BY <2>1, <2>2, OthersKeepAnswers DEF AnswerInv
<1> QED BY <1>2, <1>3, PruneKeepsAnswers, CrashKeepsAnswers DEF Next

\* A reservation that reserve() returned, and a status that commit() or
\* release() returned from, are on disk, whoever's COMMIT wrote them and
\* whatever crashed since, unless pruned for age.
THEOREM AnswersCorrect == Spec => []AnswerIsDurable
<1>1. Init => AnswerInv
    BY DEF Init, AnswerInv, AnswerOK, NoRowYet, Given, Told, Committing, NoRow
<1>2. AnswerInv /\ TypeOK => AnswerIsDurable
    <2> SUFFICES ASSUME AnswerInv, TypeOK, NEW c \in Calls
                 PROVE  /\ pc[c] \in {"reserved", "settling"} =>
                              \/ disk[c].status = "absent" /\ date[c] + PruneAge < day
                              \/ disk[c].date = date[c] /\ IsLive(disk[c])
                              \/ pc[c] = "settling" /\ disk[c].status = target[c]
                        /\ pc[c] = "settled" =>
                              \/ disk[c].status = "absent" /\ date[c] + PruneAge < day
                              \/ disk[c] = [status |-> target[c], date |-> date[c]]
        BY DEF AnswerIsDurable
    <2>1. AnswerOK(c)
        BY DEF AnswerInv
    <2>2. thread[c] \in {"none", "over", "done", "select", "insert", "update", "commit"}
        BY DEF TypeOK, Threads, Statements
    <2>3. Kept(disk[c], c, "reserved") => \/ disk[c].status = "absent" /\ date[c] + PruneAge < day
                                          \/ disk[c].date = date[c] /\ IsLive(disk[c])
        BY DEF Kept, IsLive
    <2>4. Kept(disk[c], c, target[c]) => \/ disk[c].status = "absent" /\ date[c] + PruneAge < day
                                         \/ disk[c] = [status |-> target[c], date |-> date[c]]
        BY DEF Kept
    <2> QED BY <2>1, <2>2, <2>3, <2>4 DEF AnswerOK, Given, Told, Committing
<1> QED BY <1>1, <1>2, AnswerInductive, TypeCorrect, LockCorrect, PTL DEF Spec
=============================================================================
