-------------------------- MODULE BilledCallProofs --------------------------
(***************************************************************************)
(* What a billed call promises, for any number of calls, owners, attempts  *)
(* and days: what the provider executed is counted, once and within the    *)
(* daily limit, owned tasks are paid for, every step is a step of the      *)
(* abstract budget, and no permit is lost.                                 *)
(*                                                                         *)
(* None of it is inductive.  What carries it is how far a call has come:   *)
(* CallInv says for each phase what its row, its charges and its verdict   *)
(* may be, and that a row which is gone was pruned for age.                *)
(***************************************************************************)
EXTENDS BilledCall, BudgetRowsProofs, ProviderLimitersProofs

\* The types the argument needs; attempts and queues are not in it.
TableTypes == day \in Days /\ rows \in [Calls -> Row]

CallTypes ==
    /\ TableTypes
    /\ phase \in [Calls -> Phases]
    /\ usage \in [Calls -> Days]
    /\ verdict \in [Calls -> Verdicts]
    /\ charges \in [Calls -> Nat]
    /\ lost \in [Calls -> BOOLEAN]
    /\ owned \in [Calls -> BOOLEAN]

\* Between the reservation and its settlement the row is reserved or pruned.
Held(c) == rows[c].status = "reserved" \/ (rows[c].status = "absent" /\ Aged(c))

\* The row of a call is of the day it was made on.
Dated(c) == usage[c] <= day /\ (rows[c].status # "absent" => rows[c].date = usage[c])

PhaseInv(c) ==
    /\ phase[c] \in {"idle", "refused"} => rows[c].status = "absent" /\ charges[c] = 0
    /\ phase[c] \in InSlot => Held(c) /\ (charges[c] = 0 \/ lost[c])
    /\ phase[c] = "settling" =>
          Held(c) /\ (charges[c] > 0 /\ ~lost[c] => verdict[c] # "failure")
    /\ phase[c] = "recording" => rows[c].status = "committed" \/ Aged(c)
    /\ owned[c] => phase[c] \in Ended

\* The three promises about one call.
Kept(c) ==
    /\ charges[c] > 0 /\ ~lost[c] => IsLive(rows[c]) \/ Aged(c)
    /\ charges[c] <= 1 \/ lost[c]
    /\ owned[c] => rows[c].status = "committed" \/ Aged(c)

CallInv == CallTypes /\ \A c \in Calls : Dated(c) /\ PhaseInv(c) /\ Kept(c)

-----------------------------------------------------------------------------
(* The abstract budget, as the calls see it                                *)

\* The operators of the instance are those of this module.
LEMMA SameOperators ==
    /\ \A t, c, d : Promise!Fits(t, c, d) <=> Fits(t, c, d)
    /\ \A t, c, d : Promise!Entered(t, c, d) = Entered(t, c, d)
    /\ \A t, c, s : Promise!Settled(t, c, s) = Settled(t, c, s)
    /\ \A t, d : Promise!Pruned(t, d) = Pruned(t, d)
    /\ Promise!Days = Days /\ Promise!Outcomes = Outcomes /\ Promise!NoRow = NoRow
<1>1. ASSUME NEW t, NEW o, NEW d PROVE Promise!Spent(t, o, d) = Spent(t, o, d)
    <2>1. Promise!LiveCalls(t, o, d) = LiveCalls(t, o, d)
        BY DEF Promise!LiveCalls, LiveCalls, Promise!IsLive, IsLive
    <2>2. ASSUME NEW S PROVE Promise!Amount(S) = Amount(S)
        <3>1. Promise!Units(S) = Units(S)
            BY DEF Promise!Units, Units
        <3> QED BY <3>1 DEF Promise!Amount, Amount, Promise!Cardinality, Cardinality
    <2> QED BY <2>1, <2>2 DEF Promise!Spent, Spent
<1>2. \A t, c, d : Promise!Fits(t, c, d) <=> Fits(t, c, d)
    BY <1>1 DEF Promise!Fits, Fits
<1>3. /\ \A t, c, d : Promise!Entered(t, c, d) = Entered(t, c, d)
      /\ \A t, c, s : Promise!Settled(t, c, s) = Settled(t, c, s)
    BY DEF Promise!Entered, Entered, Promise!Settled, Settled
<1>4. Promise!Days = Days /\ Promise!Outcomes = Outcomes /\ Promise!NoRow = NoRow
    BY DEF Promise!NoRow, NoRow, Promise!Days, Days, Promise!Outcomes, Outcomes
<1>5. \A t, d : Promise!Pruned(t, d) = Pruned(t, d)
    BY <1>4 DEF Promise!Pruned, Pruned
<1> QED BY <1>2, <1>3, <1>4, <1>5

\* Dates and rows stay in their types.
LEMMA TableTypesInductive ==
    ASSUME TableTypes, [Promise!Next]_Promise!vars
    PROVE  TableTypes'
BY SameOperators, DayAssumption
   DEF TableTypes, Promise!Next, Promise!vars, Promise!Reserve, Promise!Settle, Promise!Prune,
       Promise!NewDay, Entered, Settled, Pruned, Days, Row, NoRow, Statuses, Outcomes

\* A reservation is entered only if it fits, everything else spends no more.
LEMMA LimitInductive ==
    ASSUME TableTypes, WithinLimit(rows), [Promise!Next]_Promise!vars
    PROVE  WithinLimit(rows)'
<1> SUFFICES ASSUME DailyLimit # 0, NEW o \in Owners, NEW d \in Days
             PROVE  Spent(rows', o, d) <= DailyLimit
    BY DEF WithinLimit, Days, Spent, LiveCalls
<1> USE SameOperators DEF TableTypes
<1>0. /\ Spent(rows, o, d) \in Nat
      /\ Spent(rows', o, d) \in Nat
      /\ Spent(rows, o, d) <= DailyLimit
    BY AmountType DEF WithinLimit, Spent, LiveCalls
<1>1. ASSUME NEW c \in Calls, NEW e \in Days, Promise!Reserve(c, e)
      PROVE  Spent(rows', o, d) <= DailyLimit
    <2>1. CostOf[c] \in Nat
        BY CostAssumption
    <2>2. Fits(rows, c, e) /\ rows' = Entered(rows, c, e)
        BY <1>1 DEF Promise!Reserve
    <2> QED BY <1>0, <2>1, <2>2, SpentEntered, LimitAssumption DEF Fits
<1>2. ASSUME NEW c \in Calls, NEW s \in Outcomes, Promise!Settle(c, s)
      PROVE  Spent(rows', o, d) <= DailyLimit
    <2>1. rows[c].status = "reserved" /\ rows' = Settled(rows, c, s)
        BY <1>2 DEF Promise!Settle
    <2>2. \A x \in Calls : IsLive(rows'[x]) /\ rows'[x].date = d
                             => IsLive(rows[x]) /\ rows[x].date = d
        BY <2>1 DEF Settled, Row, IsLive
    <2> QED BY <1>0, <2>2, SpentMonotone, LimitAssumption
<1>3. ASSUME Promise!Prune
      PROVE  Spent(rows', o, d) <= DailyLimit
    <2>1. rows' = Pruned(rows, day)
        BY <1>3 DEF Promise!Prune
    <2>2. \A x \in Calls : IsLive(rows'[x]) /\ rows'[x].date = d
                             => IsLive(rows[x]) /\ rows[x].date = d
        BY <2>1 DEF Pruned, NoRow, IsLive
    <2> QED BY <1>0, <2>2, SpentMonotone, LimitAssumption
<1>4. CASE UNCHANGED rows
    BY <1>0, <1>4
<1> QED BY <1>1, <1>2, <1>3, <1>4 DEF Promise!Next, Promise!NewDay, Promise!vars

\* An empty table is within every limit.
LEMMA LimitInit ==
    ASSUME rows = [c \in Calls |-> NoRow]
    PROVE  WithinLimit(rows)
<1> SUFFICES ASSUME NEW o \in Owners, NEW d \in Days
             PROVE  DailyLimit # 0 => Spent(rows, o, d) <= DailyLimit
    BY DEF WithinLimit
<1>1. LiveCalls(rows, o, d) = {}
    BY DEF LiveCalls, IsLive, NoRow
<1>2. Units({}) = {}
    BY DEF Units
<1> QED BY <1>1, <1>2, FS_EmptySet, LimitAssumption DEF Spent, Amount

\* The abstract budget keeps the daily limit of every owner and day.
THEOREM PromiseCorrect == Promise!Spec => []WithinLimit(rows)
<1>1. Promise!Init => TableTypes /\ WithinLimit(rows)
    BY SameOperators, LimitInit, DayAssumption
       DEF Promise!Init, TableTypes, Days, Row, NoRow, Statuses
<1>2. TableTypes /\ WithinLimit(rows) /\ [Promise!Next]_Promise!vars
        => (TableTypes /\ WithinLimit(rows))'
    BY TableTypesInductive, LimitInductive
<1> QED BY <1>1, <1>2, PTL DEF Promise!Spec

-----------------------------------------------------------------------------
(* The calls                                                               *)

\* Nothing that the invariant says of the call changes.
Same(x) ==
    /\ phase'[x] = phase[x] /\ usage'[x] = usage[x] /\ verdict'[x] = verdict[x]
    /\ charges'[x] = charges[x] /\ lost'[x] = lost[x] /\ owned'[x] = owned[x]
    /\ rows'[x] = rows[x]

CallOK(c) == Dated(c) /\ PhaseInv(c) /\ Kept(c)

\* A step that changes nothing of a call keeps what is known of it.
LEMMA SameKeeps ==
    ASSUME day' = day, NEW x \in Calls, Same(x), CallOK(x)
    PROVE  CallOK(x)'
BY DEF Same, CallOK, Dated, PhaseInv, Held, Kept, Aged

\* A step of one call concerns that call only.
LEMMA OneCallKeeps ==
    ASSUME CallInv, CallTypes', day' = day, NEW c \in Calls, CallOK(c)',
           \A x \in Calls : x # c => Same(x)
    PROVE  CallInv'
<1>1. \A x \in Calls : CallOK(x)'
    BY SameKeeps DEF CallInv, CallOK
<1> QED BY <1>1 DEF CallInv, CallOK

\* Before the first call.
LEMMA CallsInit == Init => CallInv
<1> SUFFICES ASSUME Init PROVE CallInv
    OBVIOUS
<1>1. CallTypes
    BY DayAssumption
       DEF Init, CallTypes, TableTypes, Days, Row, NoRow, Statuses, Phases, Verdicts
<1>2. ASSUME NEW c \in Calls PROVE Dated(c) /\ PhaseInv(c) /\ Kept(c)
    BY DayAssumption DEF Init, Dated, PhaseInv, Kept, NoRow, InSlot, Ended
<1> QED BY <1>1, <1>2 DEF CallInv

\* Entering the slot, refused or not.
LEMMA EntryKeeps ==
    ASSUME CallInv, NEW c \in Calls, Reserve(c) \/ Refuse(c) \/ AbandonReserve(c)
    PROVE  CallInv'
<1> USE SameOperators DEF CallInv, CallTypes, TableTypes
<1>1. day' = day /\ phase[c] = "idle" /\ UNCHANGED <<verdict, charges, lost, owned>>
    BY DEF Reserve, Refuse, AbandonReserve, Promise!Reserve
<1>2. CASE Refuse(c)
    <2>1. CallTypes'
        BY <1>2 DEF Refuse, Goto, Phases
    <2>2. phase'[c] = "refused" /\ rows' = rows /\ usage' = usage
        BY <1>2 DEF Refuse, Goto
    <2>3. CallOK(c)'
        BY <1>1, <2>2 DEF CallOK, Dated, PhaseInv, Held, Kept, Aged, InSlot, Ended
    <2>4. \A x \in Calls : x # c => Same(x)
        BY <1>1, <1>2 DEF Refuse, Goto, Same
    <2> QED BY <1>1, <2>1, <2>3, <2>4, OneCallKeeps
<1>3. CASE Reserve(c) \/ AbandonReserve(c)
    <2>1. /\ rows' = [rows EXCEPT ![c] = [status |-> "reserved", date |-> day]]
          /\ usage' = [usage EXCEPT ![c] = day]
          /\ \/ phase' = [phase EXCEPT ![c] = "slot"]
             \/ phase' = [phase EXCEPT ![c] = "cancelled"]
        BY <1>3 DEF Reserve, AbandonReserve, Goto, Promise!Reserve, Entered
    <2>2. CallTypes'
        BY <1>1, <2>1 DEF Row, Statuses, Phases
    <2>3. /\ rows'[c] = [status |-> "reserved", date |-> day] /\ usage'[c] = day
          /\ phase'[c] \in {"slot", "cancelled"}
        BY <2>1
    <2>4. ~owned[c] /\ charges[c] = 0
        BY <1>1 DEF PhaseInv, Ended
    <2>5. day \in Int
        BY DayAssumption DEF Days
    <2>6. CallOK(c)'
        BY <1>1, <2>3, <2>4, <2>5 DEF CallOK, Dated, PhaseInv, Held, Kept, Aged, InSlot, Ended
    <2>7. \A x \in Calls : x # c => Same(x)
        BY <1>1, <2>1 DEF Same
    <2> QED BY <1>1, <2>2, <2>6, <2>7, OneCallKeeps
<1> QED BY <1>2, <1>3

\* An attempt begins.
LEMMA DispatchKeeps ==
    ASSUME CallInv, NEW c \in Calls, Dispatch(c)
    PROVE  CallInv'
<1> USE DEF CallInv, CallTypes, TableTypes
<1>1. /\ phase[c] \in InSlot /\ phase' = [phase EXCEPT ![c] = "calling"]
      /\ UNCHANGED <<day, rows, usage, verdict, charges, lost, owned>>
    BY DEF Dispatch, Goto, InSlot
<1>2. CallTypes'
    BY <1>1 DEF Phases
<1>3. CallOK(c)'
    BY <1>1 DEF CallOK, Dated, PhaseInv, Held, Kept, Aged, InSlot, Ended
<1>4. \A x \in Calls : x # c => Same(x)
    BY <1>1 DEF Same
<1> QED BY <1>1, <1>2, <1>3, <1>4, OneCallKeeps

\* An attempt is answered: what it executed is charged once, unless it hides.
LEMMA AnswerKeeps ==
    ASSUME CallInv, NEW c \in Calls, NEW a \in Answers, Retry(c, a) \/ Return(c, a)
    PROVE  CallInv'
<1> USE DEF CallInv, CallTypes, TableTypes
<1>1. /\ phase[c] = "calling" /\ UNCHANGED <<day, rows, usage, owned>>
      /\ charges' = [charges EXCEPT ![c] = IF a.executed THEN @ + 1 ELSE @]
      /\ lost' = [lost EXCEPT ![c] = @ \/ (a.executed /\ Verdict(a) = "failure")]
      /\ \/ /\ phase' = [phase EXCEPT ![c] = "backoff"] /\ verdict' = verdict
            /\ Retryable(a) /\ ~Ambiguous(a)
         \/ /\ phase' = [phase EXCEPT ![c] = "settling"]
            /\ verdict' = [verdict EXCEPT ![c] = Verdict(a)]
    BY DEF Retry, Return, Goto, Executed, WillRetry
<1>2. Verdict(a) \in Verdicts /\ a.executed \in BOOLEAN
    <2>1. Verdict(a) \in Verdicts
        BY DEF Verdict, Verdicts
    <2>2. \E k, e : e \in BOOLEAN /\ a = [kind |-> k, executed |-> e]
        BY DEF Answers, Answer
    <2> QED BY <2>1, <2>2
<1>3. Retryable(a) /\ ~Ambiguous(a) => Verdict(a) = "failure"
    BY DEF Verdict, Retryable
<1>4. CallTypes'
    BY <1>1, <1>2 DEF Phases
<1>5. Held(c) /\ (charges[c] = 0 \/ lost[c]) /\ ~owned[c]
    BY <1>1 DEF PhaseInv, InSlot, Ended
<1>6. /\ Held(c)' /\ Dated(c)'
      /\ charges'[c] = IF a.executed THEN charges[c] + 1 ELSE charges[c]
      /\ lost[c] => lost'[c]
      /\ a.executed /\ Verdict(a) = "failure" => lost'[c]
      /\ ~owned'[c]
    BY <1>1, <1>5 DEF Held, Dated, Aged
<1>7. PhaseInv(c)'
    <2>1. CASE phase'[c] = "backoff"
        <3>1. Verdict(a) = "failure"
            BY <1>1, <1>3, <2>1
        <3> QED BY <1>5, <1>6, <2>1, <3>1 DEF PhaseInv, InSlot, Ended
    <2>2. CASE phase'[c] = "settling" /\ verdict'[c] = Verdict(a)
        <3>1. charges'[c] > 0 /\ ~lost'[c] => a.executed
            BY <1>5, <1>6
        <3>2. charges'[c] > 0 /\ ~lost'[c] => verdict'[c] # "failure"
            BY <1>6, <2>2, <3>1
        <3> QED BY <1>6, <2>2, <3>2 DEF PhaseInv, InSlot
    <2> QED BY <1>1, <2>1, <2>2
<1>8. Kept(c)'
    BY <1>5, <1>6 DEF Kept, Held, IsLive, Aged
<1>9. \A x \in Calls : x # c => Same(x)
    BY <1>1 DEF Same
<1> QED BY <1>1, <1>4, <1>6, <1>7, <1>8, <1>9, OneCallKeeps DEF CallOK

\* The reservation is settled by the verdict, awaited or not.
LEMMA SettleKeeps ==
    ASSUME CallInv, NEW c \in Calls, Settle(c) \/ AbandonSettle(c)
    PROVE  CallInv'
<1> USE DEF CallInv, CallTypes, TableTypes
<1>1. /\ phase[c] = "settling" /\ UNCHANGED <<day, usage, verdict, charges, lost, owned>>
      /\ rows' = Settled(rows, c, TargetOf(verdict[c]))
      /\ phase' \in {[phase EXCEPT ![c] = p] : p \in {"recording", "failed", "cancelled"}}
      /\ phase'[c] = "recording" => verdict[c] = "success"
    BY DEF Settle, AbandonSettle, Goto, AfterSettle
<1>2. TargetOf(verdict[c]) \in Outcomes
    BY DEF TargetOf, Outcomes
<1>3. CallTypes'
    BY <1>1, <1>2 DEF Settled, Row, Statuses, Phases
<1>4. Held(c) /\ ~owned[c] /\ (charges[c] > 0 /\ ~lost[c] => verdict[c] # "failure")
    BY <1>1 DEF PhaseInv, Ended
<1>5. /\ rows[c].status = "reserved" =>
            rows'[c].status = TargetOf(verdict[c]) /\ rows'[c].date = rows[c].date
      /\ rows[c].status = "absent" => rows'[c] = rows[c]
    BY <1>1 DEF Settled, Row
<1>6. Aged(c)' <=> Aged(c)
    BY <1>1 DEF Aged
<1>7. phase'[c] \in {"recording", "failed", "cancelled"}
    BY <1>1
<1>8. Dated(c)'
    BY <1>1, <1>4, <1>5 DEF Dated, Held
<1>9. PhaseInv(c)'
    BY <1>1, <1>4, <1>5, <1>6, <1>7 DEF PhaseInv, Held, InSlot, TargetOf
<1>10. Kept(c)'
    BY <1>1, <1>4, <1>5, <1>6 DEF Kept, Held, IsLive, TargetOf
<1>11. \A x \in Calls : x # c => Same(x)
    BY <1>1 DEF Same, Settled
<1> QED BY <1>1, <1>3, <1>8, <1>9, <1>10, <1>11, OneCallKeeps DEF CallOK

\* The owner is recorded, awaited or not.
LEMMA RecordKeeps ==
    ASSUME CallInv, NEW c \in Calls, Record(c) \/ AbandonRecord(c)
    PROVE  CallInv'
<1> USE DEF CallInv, CallTypes, TableTypes
<1>1. /\ phase[c] = "recording" /\ UNCHANGED <<day, rows, usage, verdict, charges, lost>>
      /\ owned' = [owned EXCEPT ![c] = TRUE]
      /\ phase' \in {[phase EXCEPT ![c] = p] : p \in {"done", "cancelled"}}
    BY DEF Record, AbandonRecord, Goto
<1>2. CallTypes'
    BY <1>1 DEF Phases
<1>3. phase'[c] \in {"done", "cancelled"}
    BY <1>1
<1>4. rows[c].status = "committed" \/ Aged(c)
    BY <1>1 DEF PhaseInv
<1>5. CallOK(c)'
    BY <1>1, <1>3, <1>4 DEF CallOK, Dated, PhaseInv, Kept, Aged, InSlot, Ended
<1>6. \A x \in Calls : x # c => Same(x)
    BY <1>1 DEF Same
<1> QED BY <1>1, <1>2, <1>5, <1>6, OneCallKeeps

\* A cancelled call leaves its row as it is; a request in flight may be executed.
LEMMA CancelKeeps ==
    ASSUME CallInv, NEW c \in Calls, CancelInSlot(c) \/ CancelWaiting(c)
    PROVE  CallInv'
<1> USE DEF CallInv, CallTypes, TableTypes
<1>1. /\ phase[c] \in InSlot \cup {"settling", "recording"}
      /\ UNCHANGED <<day, rows, usage, verdict, lost, owned>>
      /\ phase' = [phase EXCEPT ![c] = "cancelled"]
      /\ \/ charges' = charges
         \/ phase[c] = "calling" /\ charges' = [charges EXCEPT ![c] = @ + 1]
    BY DEF CancelInSlot, CancelWaiting, Goto
<1>2. CallTypes'
    BY <1>1 DEF Phases
<1>3. \/ charges'[c] = charges[c]
      \/ phase[c] \in InSlot /\ charges'[c] = charges[c] + 1
    BY <1>1 DEF InSlot
<1>4. ~owned[c]
    BY <1>1 DEF PhaseInv, InSlot, Ended
<1>5. Dated(c)' /\ PhaseInv(c)'
    BY <1>1, <1>4 DEF Dated, PhaseInv, InSlot, Ended
<1>6. Kept(c)'
    BY <1>1, <1>3, <1>4 DEF PhaseInv, Kept, Held, IsLive, Aged
<1>7. \A x \in Calls : x # c => Same(x)
    BY <1>1 DEF Same
<1> QED BY <1>1, <1>2, <1>5, <1>6, <1>7, OneCallKeeps DEF CallOK

\* The process dies: every call in progress ends, with its row as it is.
LEMMA CrashKeeps == ASSUME CallInv, Crash PROVE CallInv'
<1> USE DEF CallInv, CallTypes, TableTypes
<1>1. PICK S \in SUBSET {c \in Calls : phase[c] = "calling"} :
          charges' = [c \in Calls |-> IF c \in S THEN charges[c] + 1 ELSE charges[c]]
    BY DEF Crash
<1>2. /\ phase' = [c \in Calls |-> IF phase[c] \in Ended \cup {"idle"} THEN phase[c] ELSE "crashed"]
      /\ UNCHANGED <<day, rows, usage, verdict, lost, owned>>
    BY DEF Crash
<1>3. CallTypes'
    BY <1>1, <1>2 DEF Phases
<1>4. ASSUME NEW c \in Calls PROVE CallOK(c)'
    <2>1. CASE phase[c] \in Ended \cup {"idle"}
        <3>1. Same(c)
            BY <1>1, <1>2, <2>1 DEF Same, Ended
        <3> QED BY <1>2, <3>1, SameKeeps DEF CallOK
    <2>2. CASE phase[c] \notin Ended \cup {"idle"}
        <3>1. phase'[c] = "crashed" /\ ~owned[c]
            BY <1>2, <2>2 DEF PhaseInv
        <3>2. \/ charges'[c] = charges[c]
              \/ phase[c] \in InSlot /\ charges'[c] = charges[c] + 1
            BY <1>1 DEF InSlot
        <3>3. Dated(c)' /\ PhaseInv(c)'
            BY <1>2, <3>1 DEF Dated, PhaseInv, InSlot, Ended
        <3>4. Kept(c)'
            BY <1>2, <3>1, <3>2 DEF PhaseInv, Kept, Held, IsLive, Aged
        <3> QED BY <3>3, <3>4 DEF CallOK
    <2> QED BY <2>1, <2>2
<1> QED BY <1>3, <1>4 DEF CallOK

\* A day passes or old rows go: a row that is gone was old.
LEMMA TimeKeeps == ASSUME CallInv, NewDay \/ Prune PROVE CallInv'
<1> USE SameOperators, DayAssumption DEF CallInv, CallTypes, TableTypes
<1>1. UNCHANGED callVars
    BY DEF NewDay, Prune
<1>2. \/ day' = day + 1 /\ rows' = rows /\ day < MaxDay
      \/ day' = day /\ rows' = Pruned(rows, day)
    BY DEF NewDay, Prune, Promise!NewDay, Promise!Prune
<1>3. CallTypes'
    BY <1>1, <1>2 DEF callVars, Days, Pruned, NoRow, Row, Statuses
<1>4. ASSUME NEW c \in Calls PROVE CallOK(c)'
    <2>1. /\ phase'[c] = phase[c] /\ usage'[c] = usage[c] /\ verdict'[c] = verdict[c]
          /\ charges'[c] = charges[c] /\ lost'[c] = lost[c] /\ owned'[c] = owned[c]
        BY <1>1 DEF callVars
    <2>2. Aged(c) => Aged(c)'
        BY <1>2, <2>1 DEF Aged, Days
    <2>3. \/ rows'[c] = rows[c]
          \/ rows'[c].status = "absent" /\ (rows[c].status = "absent" \/ Aged(c)')
        BY <1>2, <2>1 DEF Pruned, NoRow, Aged, Dated
    <2>4. usage'[c] <= day'
        BY <1>2, <2>1 DEF Dated, Days
    <2>5. Dated(c)'
        BY <2>1, <2>3, <2>4 DEF Dated
    <2>6. (Held(c) => Held(c)') /\ (rows[c].status = "committed" => rows'[c].status = "committed" \/ Aged(c)')
        BY <2>2, <2>3 DEF Held
    <2>7. rows[c].status = "absent" => rows'[c].status = "absent"
        BY <2>3
    <2>8. PhaseInv(c)'
        BY <2>1, <2>2, <2>6, <2>7 DEF PhaseInv
    <2>9. Kept(c)'
        BY <2>1, <2>2, <2>3, <2>6 DEF Kept, IsLive
    <2> QED BY <2>5, <2>8, <2>9 DEF CallOK
<1> QED BY <1>3, <1>4 DEF CallOK

\* Waiting for permits is not the table's business.
LEMMA WaitingKeeps ==
    ASSUME CallInv, UNCHANGED <<day, rows, callVars>>
    PROVE  CallInv'
BY DEF CallInv, CallTypes, TableTypes, Dated, PhaseInv, Held, Kept, Aged, callVars

\* Every step, whoever takes it.
LEMMA CallsInductive == ASSUME CallInv, [Next]_vars PROVE CallInv'
<1>1. ASSUME NEW c \in Calls, Step(c) PROVE CallInv'
    BY <1>1, EntryKeeps, DispatchKeeps, AnswerKeeps, SettleKeeps, RecordKeeps, WaitingKeeps
       DEF Step, Acquire
<1>2. ASSUME NEW c \in Calls, Interrupt(c) PROVE CallInv'
    BY <1>2, EntryKeeps, CancelKeeps, SettleKeeps, RecordKeeps DEF Interrupt
<1>3. ASSUME NEW o \in Owners, ExpirePrincipal(o) PROVE CallInv'
    BY <1>3, WaitingKeeps DEF ExpirePrincipal
<1>4. CASE UNCHANGED vars
    BY <1>4, WaitingKeeps DEF vars
<1> QED BY <1>1, <1>2, <1>3, <1>4, TimeKeeps, CrashKeeps DEF Next

-----------------------------------------------------------------------------
(* Theorems                                                                *)

\* What is known of the calls, in every state.
LEMMA CallsCorrect == Spec => []CallInv
BY CallsInit, CallsInductive, PTL DEF Spec

\* Through timeouts, retries, cancellations and crashes, what the provider
\* executed stays counted against the budget until it is too old.
THEOREM CountedCorrect == Spec => []ExecutedIsCounted
<1>1. CallInv => ExecutedIsCounted
    BY DEF CallInv, Kept, ExecutedIsCounted
<1> QED BY <1>1, CallsCorrect, PTL

\* The retry loop executes no call twice, unless an answer hid the first time.
THEOREM OnceCorrect == Spec => []ExecutedOnce
<1>1. CallInv => ExecutedOnce
    BY DEF CallInv, Kept, ExecutedOnce
<1> QED BY <1>1, CallsCorrect, PTL

\* Whoever owns a task has paid for it.
THEOREM OwnedCorrect == Spec => []OwnedIsCommitted
<1>1. CallInv => OwnedIsCommitted
    BY DEF CallInv, Kept, OwnedIsCommitted
<1> QED BY <1>1, CallsCorrect, PTL

\* Each step of the calls is a step of the abstract budget or leaves it alone.
LEMMA StepSimulation ==
    ASSUME CallInv, [Next]_vars
    PROVE  [Promise!Next]_Promise!vars
<1> USE SameOperators DEF CallInv, CallTypes, TableTypes, Promise!vars
<1>1. ASSUME NEW c \in Calls, Reserve(c) \/ AbandonReserve(c)
      PROVE  [Promise!Next]_Promise!vars
    BY <1>1 DEF Reserve, AbandonReserve, Promise!Next
<1>2. ASSUME NEW c \in Calls, Settle(c) \/ AbandonSettle(c)
      PROVE  [Promise!Next]_Promise!vars
    <2>1. /\ phase[c] = "settling" /\ day' = day
          /\ rows' = Settled(rows, c, TargetOf(verdict[c]))
        BY <1>2 DEF Settle, AbandonSettle
    <2>2. CASE rows[c].status = "absent"
        BY <2>1, <2>2 DEF Settled
    <2>3. CASE rows[c].status = "reserved"
        <3>1. Promise!Settle(c, TargetOf(verdict[c]))
            BY <2>1, <2>3 DEF Promise!Settle
        <3>2. TargetOf(verdict[c]) \in Outcomes
            BY DEF TargetOf, Outcomes
        <3> QED BY <3>1, <3>2 DEF Promise!Next
    <2> QED BY <2>1, <2>2, <2>3 DEF PhaseInv, Held
<1>3. ASSUME NEW c \in Calls,
             Refuse(c) \/ Acquire(c) \/ Dispatch(c) \/ (\E a \in Answers : Retry(c, a) \/ Return(c, a))
                 \/ Record(c) \/ CancelInSlot(c) \/ CancelWaiting(c) \/ AbandonRecord(c)
      PROVE  UNCHANGED <<day, rows>>
    BY <1>3 DEF Refuse, Acquire, Dispatch, Retry, Return, Record, CancelInSlot, CancelWaiting,
        AbandonRecord
<1>4. NewDay \/ Prune => [Promise!Next]_Promise!vars
    BY DEF NewDay, Prune, Promise!Next
<1>5. Crash \/ (\E o \in Owners : ExpirePrincipal(o)) \/ UNCHANGED vars => UNCHANGED <<day, rows>>
    BY DEF Crash, ExpirePrincipal, vars
<1> QED BY <1>1, <1>2, <1>3, <1>4, <1>5 DEF Next, Step, Interrupt

\* Whatever happens to the calls, the budget sees atomic reservations and one
\* settlement each.
THEOREM Refinement == Spec => ImplementsBudget
<1>1. Init => Promise!Init
    BY SameOperators DEF Init, Promise!Init
<1>2. CallInv /\ [Next]_vars => [Promise!Next]_Promise!vars
    BY StepSimulation
<1> QED BY <1>1, <1>2, CallsCorrect, PTL DEF Spec, ImplementsBudget, Promise!Spec

\* What is executed and neither hidden nor too old is among the live rows of
\* its owner and day, so it amounts to no more than they do.
LEMMA ExecutedAreLive ==
    ASSUME CallInv, WithinLimit(rows)
    PROVE  ExecutedWithinLimit
<1> SUFFICES ASSUME DailyLimit # 0, NEW o \in Owners, NEW d \in Days, d + PruneAge >= day
             PROVE  Amount({c \in Calls : /\ OwnerOf[c] = o /\ usage[c] = d
                                          /\ charges[c] > 0 /\ ~lost[c]}) <= DailyLimit
    BY DEF ExecutedWithinLimit
<1> DEFINE Executing == {c \in Calls : /\ OwnerOf[c] = o /\ usage[c] = d
                                       /\ charges[c] > 0 /\ ~lost[c]}
<1>1. ASSUME NEW c \in Executing PROVE IsLive(rows[c]) /\ rows[c].date = d
    <2>1. ~Aged(c)
        BY DayAssumption DEF Aged, CallInv, CallTypes, TableTypes, Days
    <2>2. IsLive(rows[c])
        BY <2>1 DEF CallInv, Kept
    <2> QED BY <2>2 DEF CallInv, Dated, IsLive
<1>2. Executing \in SUBSET LiveCalls(rows, o, d) /\ LiveCalls(rows, o, d) \in SUBSET Calls
    BY <1>1 DEF LiveCalls
<1>3. Amount(Executing) <= Spent(rows, o, d)
    BY <1>2, AmountMonotone DEF Spent
<1>4. Spent(rows, o, d) <= DailyLimit
    BY DEF WithinLimit
<1>5. Amount(Executing) \in Nat /\ Spent(rows, o, d) \in Nat
    BY <1>2, AmountType DEF Spent
<1> QED BY <1>3, <1>4, <1>5, LimitAssumption

\* What was really executed for an owner on a day stays within the daily limit.
THEOREM ExecutedWithinLimitCorrect == Spec => []ExecutedWithinLimit
<1>1. Spec => []WithinLimit(rows)
    BY Refinement, PromiseCorrect, PTL DEF ImplementsBudget
<1> QED BY <1>1, CallsCorrect, ExecutedAreLive, PTL

\* A step of the calls moves the limiters as acquire() does, or begins anew.
LEMMA LimiterSteps ==
    ASSUME [Next]_vars
    PROVE  [LimitersNext]_limiterVars \/ LimitersInit'
<1>1. ASSUME NEW c \in Calls, Step(c) \/ Interrupt(c) PROVE [LimitersNext]_limiterVars
    BY <1>1 DEF Step, Interrupt, Reserve, Refuse, Acquire, Dispatch, Retry, Return, Settle, Record,
        CancelInSlot, CancelWaiting, AbandonReserve, AbandonSettle, AbandonRecord, LimitersNext
<1>2. ASSUME NEW o \in Owners, ExpirePrincipal(o) PROVE [LimitersNext]_limiterVars
    BY <1>2 DEF ExpirePrincipal, LimitersNext
<1>3. NewDay \/ Prune \/ UNCHANGED vars => UNCHANGED limiterVars
    BY DEF NewDay, Prune, vars
<1>4. Crash => LimitersInit'
    BY DEF Crash, LimitersInit
<1> QED BY <1>1, <1>2, <1>3, <1>4 DEF Next

\* A crash leaves the limiters as a new server makes them.
LEMMA LimitersKeep ==
    ASSUME LimitersInv, [Next]_vars
    PROVE  LimitersInv'
<1>1. CASE [LimitersNext]_limiterVars
    BY <1>1, LimitersInductive
<1>2. CASE LimitersInit'
    BY <1>2, LimitersInitially, PTL
<1> QED BY <1>1, <1>2, LimiterSteps

\* What is proved of the limiters alone holds around billed calls.
LEMMA LimitersCorrect == Spec => []LimitersInv
<1>1. Init => LimitersInv
    BY LimitersInitially DEF Init
<1> QED BY <1>1, LimitersKeep, PTL DEF Spec

\* No permit is lost by a call that fails, is cancelled in a retry or dies.
THEOREM PermitsKept == Spec => []PermitsConserved
<1>1. LimitersInv => PermitsConserved
    BY DEF LimitersInv, PermitInv
<1> QED BY <1>1, LimitersCorrect, PTL

\* Nor does such a call leave anybody waiting for nobody.
THEOREM WaitersKept == Spec => []NobodyDeadlocked
<1>1. LimitersInv => NobodyDeadlocked
    BY NobodyWaitsInACircle DEF LimitersInv
<1> QED BY <1>1, LimitersCorrect, PTL

-----------------------------------------------------------------------------
(* The slot: where a call is, what it has of the limiters and how often it *)
(* was sent.                                                               *)

\* A call is in acquire() while it is in the slot, in the limiters' body while
\* it is sent, and an attempt is charged at most once.
SlotOK(c) ==
    /\ at[c] # "out" <=> phase[c] \in InSlot
    /\ phase[c] \in {"calling", "backoff"} => at[c] = "in"
    /\ phase[c] \in {"idle", "slot"} => attempt[c] = 0
    /\ phase[c] = "backoff" => attempt[c] < MaxAttempts
    /\ charges[c] <= attempt[c]
    /\ phase[c] = "calling" => charges[c] < attempt[c]

SlotTypes ==
    /\ at \in [Calls -> Places]
    /\ phase \in [Calls -> Phases]
    /\ attempt \in [Calls -> 0 .. MaxAttempts]
    /\ charges \in [Calls -> Nat]

SlotInv == SlotTypes /\ \A c \in Calls : SlotOK(c)

\* Nothing that SlotOK says of the call changes.
SameSlot(x) ==
    at'[x] = at[x] /\ phase'[x] = phase[x] /\ attempt'[x] = attempt[x] /\ charges'[x] = charges[x]

\* A step of one call, again.
LEMMA OneSlotKeeps ==
    ASSUME SlotInv, SlotTypes', NEW c \in Calls, SlotOK(c)',
           \A x \in Calls : x # c => SameSlot(x)
    PROVE  SlotInv'
<1>1. ASSUME NEW x \in Calls, x # c PROVE SlotOK(x)'
    BY <1>1 DEF SlotInv, SlotOK, SameSlot
<1> QED BY <1>1 DEF SlotInv

\* Entering and waiting: acquire() is entered with the slot.
LEMMA SlotEntryKeeps ==
    ASSUME SlotInv, NEW c \in Calls, Reserve(c) \/ Acquire(c)
    PROVE  SlotInv'
<1> USE DEF SlotInv, SlotTypes
<1>1. CASE Reserve(c)
    <2>1. /\ phase[c] = "idle" /\ phase' = [phase EXCEPT ![c] = "slot"]
          /\ \E p \in {"provider", "lookup"} : at' = [at EXCEPT ![c] = p]
          /\ UNCHANGED <<attempt, charges>>
        BY <1>1 DEF Reserve, Enter, Goto
    <2>2. SlotTypes'
        BY <2>1 DEF Places, Phases
    <2>3. SlotOK(c)'
        BY <2>1 DEF SlotOK, InSlot
    <2> QED BY <2>1, <2>2, <2>3, OneSlotKeeps DEF SameSlot
<1>2. CASE Acquire(c)
    <2>1. /\ phase[c] = "slot"
          /\ \E p \in {"provider", "principal", "in"} : at' = [at EXCEPT ![c] = p]
          /\ UNCHANGED <<phase, attempt, charges>>
        BY <1>2 DEF Acquire, Lookup, TakeProvider, TakePrincipal, callVars
    <2>2. SlotTypes'
        BY <2>1 DEF Places
    <2>3. SlotOK(c)'
        BY <2>1 DEF SlotOK, InSlot
    <2> QED BY <2>1, <2>2, <2>3, OneSlotKeeps DEF SameSlot
<1> QED BY <1>1, <1>2

\* Attempts are made in the slot, one more each time, up to the limit.
LEMMA SlotSendKeeps ==
    ASSUME SlotInv, NEW c \in Calls, Dispatch(c)
    PROVE  SlotInv'
<1> USE AttemptsAssumption DEF SlotInv, SlotTypes
<1>1. /\ (phase[c] = "slot" /\ at[c] = "in") \/ phase[c] = "backoff"
      /\ phase' = [phase EXCEPT ![c] = "calling"]
      /\ attempt' = [attempt EXCEPT ![c] = @ + 1]
      /\ UNCHANGED <<at, charges>>
    BY DEF Dispatch, Goto, limiterVars
<1>2. attempt[c] < MaxAttempts /\ charges[c] <= attempt[c] /\ at[c] = "in"
    BY <1>1 DEF SlotOK
<1>3. SlotTypes'
    BY <1>1, <1>2 DEF Phases
<1>4. SlotOK(c)'
    BY <1>1, <1>2 DEF SlotOK, InSlot
<1> QED BY <1>1, <1>3, <1>4, OneSlotKeeps DEF SameSlot

\* The answer of an attempt: again, or out of the slot with the permits given back.
LEMMA SlotAnswerKeeps ==
    ASSUME SlotInv, NEW c \in Calls, NEW a \in Answers, Retry(c, a) \/ Return(c, a)
    PROVE  SlotInv'
<1> USE AttemptsAssumption DEF SlotInv, SlotTypes
<1>1. /\ phase[c] = "calling"
      /\ charges' = [charges EXCEPT ![c] = IF a.executed THEN @ + 1 ELSE @]
      /\ attempt' = attempt
      /\ \/ /\ phase' = [phase EXCEPT ![c] = "backoff"] /\ at' = at
            /\ attempt[c] < MaxAttempts
         \/ /\ phase' = [phase EXCEPT ![c] = "settling"]
            /\ at' = [at EXCEPT ![c] = "out"]
    BY DEF Retry, Return, Goto, Executed, WillRetry, Leave, limiterVars
<1>2. at[c] = "in" /\ charges[c] < attempt[c]
    BY <1>1 DEF SlotOK
<1>3. charges'[c] \in Nat /\ charges'[c] <= attempt[c]
    BY <1>1, <1>2
<1>4. SlotTypes'
    BY <1>1, <1>3 DEF Phases, Places
<1>5. SlotOK(c)'
    BY <1>1, <1>2, <1>3 DEF SlotOK, InSlot
<1> QED BY <1>1, <1>4, <1>5, OneSlotKeeps DEF SameSlot

\* A call cancelled in the slot leaves it, an attempt under way may be charged.
LEMMA SlotCancelKeeps ==
    ASSUME SlotInv, NEW c \in Calls, CancelInSlot(c)
    PROVE  SlotInv'
<1> USE AttemptsAssumption DEF SlotInv, SlotTypes
<1>1. /\ phase[c] \in InSlot /\ phase' = [phase EXCEPT ![c] = "cancelled"]
      /\ at' = [at EXCEPT ![c] = "out"] /\ attempt' = attempt
      /\ \/ charges' = charges
         \/ phase[c] = "calling" /\ charges' = [charges EXCEPT ![c] = @ + 1]
    BY DEF CancelInSlot, Withdraw, Leave, Goto
<1>2. charges'[c] \in Nat /\ charges'[c] <= attempt[c]
    BY <1>1 DEF SlotOK
<1>3. SlotTypes'
    BY <1>1 DEF Phases, Places
<1>4. SlotOK(c)'
    BY <1>1, <1>2 DEF SlotOK, InSlot
<1> QED BY <1>1, <1>3, <1>4, OneSlotKeeps DEF SameSlot

\* Outside the slot a call moves only on.
LEMMA SlotLeftKeeps ==
    ASSUME SlotInv, NEW c \in Calls,
           Refuse(c) \/ Settle(c) \/ Record(c) \/ CancelWaiting(c)
             \/ AbandonReserve(c) \/ AbandonSettle(c) \/ AbandonRecord(c)
    PROVE  SlotInv'
<1> USE DEF SlotInv, SlotTypes
<1>1. /\ phase[c] \in {"idle", "settling", "recording"}
      /\ \E p \in {"refused", "recording", "failed", "done", "cancelled"} :
            phase' = [phase EXCEPT ![c] = p]
      /\ UNCHANGED <<at, attempt, charges>>
    BY DEF Refuse, Settle, Record, CancelWaiting, AbandonReserve, AbandonSettle, AbandonRecord,
           Goto, AfterSettle, limiterVars
<1>2. SlotTypes'
    BY <1>1 DEF Phases
<1>3. SlotOK(c)'
    BY <1>1 DEF SlotOK, InSlot
<1> QED BY <1>1, <1>2, <1>3, OneSlotKeeps DEF SameSlot

\* A crash ends the calls and empties the limiters.
LEMMA SlotCrashKeeps ==
    ASSUME SlotInv, Crash
    PROVE  SlotInv'
<1> USE AttemptsAssumption DEF SlotInv, SlotTypes
<1>1. PICK S \in SUBSET {c \in Calls : phase[c] = "calling"} :
          charges' = [c \in Calls |-> IF c \in S THEN charges[c] + 1 ELSE charges[c]]
    BY DEF Crash
<1>2. /\ phase' = [c \in Calls |-> IF phase[c] \in Ended \cup {"idle"} THEN phase[c] ELSE "crashed"]
      /\ at' = [c \in Calls |-> "out"] /\ attempt' = attempt
    BY DEF Crash
<1>3. SlotTypes'
    BY <1>1, <1>2 DEF Phases, Places
<1>4. ASSUME NEW c \in Calls PROVE SlotOK(c)'
    <2>1. charges'[c] \in Nat /\ charges'[c] <= attempt[c]
        BY <1>1 DEF SlotOK
    <2>2. at'[c] = "out" /\ attempt'[c] = attempt[c] /\ phase'[c] \in Ended \cup {"idle"}
        BY <1>2 DEF Ended
    <2>3. phase'[c] = "idle" => phase[c] = "idle"
        BY <1>2
    <2> QED BY <2>1, <2>2, <2>3 DEF SlotOK, InSlot, Ended
<1> QED BY <1>3, <1>4

\* A call is in the slot exactly while it is in acquire().
LEMMA SlotCorrect == Spec => []SlotInv
<1>1. Init => SlotInv
    BY AttemptsAssumption
       DEF Init, LimitersInit, SlotInv, SlotTypes, SlotOK, Places, Phases, InSlot
<1>2. SlotInv /\ [Next]_vars => SlotInv'
    <2> SUFFICES ASSUME SlotInv, [Next]_vars PROVE SlotInv'
        OBVIOUS
    <2>1. ASSUME NEW c \in Calls, Step(c) PROVE SlotInv'
        BY <2>1, SlotEntryKeeps, SlotSendKeeps, SlotAnswerKeeps, SlotLeftKeeps DEF Step
    <2>2. ASSUME NEW c \in Calls, Interrupt(c) PROVE SlotInv'
        BY <2>2, SlotCancelKeeps, SlotLeftKeeps DEF Interrupt
    <2>3. ASSUME (\E o \in Owners : ExpirePrincipal(o)) \/ NewDay \/ Prune \/ UNCHANGED vars
          PROVE  SlotInv'
        <3>1. UNCHANGED <<at, phase, attempt, charges>>
            BY <2>3 DEF ExpirePrincipal, Expire, NewDay, Prune, vars, callVars, limiterVars
        <3> QED BY <3>1 DEF SlotInv, SlotTypes, SlotOK
    <2> QED BY <2>1, <2>2, <2>3, SlotCrashKeeps DEF Next
<1> QED BY <1>1, <1>2, PTL DEF Spec

\* Nobody holds a permit, or waits for one, outside the slot.
THEOREM PermitsOnlyInSlotCorrect == Spec => []PermitsOnlyInSlot
<1>1. SlotInv => PermitsOnlyInSlot
    BY DEF SlotInv, SlotOK, PermitsOnlyInSlot
<1> QED BY <1>1, SlotCorrect, PTL

\* The calls keep their types: no more attempts, and none charged more often,
\* than RetryPolicy allows.
THEOREM CallsTypeCorrect == Spec => []CallsTypeOK
<1>1. ASSUME CallInv, LimitersInv, SlotInv PROVE CallsTypeOK
    <2>1. charges \in [Calls -> 0 .. MaxAttempts]
        BY <1>1, AttemptsAssumption DEF SlotInv, SlotTypes, SlotOK
    <2>2. LimitersTypeOK
        BY <1>1, LimitersTyped
    <2> QED BY <1>1, <2>1, <2>2 DEF CallInv, CallTypes, TableTypes, SlotInv, SlotTypes, CallsTypeOK
<1>2. CallInv /\ LimitersInv /\ SlotInv => CallsTypeOK
    BY <1>1
<1> QED BY <1>2, CallsCorrect, LimitersCorrect, SlotCorrect, PTL
=============================================================================
