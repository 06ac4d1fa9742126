--------------------------- MODULE ResearchTasksProofs ---------------------------
(***************************************************************************)
(* Theorems about ResearchTasks, for every number of runs, handlers and    *)
(* crashes, and every size of batch, budget and limit.                     *)
(***************************************************************************)
EXTENDS ResearchTasks, FiniteSetTheorems, TLAPS

\* Every step of a handler keeps the types.
LEMMA HandleTyped ==
  ASSUME TypeOK, NEW h \in Handlers, Handle(h)
  PROVE  TypeOK'
<1> USE RunsAssumption DEF TypeOK, Payments, Statuses, Steps, ledger, tables, clock, runner, history
<1>1. ASSUME NEW t \in Tasks, Buy(h, t) PROVE TypeOK'
  BY <1>1 DEF Buy, Start
<1>2. ASSUME NEW t \in Tasks, BuyAgain(h, t) PROVE TypeOK'
  BY <1>2 DEF BuyAgain, Start
<1>3. ASSUME NEW t \in Tasks, StopRead(h, t) PROVE TypeOK'
  BY <1>3 DEF StopRead, Start
<1>4. CASE Refuse(h)
  BY <1>4 DEF Refuse, Leave
<1>5. CASE Accept(h)
  BY <1>5 DEF Accept, Goto
<1>6. CASE Create(h)
  BY <1>6 DEF Create, Goto, FreshStatus
<1>7. CASE SettlePaid(h)
  BY <1>7 DEF SettlePaid, Goto
<1>8. CASE SettleUnpaid(h)
  BY <1>8 DEF SettleUnpaid, Leave
<1>9. CASE Deliver(h)
  BY <1>9 DEF Deliver, Goto
<1>10. CASE ActivateRead(h)
  BY <1>10 DEF ActivateRead, Goto
<1>11. CASE AlreadyActive(h)
  BY <1>11 DEF AlreadyActive, Leave
<1>12. CASE ActivateWrite(h)
  <2>1. status' \in [Tasks -> Statuses] /\ next' \in [Tasks -> {"none", "later", "due"}]
    BY <1>12 DEF ActivateWrite
  <2> QED BY <1>12, <2>1 DEF ActivateWrite, Leave
<1>13. CASE StopWrite(h)
  BY <1>13 DEF StopWrite, Leave
<1> QED BY <1>1, <1>2, <1>3, <1>4, <1>5, <1>6, <1>7, <1>8, <1>9, <1>10, <1>11, <1>12, <1>13 DEF Handle

\* Every step of the runner in a pass keeps the types.
LEMMA PassTyped ==
  ASSUME TypeOK, Pass
  PROVE  TypeOK'
<1> USE RunsAssumption DEF TypeOK, Statuses, Modes, Row, Meta, ledger, tables, clock, http, history
<1>1. CASE PassDone
  BY <1>1 DEF PassDone
<1>2. CASE Answered
  BY <1>2 DEF Answered
<1>3. CASE Unanswered
  <2>1. cur \in Tasks
    BY <1>3 DEF Unanswered
  <2>2. Seq(cur) \in Nat /\ Attempts(cur) \in Nat
    BY <2>1 DEF Seq, Attempts
  <2>3. meta' \in [Tasks -> Meta]
    BY <1>3, <2>1, <2>2 DEF Unanswered
  <2>4. mode' \in {"record", "retry"}
    BY <1>3 DEF Unanswered
  <2> QED BY <1>3, <2>1, <2>3, <2>4 DEF Unanswered
<1>4. CASE Retry
  BY <1>4 DEF Retry, Later, CheckDone
<1>5. CASE Record
  <2>1. cur \in Tasks /\ Seq(cur) \in Nat
    BY <1>5 DEF Record, Seq
  <2>2. recorded' \in [Tasks -> SUBSET Nat]
    BY <1>5, <2>1 DEF Record, RecordCheck
  <2> QED BY <1>5, <2>1, <2>2 DEF Record
<1>6. CASE Count
  BY <1>6 DEF Count
<1>7. CASE Note
  <2>1. cur \in Tasks
    BY <1>7 DEF Note
  <2>2. Seq(cur) \in Nat /\ FailsNow(cur) \in Nat
    BY <2>1 DEF Seq, FailsNow
  <2>3. meta' \in [Tasks -> Meta]
    BY <1>7, <2>1, <2>2 DEF Note
  <2> QED BY <1>7, <2>1, <2>3 DEF Note
<1>8. CASE Complete
  BY <1>8 DEF Complete, Finish, Close, CheckDone
<1>9. CASE StopFailing
  BY <1>9 DEF StopFailing, Finish, Close, CheckDone
<1>10. CASE Advance
  BY <1>10 DEF Advance, Later, Close, CheckDone
<1>11. ASSUME NEW t \in Tasks, SkipOver(t) PROVE TypeOK'
  <2>1. status' \in [Tasks -> Statuses]
    BY <1>11 DEF SkipOver, CloseOver, Finish
  <2> QED BY <1>11, <2>1 DEF SkipOver, CloseOver, Finish
<1>12. ASSUME NEW t \in Tasks, Call(t) PROVE TypeOK'
  BY <1>12 DEF Call
<1>13. ASSUME NEW t \in Tasks, SweepOver(t) PROVE TypeOK'
  <2>1. status' \in [Tasks -> Statuses]
    BY <1>13 DEF SweepOver, CloseOver, Finish
  <2> QED BY <1>13, <2>1 DEF SweepOver, CloseOver, Finish
<1>14. ASSUME NEW t \in Tasks, SweepKeep(t) PROVE TypeOK'
  BY <1>14 DEF SweepKeep
<1> QED BY <1>1, <1>2, <1>3, <1>4, <1>5, <1>6, <1>7, <1>8, <1>9, <1>10, <1>11, <1>12, <1>13, <1>14 DEF Pass

\* A pass that stops leaves no row behind.
LEMMA NoRowTyped == StopPass => row' \in [Tasks -> Row]
<1>1. NewRow \in Row
  BY DEF NewRow, Row, NewMeta, Meta
<1> QED BY <1>1 DEF StopPass

\* Every step keeps the types.
LEMMA RunTypeStep ==
  ASSUME TypeOK, [Next]_vars
  PROVE  TypeOK'
<1> USE RunsAssumption DEF TypeOK, Payments, Statuses, Steps, Modes, Row, Meta, NewRow, NewMeta,
                           ledger, tables, clock, http, runner, history
<1>1. ASSUME NEW S \in SUBSET Tasks, ReadRows(S) PROVE batch' \in SUBSET Tasks /\ row' \in [Tasks -> Row]
  BY <1>1 DEF ReadRows, RowOf
<1>2. CASE TakeBatch
  <2>1. PICK S \in SUBSET Due : ReadRows(S)
    BY <1>2 DEF TakeBatch
  <2>2. S \in SUBSET Tasks
    BY DEF Due, Running
  <2> QED BY <1>1, <1>2, <2>1, <2>2 DEF TakeBatch
<1>3. CASE SweepStart
  <2>1. Running \in SUBSET Tasks
    BY DEF Running
  <2> QED BY <1>1, <1>3, <2>1 DEF SweepStart
<1>4. ASSUME NEW t \in Tasks, Finalize(t) PROVE TypeOK'
  BY <1>4 DEF Finalize
<1>5. ASSUME NEW t \in Tasks, DueNow(t) PROVE TypeOK'
  BY <1>5 DEF DueNow
<1>6. ASSUME NEW t \in Tasks, WindowOver(t) PROVE TypeOK'
  BY <1>6 DEF WindowOver
<1>7. CASE DayPasses
  BY <1>7 DEF DayPasses
<1>8. ASSUME NEW h \in Handlers, Abort(h) PROVE TypeOK'
  BY <1>8 DEF Abort, Leave
<1>9. CASE AbortPass
  <2>1. row' \in [Tasks -> Row]
    BY <1>9, NoRowTyped DEF AbortPass
  <2>2. mode' = "idle" /\ batch' \in SUBSET Tasks /\ cur' = None /\ ok' = FALSE
    BY <1>9 DEF AbortPass, StopPass
  <2>3. crashes' \in 0..MaxCrashes
    BY <1>9 DEF AbortPass
  <2> QED BY <1>9, <2>1, <2>2, <2>3 DEF AbortPass
<1>10. CASE Crash
  <2>1. row' \in [Tasks -> Row]
    BY <1>10, NoRowTyped DEF Crash
  <2>2. mode' = "idle" /\ batch' \in SUBSET Tasks /\ cur' = None /\ ok' = FALSE
    BY <1>10 DEF Crash, StopPass
  <2>3. crashes' \in 0..MaxCrashes
    BY <1>10 DEF Crash
  <2> QED BY <1>10, <2>1, <2>2, <2>3 DEF Crash
<1>11. CASE UNCHANGED vars
  BY <1>11 DEF vars
<1> QED BY <1>2, <1>3, <1>4, <1>5, <1>6, <1>7, <1>8, <1>9, <1>10, <1>11, HandleTyped, PassTyped DEF Next, Outside

-------------------------------------------------------------------------------
(* What a step of each kind leaves alone.                                      *)

\* Handlers touch the ledger and two columns of the run's row.
LEMMA HandleFrame ==
  ASSUME NEW h \in Handlers, Handle(h)
  PROVE  UNCHANGED <<done, meta, recorded, clock, runner, history>>
BY DEF Handle, Buy, BuyAgain, StopRead, Refuse, Accept, Create, SettlePaid, SettleUnpaid, Deliver,
   ActivateRead, AlreadyActive, ActivateWrite, StopWrite, tables

\* The runner touches neither the ledger nor a handler, and it only ends runs it
\* has read.
LEMMA PassFrame ==
  ASSUME TypeOK, Pass
  PROVE  /\ UNCHANGED <<ledger, http, over, crashes>>
         /\ \A t \in Tasks : status'[t] # status[t] =>
              status'[t] \in Ended /\ (t \in batch \/ t = cur)
<1> USE DEF TypeOK, ledger, tables, clock, http, history, Ended
<1>1. CASE PassDone
  BY <1>1 DEF PassDone
<1>2. CASE Answered
  BY <1>2 DEF Answered
<1>3. CASE Unanswered
  BY <1>3 DEF Unanswered
<1>4. CASE Retry
  BY <1>4 DEF Retry
<1>5. CASE Record
  BY <1>5 DEF Record
<1>6. CASE Count
  BY <1>6 DEF Count
<1>7. CASE Note
  BY <1>7 DEF Note
<1>8. CASE Complete
  BY <1>8 DEF Complete, Finish, Close
<1>9. CASE StopFailing
  BY <1>9 DEF StopFailing, Finish, Close
<1>10. CASE Advance
  BY <1>10 DEF Advance, Close
<1>11. ASSUME NEW t \in Tasks, SkipOver(t)
       PROVE  /\ UNCHANGED <<ledger, http, over, crashes>>
              /\ \A u \in Tasks : status'[u] # status[u] => status'[u] \in Ended /\ u \in batch
  BY <1>11 DEF SkipOver, CloseOver, Finish
<1>12. ASSUME NEW t \in Tasks, Call(t)
       PROVE  UNCHANGED <<ledger, http, over, crashes, status>>
  BY <1>12 DEF Call
<1>13. ASSUME NEW t \in Tasks, SweepOver(t)
       PROVE  /\ UNCHANGED <<ledger, http, over, crashes>>
              /\ \A u \in Tasks : status'[u] # status[u] => status'[u] \in Ended /\ u \in batch
  BY <1>13 DEF SweepOver, CloseOver, Finish
<1>14. ASSUME NEW t \in Tasks, SweepKeep(t)
       PROVE  UNCHANGED <<ledger, http, over, crashes, status>>
  BY <1>14 DEF SweepKeep
<1> QED BY <1>1, <1>2, <1>3, <1>4, <1>5, <1>6, <1>7, <1>8, <1>9, <1>10, <1>11, <1>12, <1>13, <1>14 DEF Pass

\* What the runner may still look at in the next state it has read, or looks at
\* already.
LEMMA PassReads ==
  ASSUME TypeOK, Pass
  PROVE  batch' \subseteq batch /\ (cur' # None => cur' = cur \/ cur' \in batch)
BY DEF Pass, PassDone, Answered, Unanswered, Retry, Record, Count, Note, Complete, StopFailing, Advance,
   SkipOver, Call, SweepOver, SweepKeep, CheckDone, Close

-------------------------------------------------------------------------------
(* A run is paid for before it starts.                                         *)

Fresh == {"none", "awaiting_payment"}
Selling(h) == pc[h] \in {"count", "create", "settle"}

\* One handler sells a run and its payment is pending; whoever delivers or starts
\* it stands on a settled one, and whoever stops it, or is in the runner's hands,
\* on a run that has started.
Paying ==
  /\ \A h \in Handlers : Selling(h) /\ role[h] = "sale" =>
       /\ payment[at[h]] = "pending"
       /\ \A g \in Handlers : Selling(g) /\ at[g] = at[h] => g = h
  /\ \A h \in Handlers : Selling(h) => role[h] \in {"sale", "retry"}
  /\ \A h \in Handlers : pc[h] = "settle" => role[h] = "sale"
  /\ \A h \in Handlers :
       (Selling(h) /\ role[h] = "retry") \/ pc[h] \in {"deliver", "activate", "write"}
         => payment[at[h]] = "settled"
  /\ \A h \in Handlers : pc[h] \in {"settle", "deliver", "activate", "write"} => status[at[h]] # "none"
  /\ \A h \in Handlers : pc[h] = "stop" => status[at[h]] \notin Fresh
  /\ \A t \in Tasks : t \in batch \/ t = cur => status[t] \notin Fresh
  /\ StartedIsPaid

\* Every step of a handler keeps runs paid.
LEMMA HandlePaying ==
  ASSUME TypeOK, Paying, NEW h \in Handlers, Handle(h)
  PROVE  Paying'
<1> USE RunsAssumption DEF TypeOK, Paying, Selling, Fresh, StartedIsPaid, ledger, tables, runner
<1>1. ASSUME NEW t \in Tasks, Buy(h, t) PROVE Paying'
  BY <1>1 DEF Buy, Start
<1>2. ASSUME NEW t \in Tasks, BuyAgain(h, t) PROVE Paying'
  BY <1>2 DEF BuyAgain, Start
<1>3. ASSUME NEW t \in Tasks, StopRead(h, t) PROVE Paying'
  BY <1>3 DEF StopRead, Start
<1>4. CASE Refuse(h)
  BY <1>4 DEF Refuse, OverLimit, Leave
<1>5. CASE Accept(h)
  BY <1>5 DEF Accept, Goto
<1>6. CASE Create(h)
  BY <1>6 DEF Create, Goto, FreshStatus
<1>7. CASE SettlePaid(h)
  BY <1>7 DEF SettlePaid, Goto
<1>8. CASE SettleUnpaid(h)
  BY <1>8 DEF SettleUnpaid, Leave
<1>9. CASE Deliver(h)
  BY <1>9 DEF Deliver, Goto
<1>10. CASE ActivateRead(h)
  BY <1>10 DEF ActivateRead, Goto
<1>11. CASE AlreadyActive(h)
  BY <1>11 DEF AlreadyActive, Leave
<1>12. CASE ActivateWrite(h)
  BY <1>12 DEF ActivateWrite, Leave
<1>13. CASE StopWrite(h)
  BY <1>13 DEF StopWrite, Leave
<1> QED BY <1>1, <1>2, <1>3, <1>4, <1>5, <1>6, <1>7, <1>8, <1>9, <1>10, <1>11, <1>12, <1>13 DEF Handle

\* Every step keeps runs paid.
LEMMA PayingStep ==
  ASSUME TypeOK, Paying, [Next]_vars
  PROVE  Paying'
<1> USE RunsAssumption DEF TypeOK, Paying, Selling, Fresh, StartedIsPaid, ledger, tables, http, runner
<1>1. CASE TakeBatch
  BY <1>1 DEF TakeBatch, ReadRows, Due, Running
<1>2. CASE SweepStart
  BY <1>2 DEF SweepStart, ReadRows, Running
<1>3. CASE Pass
  BY <1>3, PassFrame, PassReads DEF Ended
<1>4. ASSUME NEW t \in Tasks, Finalize(t) PROVE Paying'
  BY <1>4 DEF Finalize
<1>5. ASSUME NEW t \in Tasks, DueNow(t) PROVE Paying'
  BY <1>5 DEF DueNow
<1>6. ASSUME NEW t \in Tasks, WindowOver(t) PROVE Paying'
  BY <1>6 DEF WindowOver
<1>7. CASE DayPasses
  BY <1>7 DEF DayPasses
<1>8. ASSUME NEW h \in Handlers, Abort(h) PROVE Paying'
  BY <1>8 DEF Abort, Leave
<1>9. CASE AbortPass
  BY <1>9 DEF AbortPass, StopPass
<1>10. CASE Crash
  BY <1>10 DEF Crash, StopPass
<1>11. CASE UNCHANGED vars
  BY <1>11 DEF vars
<1> QED BY <1>1, <1>2, <1>3, <1>4, <1>5, <1>6, <1>7, <1>8, <1>9, <1>10, <1>11, HandlePaying DEF Next, Outside

-------------------------------------------------------------------------------
(* What the batch read is what the tables hold.                                *)

InHand == {"answer", "retry", "record", "count"}

\* The runner alone counts checks, so the rows it read for the runs it has still to
\* check are current, and the check at hand is the next one: counted after it is
\* recorded, and noted after it is counted.
Current ==
  /\ cur \notin batch
  /\ \A t \in batch : row[t] = RowOf(t)
  /\ mode = "answer" => row[cur] = RowOf(cur)
  /\ mode \in InHand => row[cur].done = done[cur]
  /\ mode \in {"record", "count"} => row[cur].meta.fails = meta[cur].fails
  /\ mode = "count" => Seq(cur) \in recorded[cur]
  /\ mode \in {"note", "close"} => done[cur] = Seq(cur)
  /\ mode = "note" => row[cur].meta.fails = meta[cur].fails
  /\ mode = "close" => meta[cur].fails = FailsNow(cur)
  /\ DoneIsRecorded

\* Counting one check more than are recorded without a gap.
LEMMA OneMoreRecorded ==
  ASSUME NEW n \in Nat, NEW S, 1..n \subseteq S, n + 1 \in S
  PROVE  1..(n + 1) \subseteq S
<1>1. \A i \in 1..(n + 1) : i \in 1..n \/ i = n + 1
  OBVIOUS
<1> QED BY <1>1

\* Every step of the runner in a pass keeps what it read current.
LEMMA PassCurrent ==
  ASSUME TypeOK, Current, Pass
  PROVE  Current'
<1> USE RunsAssumption DEF TypeOK, Current, InHand, RowOf, Seq, FailsNow, DoneIsRecorded, Row, Meta,
                           ledger, tables, clock, http, history
<1>1. CASE PassDone
  BY <1>1 DEF PassDone
<1>2. CASE Answered
  BY <1>2 DEF Answered
<1>3. CASE Unanswered
  BY <1>3 DEF Unanswered, Attempts
<1>4. CASE Retry
  BY <1>4 DEF Retry, Later, CheckDone
<1>5. CASE Record
  BY <1>5 DEF Record, RecordCheck
<1>6. CASE Count
  <2>1. cur \in Tasks /\ Seq(cur) = done[cur] + 1 /\ Seq(cur) \in recorded[cur]
    BY <1>6 DEF Count
  <2>2. DoneIsRecorded'
    <3>1. ASSUME NEW t \in Tasks PROVE 1..done'[t] \subseteq recorded[t]
      <4>1. done[t] \in Nat /\ 1..done[t] \subseteq recorded[t]
        OBVIOUS
      <4>2. CASE t = cur
        <5>1. done'[t] = done[t] + 1 /\ done[t] + 1 \in recorded[t]
          BY <1>6, <2>1, <4>2 DEF Count
        <5> HIDE DEF TypeOK, Current, Row, Meta
        <5>2. 1..(done[t] + 1) \subseteq recorded[t]
          BY <4>1, <5>1, OneMoreRecorded
        <5> QED BY <5>1, <5>2
      <4>3. CASE t # cur
        BY <1>6, <4>1, <4>3 DEF Count
      <4> QED BY <4>2, <4>3
    <3> QED BY <1>6, <3>1 DEF Count
  <2>3. \A t \in batch : RowOf(t)' = RowOf(t)
    BY <1>6, <2>1 DEF Count
  <2> HIDE DEF DoneIsRecorded, RowOf
  <2> QED BY <1>6, <2>1, <2>2, <2>3 DEF Count
<1>7. CASE Note
  BY <1>7 DEF Note
<1>8. CASE Complete
  BY <1>8 DEF Complete, Finish, Close, CheckDone
<1>9. CASE StopFailing
  BY <1>9 DEF StopFailing, Finish, Close, CheckDone
<1>10. CASE Advance
  BY <1>10 DEF Advance, Later, Close, CheckDone
<1>11. ASSUME NEW t \in Tasks, SkipOver(t) PROVE Current'
  BY <1>11 DEF SkipOver, CloseOver, Finish
<1>12. ASSUME NEW t \in Tasks, Call(t) PROVE Current'
  <2>1. row[t] = RowOf(t)
    BY <1>12 DEF Call
  <2>2. row[t].done = done[t]
    BY <2>1
  <2>3. DoneIsRecorded'
    BY <1>12 DEF Call
  <2>4. \A u \in Tasks : RowOf(u)' = RowOf(u)
    BY <1>12 DEF Call
  <2> HIDE DEF DoneIsRecorded, RowOf
  <2> QED BY <1>12, <2>1, <2>2, <2>3, <2>4 DEF Call
<1>13. ASSUME NEW t \in Tasks, SweepOver(t) PROVE Current'
  BY <1>13 DEF SweepOver, CloseOver, Finish
<1>14. ASSUME NEW t \in Tasks, SweepKeep(t) PROVE Current'
  BY <1>14 DEF SweepKeep
<1> QED BY <1>1, <1>2, <1>3, <1>4, <1>5, <1>6, <1>7, <1>8, <1>9, <1>10, <1>11, <1>12, <1>13, <1>14 DEF Pass

\* Every step keeps what the runner read current.
LEMMA CurrentStep ==
  ASSUME TypeOK, Current, [Next]_vars
  PROVE  Current'
<1> USE DEF TypeOK, Current, InHand, RowOf, Seq, FailsNow, DoneIsRecorded,
            ledger, tables, clock, http, runner, history
<1>1. CASE TakeBatch
  BY <1>1, RunsAssumption DEF TakeBatch, ReadRows, Due, Running
<1>2. CASE SweepStart
  BY <1>2, RunsAssumption DEF SweepStart, ReadRows, Running
<1>3. ASSUME NEW t \in Tasks, Finalize(t) PROVE Current'
  BY <1>3 DEF Finalize
<1>4. ASSUME NEW t \in Tasks, DueNow(t) PROVE Current'
  BY <1>4 DEF DueNow
<1>5. ASSUME NEW t \in Tasks, WindowOver(t) PROVE Current'
  BY <1>5 DEF WindowOver
<1>6. CASE DayPasses
  BY <1>6 DEF DayPasses
<1>7. ASSUME NEW h \in Handlers, Abort(h) PROVE Current'
  BY <1>7 DEF Abort
<1>8. CASE AbortPass
  BY <1>8 DEF AbortPass, StopPass
<1>9. CASE Crash
  BY <1>9 DEF Crash, StopPass
<1>10. CASE UNCHANGED vars
  BY <1>10 DEF vars
<1>11. ASSUME NEW h \in Handlers, Handle(h) PROVE Current'
  BY <1>11, HandleFrame
<1> QED BY <1>1, <1>2, <1>3, <1>4, <1>5, <1>6, <1>7, <1>8, <1>9, <1>10, <1>11, PassCurrent DEF Next, Outside

-------------------------------------------------------------------------------
(* Calls of the model, checks past the end, and the daily budget.              *)

Least(m, n) == IF m < n THEN m ELSE n

\* The attempts the tables know of at the check that is next.
Spent(t) == IF meta[t].seq = done[t] + 1 THEN meta[t].attempts ELSE 0

\* The calls made for it: one more while its answer is not accounted for.
CallsAhead(t) ==
  IF t = cur /\ mode \in {"note", "close"} THEN 0
  ELSE Least(Spent(t), MaxAttempts - 1)
         + (IF t = cur /\ mode \in {"answer", "record", "count"} THEN 1 ELSE 0)

CallsCounted == \A t \in Tasks : called[t] <= MaxAttempts * done[t] + CallsAhead(t) + crashes

\* The failures in a row that a run past its last check may have; one more for the
\* check that is counted and not closed.
FailsAhead(t) ==
  IF t = cur /\ mode \in {"note", "close"} THEN Least(row[t].meta.fails, MaxFails - 1) + 1
  ELSE Least(meta[t].fails, MaxFails - 1)

\* A run that goes on is as far past its last paid check as it failed in a row, or
\* lost the end of a check to a crash.
ExtraCounted ==
  /\ \A t \in Tasks : status[t] \in Fresh => done[t] = 0
  /\ \A t \in Tasks : status[t] = "running" \/ t \in batch \/ t = cur =>
       done[t] < Total + FailsAhead(t) + MaxFails * crashes
  /\ ExtraChecksAreBounded

\* The runs a batch has still to check were let through by the budget.
BudgetCounted ==
  /\ mode # "sweep" => today + Cardinality(batch) + (IF mode \in {"answer", "record"} THEN 1 ELSE 0)
                          < DailyBudget + RunBatch
  /\ BudgetNearlyKept

\* Until a crash, whoever delivered a run starts it.
StartAtHand == crashes = 0 => \A t \in Tasks :
  delivered[t] => \/ status[t] \notin Fresh
                  \/ \E h \in Handlers : at[h] = t /\ pc[h] \in {"activate", "write"}

\* What is used of products.
LEMMA Product ==
  ASSUME NEW m \in Nat, NEW n \in Nat
  PROVE  m * n \in Nat /\ m * (n + 1) = m * n + m
OBVIOUS

\* The smaller of two numbers is one of them.
LEMMA LeastTyped ==
  ASSUME NEW m \in Nat, NEW n \in Nat
  PROVE  Least(m, n) \in Nat /\ Least(m, n) <= m /\ Least(m, n) <= n
BY DEF Least

\* The attempts at hand are counted in whole numbers, below the limit.
LEMMA SpentTyped ==
  ASSUME TypeOK, NEW t \in Tasks
  PROVE  /\ Spent(t) \in Nat
         /\ Least(Spent(t), MaxAttempts - 1) \in 0..(MaxAttempts - 1)
         /\ CallsAhead(t) \in 0..MaxAttempts
<1>1. Spent(t) \in Nat
  BY DEF Spent, TypeOK, Meta
<1>2. Least(Spent(t), MaxAttempts - 1) \in 0..(MaxAttempts - 1)
  BY <1>1, LeastTyped, RunsAssumption
<1> QED BY <1>1, <1>2, RunsAssumption DEF CallsAhead

\* The same in the next state.
LEMMA SpentTypedNext ==
  ASSUME TypeOK', NEW t \in Tasks
  PROVE  /\ Least(Spent(t), MaxAttempts - 1)' \in 0..(MaxAttempts - 1)
         /\ CallsAhead(t)' \in 0..MaxAttempts
<1>1. Spent(t)' \in Nat
  BY DEF Spent, TypeOK, Meta
<1>2. Least(Spent(t), MaxAttempts - 1)' \in 0..(MaxAttempts - 1)
  BY <1>1, LeastTyped, RunsAssumption
<1> QED BY <1>1, <1>2, RunsAssumption DEF CallsAhead

\* A check asks the model once, and its end makes up for all its attempts.
LEMMA PassCalls ==
  ASSUME TypeOK, TypeOK', Current, CallsCounted, Pass
  PROVE  CallsCounted'
<1> USE RunsAssumption DEF tables
<1> DEFINE Kept == UNCHANGED <<called, done>> /\ \A t \in Tasks : CallsAhead(t) <= CallsAhead(t)'
<1>1. UNCHANGED crashes /\ crashes \in Nat
  BY PassFrame DEF TypeOK
<1>2. \A t \in Tasks : done[t] \in Nat /\ called[t] \in Nat
  BY DEF TypeOK
<1>3. \A t \in Tasks : /\ MaxAttempts * done[t] \in Nat
                        /\ MaxAttempts * (done[t] + 1) = MaxAttempts * done[t] + MaxAttempts
  BY <1>2, Product
<1>4. \A t \in Tasks : /\ Spent(t) \in Nat
                        /\ Least(Spent(t), MaxAttempts - 1) \in 0..(MaxAttempts - 1)
                        /\ CallsAhead(t) \in 0..MaxAttempts
                        /\ CallsAhead(t)' \in 0..MaxAttempts
                        /\ Least(Spent(t), MaxAttempts - 1)' \in 0..(MaxAttempts - 1)
  BY SpentTyped, SpentTypedNext
<1>5. Kept => CallsCounted'
  BY <1>1, <1>2, <1>3, <1>4 DEF CallsCounted
<1>6. CASE PassDone
  BY <1>4, <1>6, <1>5 DEF PassDone, CallsAhead, Spent, history
<1>7. CASE Answered
  BY <1>4, <1>7, <1>5 DEF Answered, CallsAhead, Spent, history
<1>8. CASE Unanswered
  <2>1. cur \in Tasks /\ mode = "answer"
    BY <1>8 DEF Unanswered, TypeOK
  <2>2. Attempts(cur) = Spent(cur) + 1
    BY <1>8, <2>1 DEF Unanswered, Attempts, Spent, Current, RowOf, Seq
  <2>3. Spent(cur)' = Attempts(cur) /\ \A t \in Tasks \ {cur} : Spent(t)' = Spent(t)
    <3>1. Seq(cur) = done[cur] + 1
      BY <2>1 DEF Current, InHand, Seq
    <3>2. /\ meta'[cur] = [seq |-> Seq(cur), attempts |-> Attempts(cur), fails |-> meta[cur].fails]
          /\ \A t \in Tasks \ {cur} : meta'[t] = meta[t]
      BY <1>8, <2>1 DEF Unanswered, TypeOK
    <3>3. UNCHANGED <<done, cur>>
      BY <1>8 DEF Unanswered
    <3> QED BY <3>1, <3>2, <3>3 DEF Spent
  <2>4. CallsAhead(cur) <= CallsAhead(cur)'
    BY <1>4, <1>8, <2>1, <2>2, <2>3 DEF Unanswered, CallsAhead, Least
  <2> QED BY <1>4, <1>5, <1>8, <2>1, <2>3, <2>4 DEF Unanswered, CallsAhead, history
<1>9. CASE Retry
  BY <1>4, <1>9, <1>5 DEF Retry, CheckDone, CallsAhead, Spent, history, TypeOK
<1>10. CASE Record
  BY <1>4, <1>10, <1>5 DEF Record, CallsAhead, Spent, history
<1>11. CASE Count
  <2>1. cur \in Tasks /\ mode = "count" /\ mode' = "note" /\ UNCHANGED <<cur, called, meta>>
    BY <1>11 DEF Count, TypeOK, history
  <2>2. done' = [done EXCEPT ![cur] = done[cur] + 1]
    BY <1>11 DEF Count
  <2>3. called[cur] <= MaxAttempts * (done[cur] + 1) + crashes
    BY <1>1, <1>2, <1>3, <1>4, <2>1 DEF CallsCounted
  <2>4. ASSUME NEW t \in Tasks \ {cur} PROVE CallsAhead(t)' = CallsAhead(t) /\ done'[t] = done[t]
    BY <2>1, <2>2, <2>4 DEF CallsAhead, Spent, TypeOK
  <2>5. CallsAhead(cur)' = 0 /\ done'[cur] = done[cur] + 1
    BY <2>1, <2>2 DEF CallsAhead, TypeOK
  <2> QED BY <1>1, <1>2, <1>3, <2>1, <2>3, <2>4, <2>5 DEF CallsCounted
<1>12. CASE Note
  BY <1>4, <1>5, <1>12 DEF Note, CallsAhead, Spent, history, TypeOK
<1>13. CASE Complete
  BY <1>4, <1>5, <1>13 DEF Complete, Close, CheckDone, CallsAhead, Spent, history, TypeOK
<1>14. CASE StopFailing
  BY <1>4, <1>5, <1>14 DEF StopFailing, Close, CheckDone, CallsAhead, Spent, history, TypeOK
<1>15. CASE Advance
  BY <1>4, <1>5, <1>15 DEF Advance, Close, CheckDone, CallsAhead, Spent, history, TypeOK
<1>16. ASSUME NEW t \in Tasks, SkipOver(t) PROVE CallsCounted'
  BY <1>4, <1>5, <1>16 DEF SkipOver, CallsAhead, Spent, history
<1>17. ASSUME NEW t \in Tasks, Call(t) PROVE CallsCounted'
  <2>1. /\ called' = [called EXCEPT ![t] = called[t] + 1] /\ UNCHANGED <<done, meta>>
        /\ mode = "run" /\ cur = None /\ mode' = "answer" /\ cur' = t
    BY <1>17 DEF Call, TypeOK
  <2>2. CallsAhead(t)' = CallsAhead(t) + 1 /\ called'[t] = called[t] + 1
    BY <1>4, <2>1 DEF CallsAhead, Spent, TypeOK
  <2>3. ASSUME NEW u \in Tasks \ {t} PROVE CallsAhead(u)' = CallsAhead(u) /\ called'[u] = called[u]
    BY <2>1, <2>3 DEF CallsAhead, Spent, TypeOK
  <2> QED BY <1>1, <1>2, <1>3, <1>4, <2>1, <2>2, <2>3 DEF CallsCounted
<1>18. ASSUME NEW t \in Tasks, SweepOver(t) PROVE CallsCounted'
  BY <1>4, <1>5, <1>18 DEF SweepOver, CallsAhead, Spent, history
<1>19. ASSUME NEW t \in Tasks, SweepKeep(t) PROVE CallsCounted'
  BY <1>4, <1>5, <1>19 DEF SweepKeep, CallsAhead, Spent, history
<1> QED BY <1>6, <1>7, <1>8, <1>9, <1>10, <1>11, <1>12, <1>13, <1>14, <1>15, <1>16, <1>17, <1>18, <1>19 DEF Pass

\* Every step keeps the calls counted; a crash pays for what it forgets.
LEMMA CallsStep ==
  ASSUME TypeOK, TypeOK', Current, CallsCounted, [Next]_vars
  PROVE  CallsCounted'
<1> USE DEF runner, tables, history, clock
<1>1. \A t \in Tasks : /\ done[t] \in Nat /\ called[t] \in Nat /\ MaxAttempts * done[t] \in Nat
                        /\ CallsAhead(t) \in 0..MaxAttempts /\ CallsAhead(t)' \in 0..MaxAttempts
                        /\ Least(Spent(t), MaxAttempts - 1) \in 0..(MaxAttempts - 1)
  BY SpentTyped, SpentTypedNext, Product, RunsAssumption DEF TypeOK
<1>2. crashes \in Nat
  BY DEF TypeOK
<1>3. ASSUME UNCHANGED <<called, done, meta>>,
             \/ UNCHANGED <<crashes, mode, cur>>
             \/ UNCHANGED crashes /\ cur = None /\ cur' = None
             \/ crashes' = crashes + 1 /\ UNCHANGED <<mode, cur>>
             \/ crashes' = crashes + 1 /\ cur' = None
      PROVE  CallsCounted'
  <2>1. ASSUME NEW t \in Tasks PROVE CallsAhead(t) + crashes <= CallsAhead(t)' + crashes'
    <3>1. Spent(t)' = Spent(t)
      BY <1>3 DEF Spent
    <3>2. t # None
      BY RunsAssumption
    <3>3. CASE UNCHANGED <<mode, cur>> /\ crashes' \in {crashes, crashes + 1}
      <4>1. CallsAhead(t)' = CallsAhead(t)
        BY <3>1, <3>3 DEF CallsAhead
      <4> QED BY <1>1, <1>2, <3>3, <4>1
    <3>4. CASE cur = None /\ cur' = None /\ UNCHANGED crashes
      BY <1>1, <1>2, <3>1, <3>2, <3>4 DEF CallsAhead
    <3>5. CASE cur' = None /\ crashes' = crashes + 1
      BY <1>1, <1>2, <3>1, <3>2, <3>5 DEF CallsAhead
    <3> QED BY <1>3, <3>3, <3>4, <3>5
  <2>2. crashes' \in Nat
    BY <1>2, <1>3
  <2> QED BY <1>1, <1>2, <1>3, <2>1, <2>2 DEF CallsCounted
<1>4. CASE TakeBatch
  BY <1>3, <1>4 DEF TakeBatch, TypeOK
<1>5. CASE SweepStart
  BY <1>3, <1>5 DEF SweepStart, TypeOK
<1>6. ASSUME NEW t \in Tasks, Outside(t) PROVE CallsCounted'
  BY <1>3, <1>6 DEF Outside, Finalize, DueNow, WindowOver
<1>7. CASE DayPasses
  BY <1>3, <1>7 DEF DayPasses
<1>8. ASSUME NEW h \in Handlers, Abort(h) PROVE CallsCounted'
  BY <1>3, <1>8 DEF Abort
<1>9. CASE AbortPass \/ Crash
  BY <1>3, <1>9 DEF AbortPass, Crash, StopPass
<1>10. CASE UNCHANGED vars
  BY <1>3, <1>10 DEF vars
<1>11. ASSUME NEW h \in Handlers, Handle(h) PROVE CallsCounted'
  BY <1>3, <1>11, HandleFrame
<1> QED BY <1>4, <1>5, <1>6, <1>7, <1>8, <1>9, <1>10, <1>11, PassCalls DEF Next

\* How a handler changes the status of a run.
LEMMA HandleStatus ==
  ASSUME TypeOK, Paying, NEW h \in Handlers, Handle(h), NEW t \in Tasks
  PROVE  \/ status'[t] = status[t]
         \/ status[t] = "none" /\ status'[t] = "awaiting_payment"
         \/ status[t] = "awaiting_payment" /\ status'[t] = "running"
         \/ status[t] \notin Fresh /\ status'[t] = "stopped"
<1> USE DEF TypeOK, tables
<1>1. CASE Create(h)
  BY <1>1 DEF Create, FreshStatus
<1>2. CASE ActivateWrite(h)
  BY <1>2 DEF ActivateWrite, Starts
<1>3. CASE StopWrite(h)
  BY <1>3 DEF StopWrite, Paying
<1>4. CASE UNCHANGED status
  BY <1>4
<1> QED BY <1>1, <1>2, <1>3, <1>4 DEF Handle, Buy, BuyAgain, StopRead, Refuse, Accept, SettlePaid,
     SettleUnpaid, Deliver, ActivateRead, AlreadyActive

\* No failure in a row is more than the limit, less one, while a run goes on.
LEMMA FailsTyped ==
  ASSUME TypeOK, NEW t \in Tasks
  PROVE  /\ meta[t].fails \in Nat /\ row[t].meta.fails \in Nat
         /\ Least(meta[t].fails, MaxFails - 1) \in 0..(MaxFails - 1)
         /\ Least(row[t].meta.fails, MaxFails - 1) \in 0..(MaxFails - 1)
         /\ FailsAhead(t) \in 0..MaxFails
<1>1. meta[t].fails \in Nat /\ row[t].meta.fails \in Nat
  BY DEF TypeOK, Meta, Row
<1>2. /\ Least(meta[t].fails, MaxFails - 1) \in 0..(MaxFails - 1)
      /\ Least(row[t].meta.fails, MaxFails - 1) \in 0..(MaxFails - 1)
  <2>1. \A n \in Nat : Least(n, MaxFails - 1) \in 0..(MaxFails - 1)
    BY LeastTyped, RunsAssumption
  <2> QED BY <1>1, <2>1
<1> QED BY <1>1, <1>2, RunsAssumption DEF FailsAhead

\* The same in the next state.
LEMMA FailsTypedNext ==
  ASSUME TypeOK', NEW t \in Tasks
  PROVE  /\ Least(meta[t].fails, MaxFails - 1)' \in 0..(MaxFails - 1)
         /\ FailsAhead(t)' \in 0..MaxFails
<1>1. meta'[t].fails \in Nat /\ row'[t].meta.fails \in Nat
  BY DEF TypeOK, Meta, Row
<1>2. /\ Least(meta'[t].fails, MaxFails - 1) \in 0..(MaxFails - 1)
      /\ Least(row'[t].meta.fails, MaxFails - 1) \in 0..(MaxFails - 1)
  <2>1. \A n \in Nat : Least(n, MaxFails - 1) \in 0..(MaxFails - 1)
    BY LeastTyped, RunsAssumption
  <2> QED BY <1>1, <2>1
<1> QED BY <1>1, <1>2, RunsAssumption DEF FailsAhead

\* Past its last paid check a run completes, fails once more in a row, or ends.
LEMMA PassExtra ==
  ASSUME TypeOK, TypeOK', Paying, Current, ExtraCounted, Pass
  PROVE  ExtraCounted'
<1> DEFINE InPlay(t) == status[t] = "running" \/ t \in batch \/ t = cur
<1> DEFINE Kept == UNCHANGED done /\ \A t \in Tasks : InPlay(t)' => FailsAhead(t) <= FailsAhead(t)'
<1> USE DEF tables
<1>1. UNCHANGED crashes /\ crashes \in Nat /\ MaxFails * crashes \in Nat
        /\ MaxFails * (crashes + 1) = MaxFails * crashes + MaxFails
  BY PassFrame, Product, RunsAssumption DEF TypeOK
<1>2. \A t \in Tasks : InPlay(t)' => InPlay(t)
  <2>1. \A t \in Tasks : t # None
    BY RunsAssumption
  <2> QED BY <2>1, PassFrame, PassReads DEF Ended
<1>3. \A t \in Tasks : status'[t] \in Fresh => status[t] \in Fresh
  BY PassFrame DEF Fresh, Ended
<1>4. \A t \in Tasks : /\ done[t] \in Nat
                        /\ Least(meta[t].fails, MaxFails - 1) \in 0..(MaxFails - 1)
                        /\ Least(row[t].meta.fails, MaxFails - 1) \in 0..(MaxFails - 1)
                        /\ FailsAhead(t) \in 0..MaxFails /\ FailsAhead(t)' \in 0..MaxFails
  BY FailsTyped, FailsTypedNext DEF TypeOK
<1>5. Kept => ExtraCounted'
  <2> SUFFICES ASSUME Kept PROVE ExtraCounted'
    OBVIOUS
  <2>1. \A t \in Tasks : status'[t] \in Fresh => done'[t] = 0
    BY <1>3 DEF ExtraCounted
  <2>2. ASSUME NEW t \in Tasks, InPlay(t)'
        PROVE  done'[t] < Total + FailsAhead(t)' + MaxFails * crashes'
    <3>1. done[t] < Total + FailsAhead(t) + MaxFails * crashes
      BY <1>2, <2>2 DEF ExtraCounted
    <3>2. FailsAhead(t) <= FailsAhead(t)' /\ done'[t] = done[t]
      BY <2>2
    <3> QED BY <1>1, <1>4, <3>1, <3>2, RunsAssumption
  <2>3. ExtraChecksAreBounded'
    BY <1>1 DEF ExtraCounted, ExtraChecksAreBounded
  <2> QED BY <2>1, <2>2, <2>3 DEF ExtraCounted
<1>6. CASE PassDone
  BY <1>4, <1>5, <1>6 DEF PassDone, FailsAhead
<1>7. CASE Answered
  BY <1>4, <1>5, <1>7 DEF Answered, FailsAhead
<1>8. CASE Unanswered
  <2>1. \A t \in Tasks : meta'[t].fails = meta[t].fails
    BY <1>8 DEF Unanswered, TypeOK
  <2> QED BY <1>4, <1>5, <1>8, <2>1 DEF Unanswered, FailsAhead
<1>9. CASE Retry
  BY <1>4, <1>5, <1>9 DEF Retry, CheckDone, FailsAhead
<1>10. CASE Record
  BY <1>4, <1>5, <1>10 DEF Record, FailsAhead
<1>11. CASE Count
  <2>1. /\ cur \in Tasks /\ mode = "count" /\ mode' = "note"
        /\ UNCHANGED <<status, batch, cur, meta, row>>
        /\ done' = [done EXCEPT ![cur] = done[cur] + 1]
    BY <1>11 DEF Count, TypeOK
  <2>2. status[cur] \notin Fresh
    BY <2>1 DEF Paying
  <2>3. FailsAhead(cur)' = FailsAhead(cur) + 1 /\ done'[cur] = done[cur] + 1
    BY <2>1 DEF FailsAhead, Current, TypeOK
  <2>4. ASSUME NEW t \in Tasks \ {cur} PROVE FailsAhead(t)' = FailsAhead(t) /\ done'[t] = done[t]
    BY <2>1, <2>4 DEF FailsAhead, TypeOK
  <2>5. done[cur] < Total + FailsAhead(cur) + MaxFails * crashes
    BY <2>1 DEF ExtraCounted
  <2>6. done'[cur] < Total + FailsAhead(cur)' + MaxFails * crashes
    BY <1>1, <1>4, <2>1, <2>3, <2>5, RunsAssumption
  <2>7. \A t \in Tasks : status'[t] \in Fresh => done'[t] = 0
    BY <2>1, <2>2, <2>4 DEF ExtraCounted
  <2>8. \A t \in Tasks : InPlay(t)' => done'[t] < Total + FailsAhead(t)' + MaxFails * crashes'
    BY <1>1, <1>2, <2>1, <2>4, <2>6 DEF ExtraCounted
  <2>9. ExtraChecksAreBounded'
    <3>1. done'[cur] < Total + MaxFails * (crashes + 1)
      BY <1>1, <1>4, <2>1, <2>3, <2>6, RunsAssumption
    <3> QED BY <1>1, <2>1, <2>4, <3>1 DEF ExtraCounted, ExtraChecksAreBounded
  <2> QED BY <2>7, <2>8, <2>9 DEF ExtraCounted
<1>12. CASE Note
  BY <1>4, <1>5, <1>12 DEF Note, FailsAhead, TypeOK
<1>13. CASE Complete
  <2>1. cur \in Tasks /\ status'[cur] = "completed" /\ batch' = batch /\ cur' = None
    BY <1>13 DEF Complete, Finish, Close, CheckDone, TypeOK
  <2>2. ASSUME NEW t \in Tasks, t = cur PROVE ~InPlay(t)'
    BY <2>1, <2>2, RunsAssumption DEF Current
  <2> QED BY <1>4, <1>5, <1>13, <2>1, <2>2 DEF Complete, Close, CheckDone, FailsAhead
<1>14. CASE StopFailing
  <2>1. cur \in Tasks /\ status'[cur] = "failed" /\ batch' = batch /\ cur' = None
    BY <1>14 DEF StopFailing, Finish, Close, CheckDone, TypeOK
  <2>2. ASSUME NEW t \in Tasks, t = cur PROVE ~InPlay(t)'
    BY <2>1, <2>2, RunsAssumption DEF Current
  <2> QED BY <1>4, <1>5, <1>14, <2>1, <2>2 DEF StopFailing, Close, CheckDone, FailsAhead
<1>15. CASE Advance
  <2>1. /\ cur \in Tasks /\ mode = "close" /\ cur' = None /\ mode' = "run"
        /\ UNCHANGED <<status, batch, done, meta, row>>
        /\ IF ok THEN done[cur] < Total ELSE FailsNow(cur) < MaxFails
    BY <1>15 DEF Advance, Close, CheckDone, TypeOK
  <2>2. meta[cur].fails = FailsNow(cur)
    BY <2>1 DEF Current
  <2>3. ASSUME NEW t \in Tasks \ {cur} PROVE FailsAhead(t)' = FailsAhead(t) /\ done'[t] = done[t]
    BY <2>1, <2>3 DEF FailsAhead
  <2>4. done'[cur] = done[cur] /\ FailsAhead(cur) = Least(row[cur].meta.fails, MaxFails - 1) + 1
    BY <2>1 DEF FailsAhead
  <2>5. ASSUME NEW t \in Tasks, t = cur PROVE FailsAhead(t)' = Least(meta[t].fails, MaxFails - 1)
    BY <2>1, <2>5, RunsAssumption DEF FailsAhead
  <2>6. ASSUME NEW t \in Tasks, t = cur PROVE done[t] < Total + FailsAhead(t)' + MaxFails * crashes
    <3>1. CASE ok
      <4>1. FailsAhead(t)' \in Nat
        BY <1>4
      <4> QED BY <1>1, <1>4, <2>1, <2>6, <3>1, <4>1, RunsAssumption
    <3>2. CASE ~ok
      <4>1. meta[t].fails = row[t].meta.fails + 1 /\ row[t].meta.fails \in Nat /\ meta[t].fails < MaxFails
        BY <2>1, <2>2, <2>6, <3>2, FailsTyped DEF FailsNow
      <4>2. Least(meta[t].fails, MaxFails - 1) = Least(row[t].meta.fails, MaxFails - 1) + 1
        BY <4>1, RunsAssumption DEF Least
      <4>3. done[t] < Total + FailsAhead(t) + MaxFails * crashes
        BY <2>1, <2>6 DEF ExtraCounted
      <4> QED BY <2>4, <2>5, <2>6, <4>2, <4>3
    <3> QED BY <3>1, <3>2
  <2>7. \A t \in Tasks : InPlay(t)' => done'[t] < Total + FailsAhead(t)' + MaxFails * crashes'
    BY <1>1, <1>2, <2>1, <2>3, <2>6 DEF ExtraCounted
  <2>8. \A t \in Tasks : status'[t] \in Fresh => done'[t] = 0
    BY <2>1 DEF ExtraCounted
  <2>9. ExtraChecksAreBounded'
    BY <1>1, <2>1 DEF ExtraCounted, ExtraChecksAreBounded
  <2> QED BY <2>7, <2>8, <2>9 DEF ExtraCounted
<1>16. ASSUME NEW t \in Tasks, SkipOver(t) PROVE ExtraCounted'
  BY <1>4, <1>5, <1>16 DEF SkipOver, FailsAhead
<1>17. ASSUME NEW t \in Tasks, Call(t) PROVE ExtraCounted'
  BY <1>4, <1>5, <1>17 DEF Call, FailsAhead
<1>18. ASSUME NEW t \in Tasks, SweepOver(t) PROVE ExtraCounted'
  BY <1>4, <1>5, <1>18 DEF SweepOver, FailsAhead
<1>19. ASSUME NEW t \in Tasks, SweepKeep(t) PROVE ExtraCounted'
  BY <1>4, <1>5, <1>19 DEF SweepKeep, FailsAhead
<1> QED BY <1>6, <1>7, <1>8, <1>9, <1>10, <1>11, <1>12, <1>13, <1>14, <1>15, <1>16, <1>17, <1>18, <1>19 DEF Pass

\* Every step keeps the checks past the end bounded.
LEMMA ExtraStep ==
  ASSUME TypeOK, TypeOK', Paying, Current, ExtraCounted, [Next]_vars
  PROVE  ExtraCounted'
<1> DEFINE InPlay(t) == status[t] = "running" \/ t \in batch \/ t = cur
<1> USE DEF tables, runner, history, clock
<1>1. /\ crashes \in Nat /\ MaxFails * crashes \in Nat
      /\ MaxFails * (crashes + 1) = MaxFails * crashes + MaxFails
  BY Product, RunsAssumption DEF TypeOK
<1>2. \A t \in Tasks : /\ done[t] \in Nat /\ t # None
                        /\ Least(meta[t].fails, MaxFails - 1) \in 0..(MaxFails - 1)
                        /\ FailsAhead(t) \in 0..MaxFails /\ FailsAhead(t)' \in 0..MaxFails
  BY FailsTyped, FailsTypedNext, RunsAssumption DEF TypeOK
<1>3. ASSUME UNCHANGED <<done, meta, crashes>>,
             \/ mode' = mode /\ cur' = cur /\ row' = row
             \/ cur = None /\ cur' = None,
             \A t \in Tasks : status'[t] \in Fresh => status[t] \in Fresh,
             \A t \in Tasks : InPlay(t)' => InPlay(t) \/ status[t] \in Fresh
      PROVE  ExtraCounted'
  <2>1. ASSUME NEW t \in Tasks PROVE FailsAhead(t)' = FailsAhead(t)
    BY <1>2, <1>3 DEF FailsAhead
  <2>2. ASSUME NEW t \in Tasks, InPlay(t)'
        PROVE  done'[t] < Total + FailsAhead(t)' + MaxFails * crashes'
    <3>1. CASE InPlay(t)
      BY <1>3, <2>1, <3>1 DEF ExtraCounted
    <3>2. CASE status[t] \in Fresh
      <4>1. done'[t] = 0
        BY <1>3, <3>2 DEF ExtraCounted
      <4> QED BY <1>1, <1>2, <1>3, <4>1, RunsAssumption
    <3> QED BY <1>3, <2>2, <3>1, <3>2
  <2>3. \A t \in Tasks : status'[t] \in Fresh => done'[t] = 0
    BY <1>3 DEF ExtraCounted
  <2>4. ExtraChecksAreBounded'
    BY <1>3 DEF ExtraCounted, ExtraChecksAreBounded
  <2> QED BY <2>2, <2>3, <2>4 DEF ExtraCounted
<1>4. ASSUME UNCHANGED <<done, meta, status>>, crashes' = crashes + 1,
             \/ batch' = batch /\ mode' = mode /\ cur' = cur /\ row' = row
             \/ batch' = {} /\ cur' = None
      PROVE  ExtraCounted'
  <2>1. \A t \in Tasks : InPlay(t)' => InPlay(t)
    BY <1>2, <1>4
  <2>2. ASSUME NEW t \in Tasks, InPlay(t)'
        PROVE  done'[t] < Total + FailsAhead(t)' + MaxFails * crashes'
    <3>1. done[t] < Total + FailsAhead(t) + MaxFails * crashes
      BY <2>1, <2>2 DEF ExtraCounted
    <3> QED BY <1>1, <1>2, <1>4, <3>1, RunsAssumption
  <2>3. \A t \in Tasks : status'[t] \in Fresh => done'[t] = 0
    BY <1>4 DEF ExtraCounted
  <2>4. ExtraChecksAreBounded'
    <3>1. /\ crashes' \in Nat /\ MaxFails * (crashes' + 1) = MaxFails * crashes' + MaxFails
          /\ MaxFails * crashes' = MaxFails * crashes + MaxFails
      BY <1>1, <1>4, Product, RunsAssumption
    <3>2. ASSUME NEW t \in Tasks PROVE done'[t] < Total + MaxFails * (crashes' + 1)
      BY <1>1, <1>2, <1>4, <3>1, RunsAssumption DEF ExtraCounted, ExtraChecksAreBounded
    <3> QED BY <3>2 DEF ExtraChecksAreBounded
  <2> QED BY <2>2, <2>3, <2>4 DEF ExtraCounted
<1>5. CASE TakeBatch
  <2>1. UNCHANGED <<done, meta, crashes, status, cur>> /\ cur = None /\ batch' \subseteq Running
    BY <1>5 DEF TakeBatch, TypeOK, ReadRows, Due
  <2> QED BY <1>2, <1>3, <2>1 DEF Running
<1>6. CASE SweepStart
  <2>1. UNCHANGED <<done, meta, crashes, status, cur>> /\ cur = None /\ batch' \subseteq Running
    BY <1>6 DEF SweepStart, TypeOK, ReadRows
  <2> QED BY <1>2, <1>3, <2>1 DEF Running
<1>6a. ASSUME UNCHANGED <<done, meta, status, batch, cur, mode, row, crashes>>
       PROVE  ExtraCounted'
  <2>1. \A t \in Tasks : InPlay(t)' <=> InPlay(t)
    BY <1>6a
  <2> QED BY <1>3, <1>6a, <2>1
<1>7. ASSUME NEW t \in Tasks, Outside(t) PROVE ExtraCounted'
  BY <1>6a, <1>7 DEF Outside, Finalize, DueNow, WindowOver
<1>8. CASE DayPasses
  BY <1>6a, <1>8 DEF DayPasses
<1>9. ASSUME NEW h \in Handlers, Abort(h) PROVE ExtraCounted'
  <2>1. UNCHANGED <<done, meta, status, batch, cur, mode, row>> /\ crashes' = crashes + 1
    BY <1>9 DEF Abort
  <2> QED BY <1>4, <2>1
<1>10. CASE AbortPass \/ Crash
  BY <1>4, <1>10 DEF AbortPass, Crash, StopPass
<1>11. CASE UNCHANGED vars
  BY <1>6a, <1>11 DEF vars
<1>12. ASSUME NEW h \in Handlers, Handle(h) PROVE ExtraCounted'
  <2>1. \A t \in Tasks : status'[t] \in Fresh => status[t] \in Fresh
    BY <1>12, HandleStatus DEF Fresh
  <2>2. UNCHANGED <<done, meta, crashes, mode, cur, row, batch>>
    BY <1>12, HandleFrame
  <2>3. \A t \in Tasks : InPlay(t)' => InPlay(t) \/ status[t] \in Fresh
    BY <1>12, <2>2, HandleStatus DEF Fresh
  <2> QED BY <1>3, <2>1, <2>2, <2>3
<1> QED BY <1>5, <1>6, <1>7, <1>8, <1>9, <1>10, <1>11, <1>12, PassExtra DEF Next

\* A batch shrinks by one for each run that is checked or passed over.
LEMMA BatchCounts ==
  ASSUME TypeOK
  PROVE  /\ IsFiniteSet(batch) /\ Cardinality(batch) \in Nat
         /\ \A t \in batch : Cardinality(batch \ {t}) = Cardinality(batch) - 1
<1>1. IsFiniteSet(batch)
  BY FS_Subset, RunsAssumption DEF TypeOK
<1> QED BY <1>1, FS_CardinalityType, FS_RemoveElement

\* Every step keeps the budget.
LEMMA BudgetStep ==
  ASSUME TypeOK, BudgetCounted, [Next]_vars
  PROVE  BudgetCounted'
<1> USE DEF BudgetCounted, BudgetNearlyKept, tables, clock, runner, history
<1>1. today \in Nat /\ DailyBudget \in Nat /\ RunBatch \in Nat \ {0} /\ Cardinality({}) = 0
  BY FS_EmptySet, RunsAssumption DEF TypeOK
<1>2. /\ Cardinality(batch) \in Nat
      /\ \A t \in batch : Cardinality(batch \ {t}) = Cardinality(batch) - 1
  BY BatchCounts
<1>3. CASE TakeBatch
  <2>1. Cardinality(batch') <= RunBatch /\ mode' = "run" /\ today' = today /\ today < DailyBudget
    BY <1>3 DEF TakeBatch, ReadRows, BudgetOk
  <2>2. IsFiniteSet(batch')
    BY <1>3, FS_Subset, RunsAssumption DEF TakeBatch, ReadRows, Due, Running
  <2>3. Cardinality(batch') \in Nat
    BY <2>2, FS_CardinalityType
  <2> QED BY <1>1, <2>1, <2>3
<1>4. CASE SweepStart
  BY <1>4 DEF SweepStart
<1>5. CASE Pass
  <2>1. CASE PassDone
    BY <1>1, <2>1 DEF PassDone
  <2>2. CASE Answered
    BY <1>1, <1>2, <2>2 DEF Answered
  <2>3. CASE Unanswered
    BY <1>1, <1>2, <2>3 DEF Unanswered
  <2>4. CASE Retry
    BY <1>1, <1>2, <2>4 DEF Retry, CheckDone
  <2>5. CASE Record
    BY <1>1, <1>2, <2>5 DEF Record
  <2>6. CASE Count \/ Note
    BY <1>1, <1>2, <2>6 DEF Count, Note
  <2>7. CASE Complete \/ StopFailing \/ Advance
    BY <1>1, <1>2, <2>7 DEF Complete, StopFailing, Advance, Close, CheckDone
  <2>8. ASSUME NEW t \in Tasks, SkipOver(t) \/ SweepOver(t) \/ SweepKeep(t) PROVE BudgetCounted'
    BY <1>1, <1>2, <2>8 DEF SkipOver, SweepOver, SweepKeep
  <2>9. ASSUME NEW t \in Tasks, Call(t) PROVE BudgetCounted'
    BY <1>1, <1>2, <2>9 DEF Call
  <2> QED BY <1>5, <2>1, <2>2, <2>3, <2>4, <2>5, <2>6, <2>7, <2>8, <2>9 DEF Pass
<1>6. ASSUME UNCHANGED runner, today' = today \/ today' = 0 PROVE BudgetCounted'
  BY <1>1, <1>2, <1>6
<1>7. ASSUME NEW t \in Tasks, Outside(t) PROVE BudgetCounted'
  BY <1>6, <1>7 DEF Outside, Finalize, DueNow, WindowOver
<1>8. CASE DayPasses
  BY <1>6, <1>8 DEF DayPasses
<1>9. ASSUME NEW h \in Handlers, Abort(h) PROVE BudgetCounted'
  BY <1>6, <1>9 DEF Abort
<1>10. CASE AbortPass \/ Crash
  BY <1>1, <1>10 DEF AbortPass, Crash, StopPass
<1>11. CASE UNCHANGED vars
  BY <1>6, <1>11 DEF vars
<1>12. ASSUME NEW h \in Handlers, Handle(h) PROVE BudgetCounted'
  BY <1>6, <1>12, HandleFrame
<1> QED BY <1>3, <1>4, <1>5, <1>7, <1>8, <1>9, <1>10, <1>11, <1>12 DEF Next

\* Every step of a handler keeps a delivered run started, or about to be.
LEMMA HandleStart ==
  ASSUME TypeOK, Paying, StartAtHand, NEW h \in Handlers, Handle(h)
  PROVE  StartAtHand'
<1> USE DEF TypeOK, StartAtHand, Fresh, ledger, tables, history
<1>1. ASSUME NEW t \in Tasks, Buy(h, t) \/ BuyAgain(h, t) \/ StopRead(h, t) PROVE StartAtHand'
  BY <1>1 DEF Buy, BuyAgain, StopRead, Start
<1>2. CASE Refuse(h)
  BY <1>2 DEF Refuse, Leave
<1>3. CASE Accept(h)
  BY <1>3 DEF Accept, Goto
<1>4. CASE Create(h)
  BY <1>4 DEF Create, Goto, FreshStatus
<1>5. CASE SettlePaid(h)
  BY <1>5 DEF SettlePaid, Goto
<1>6. CASE SettleUnpaid(h)
  BY <1>6 DEF SettleUnpaid, Leave
<1>7. CASE Deliver(h)
  BY <1>7 DEF Deliver, Goto
<1>8. CASE ActivateRead(h)
  BY <1>8 DEF ActivateRead, Goto
<1>9. CASE AlreadyActive(h)
  <2>1. status[at[h]] \notin Fresh
    BY <1>9 DEF AlreadyActive, Waits, Paying
  <2> QED BY <1>9, <2>1 DEF AlreadyActive, Leave
<1>10. CASE ActivateWrite(h)
  <2>1. status'[at[h]] \notin Fresh
    BY <1>10 DEF ActivateWrite, Starts, Paying
  <2>2. \A t \in Tasks : t # at[h] => status'[t] = status[t]
    BY <1>10 DEF ActivateWrite
  <2> QED BY <1>10, <2>1, <2>2 DEF ActivateWrite, Leave
<1>11. CASE StopWrite(h)
  BY <1>11 DEF StopWrite, Leave
<1> QED BY <1>1, <1>2, <1>3, <1>4, <1>5, <1>6, <1>7, <1>8, <1>9, <1>10, <1>11 DEF Handle

\* Every step keeps a delivered run started, or about to be.
LEMMA StartStep ==
  ASSUME TypeOK, Paying, StartAtHand, [Next]_vars
  PROVE  StartAtHand'
<1> USE DEF StartAtHand, ledger, tables, http, history
<1>1. ASSUME UNCHANGED <<ledger, http, status, crashes>> PROVE StartAtHand'
  BY <1>1
<1>2. CASE TakeBatch \/ SweepStart
  BY <1>1, <1>2 DEF TakeBatch, SweepStart
<1>3. CASE Pass
  BY <1>3, PassFrame DEF Fresh, Ended
<1>4. ASSUME NEW t \in Tasks, Outside(t) PROVE StartAtHand'
  BY <1>1, <1>4 DEF Outside, Finalize, DueNow, WindowOver
<1>5. CASE DayPasses \/ UNCHANGED vars
  BY <1>1, <1>5 DEF DayPasses, vars
<1>6. ASSUME crashes' = crashes + 1 PROVE StartAtHand'
  BY <1>6 DEF TypeOK
<1>7. CASE AbortPass \/ Crash
  BY <1>6, <1>7 DEF AbortPass, Crash
<1>8. ASSUME NEW h \in Handlers, Abort(h) PROVE StartAtHand'
  BY <1>6, <1>8 DEF Abort
<1> QED BY <1>2, <1>3, <1>4, <1>5, <1>7, <1>8, HandleStart DEF Next

-------------------------------------------------------------------------------
(* The theorems.                                                               *)

RunsInvariant == /\ TypeOK /\ Paying /\ Current
                 /\ CallsCounted /\ ExtraCounted /\ BudgetCounted /\ StartAtHand

\* It holds before any run is bought.
LEMMA RunsInit == Init => RunsInvariant
<1> SUFFICES ASSUME Init PROVE RunsInvariant
  OBVIOUS
<1> USE RunsAssumption DEF Init
<1>1. TypeOK
  <2>1. NewMeta \in Meta /\ NewRow \in Row
    BY DEF NewMeta, Meta, NewRow, Row
  <2>2. meta \in [Tasks -> Meta] /\ row \in [Tasks -> Row]
    BY <2>1
  <2>3. \A h \in Handlers : pc[h] = "idle" /\ at[h] = None
    OBVIOUS
  <2>4. crashes \in 0..MaxCrashes
    OBVIOUS
  <2> QED BY <2>2, <2>3, <2>4 DEF TypeOK, Payments, Statuses, Steps, Modes
<1>2. Paying
  BY DEF Paying, Selling, Fresh, StartedIsPaid
<1>3. Current
  BY DEF Current, InHand, DoneIsRecorded
<1>4. \A t \in Tasks : /\ Spent(t) = 0 /\ Least(0, MaxAttempts - 1) = 0
                        /\ Least(0, MaxFails - 1) = 0
  BY DEF Spent, NewMeta, Least
<1>5. \A t \in Tasks : cur # t /\ CallsAhead(t) = 0 /\ FailsAhead(t) = 0
  BY <1>4 DEF CallsAhead, FailsAhead, NewMeta
<1>6. MaxAttempts * 0 = 0 /\ MaxFails * 0 = 0 /\ MaxFails * (0 + 1) = MaxFails
  OBVIOUS
<1>7. CallsCounted
  BY <1>5, <1>6 DEF CallsCounted
<1>8. ExtraCounted
  BY <1>5, <1>6 DEF ExtraCounted, ExtraChecksAreBounded
<1>9. BudgetCounted
  BY FS_EmptySet DEF BudgetCounted, BudgetNearlyKept
<1>10. StartAtHand
  BY DEF StartAtHand
<1> QED BY <1>1, <1>2, <1>3, <1>7, <1>8, <1>9, <1>10 DEF RunsInvariant

\* Every step keeps it.
LEMMA RunsStep == RunsInvariant /\ [Next]_vars => RunsInvariant'
<1> SUFFICES ASSUME RunsInvariant, [Next]_vars PROVE RunsInvariant'
  OBVIOUS
<1>1. TypeOK'
  BY RunTypeStep DEF RunsInvariant
<1> QED BY <1>1, PayingStep, CurrentStep, CallsStep, ExtraStep, BudgetStep, StartStep DEF RunsInvariant

\* The invariant the theorems rest on.
THEOREM RunsInvariantHolds == Spec => []RunsInvariant
BY RunsInit, RunsStep, PTL DEF Spec

\* Every variable keeps its type, whatever handlers, runner and crashes do.
THEOREM RunsTyped == Spec => []TypeOK
<1>1. RunsInvariant => TypeOK
  BY DEF RunsInvariant
<1> QED BY <1>1, RunsInvariantHolds, PTL

\* A run that works, or ever worked, is one whose sale settled (routes.py task_create,
\* tasks.py create and activate).
THEOREM RunsStartPaid == Spec => []StartedIsPaid
<1>1. RunsInvariant => StartedIsPaid
  BY DEF RunsInvariant, Paying
<1> QED BY <1>1, RunsInvariantHolds, PTL

\* Every counted check has its row, also after a crash between the statement that
\* records it and the one that counts it (tasks.py _run_one).
THEOREM RunsDoneRecorded == Spec => []DoneIsRecorded
<1>1. RunsInvariant => DoneIsRecorded
  BY DEF RunsInvariant, Current
<1> QED BY <1>1, RunsInvariantHolds, PTL

\* The model is called MAX_ATTEMPTS_PER_CHECK times per check at most, and once more
\* for each crash (tasks.py _run_one, _bump_attempts).
THEOREM RunsCallsBounded == Spec => []CallsAreBounded
<1>1. RunsInvariant => CallsAreBounded
  <2> SUFFICES ASSUME RunsInvariant, NEW t \in Tasks
               PROVE  called[t] <= MaxAttempts * (done[t] + 1) + crashes
    BY DEF CallsAreBounded
  <2>1. called[t] <= MaxAttempts * done[t] + CallsAhead(t) + crashes
    BY DEF RunsInvariant, CallsCounted
  <2>2. CallsAhead(t) \in 0..MaxAttempts
    BY SpentTyped DEF RunsInvariant
  <2>3. called[t] \in Nat /\ crashes \in Nat /\ done[t] \in Nat
    BY DEF RunsInvariant, TypeOK
  <2>4. MaxAttempts * done[t] \in Nat /\ MaxAttempts * (done[t] + 1) = MaxAttempts * done[t] + MaxAttempts
    BY <2>3, Product, RunsAssumption
  <2> QED BY <2>1, <2>2, <2>3, <2>4, RunsAssumption
<1> QED BY <1>1, RunsInvariantHolds, PTL

\* A run makes fewer than MAX_CONSECUTIVE_FAILS checks past the last one paid for, as
\* many again after each crash (tasks.py _run_one).
THEOREM RunsExtraBounded == Spec => []ExtraChecksAreBounded
<1>1. RunsInvariant => ExtraChecksAreBounded
  BY DEF RunsInvariant, ExtraCounted
<1> QED BY <1>1, RunsInvariantHolds, PTL

\* A day's check rows exceed the budget by less than a batch (tasks.py _run_due,
\* budget_ok).
THEOREM RunsBudgetKept == Spec => []BudgetNearlyKept
<1>1. RunsInvariant => BudgetNearlyKept
  BY DEF RunsInvariant, BudgetCounted
<1> QED BY <1>1, RunsInvariantHolds, PTL

\* Until a crash, a run that is delivered and has no handler left has started
\* (routes.py task_create).
THEOREM RunsPaidStart == Spec => []PaidRunStarts
<1>1. RunsInvariant => PaidRunStarts
  BY DEF RunsInvariant, StartAtHand, PaidRunStarts, Fresh
<1> QED BY <1>1, RunsInvariantHolds, PTL

\* A run that ended never works again, whatever a handler or the runner read of it
\* before (tasks.py activate, stop, _finish).
THEOREM RunsStayEnded == Spec => EndedStaysEnded
<1>1. ASSUME RunsInvariant, [Next]_vars, NEW t \in Tasks, status[t] \in Ended
      PROVE  status'[t] \in Ended
  <2> USE <1>1 DEF RunsInvariant, Ended
  <2>1. ASSUME NEW h \in Handlers, Handle(h) PROVE status'[t] \in Ended
    BY <2>1, HandleStatus
  <2>2. CASE Pass
    BY <2>2, PassFrame
  <2>3. ASSUME UNCHANGED status PROVE status'[t] \in Ended
    BY <2>3
  <2>4. CASE TakeBatch \/ SweepStart \/ DayPasses
    BY <2>3, <2>4 DEF TakeBatch, SweepStart, DayPasses, tables
  <2>5. ASSUME NEW u \in Tasks, Outside(u) PROVE status'[t] \in Ended
    BY <2>3, <2>5 DEF Outside, Finalize, DueNow, WindowOver, tables
  <2>6. ASSUME NEW h \in Handlers, Abort(h) PROVE status'[t] \in Ended
    BY <2>3, <2>6 DEF Abort, tables
  <2>7. CASE AbortPass \/ Crash \/ UNCHANGED vars
    BY <2>3, <2>7 DEF AbortPass, Crash, vars, tables
  <2> QED BY <2>1, <2>2, <2>4, <2>5, <2>6, <2>7 DEF Next
<1>2. RunsInvariant /\ [Next]_vars => [\A t \in Tasks : status[t] \in Ended => status'[t] \in Ended]_vars
  BY <1>1
<1> QED BY <1>2, RunsInvariantHolds, PTL DEF Spec, EndedStaysEnded

-------------------------------------------------------------------------------
(* The promise of PaidRun. *)

\* The checks written down are those counted, and at most the next one.
InOrder == \A t \in Tasks : recorded[t] \in {1..done[t], 1..(done[t] + 1)}

\* The next number in a row of numbers.
LEMMA NextInRow ==
  ASSUME NEW n \in Nat, NEW S, S \in {1..n, 1..(n + 1)}
  PROVE  /\ S \cup {n + 1} = 1..(n + 1)
         /\ n + 1 \in S => S = 1..(n + 1)
<1>1. 1..(n + 1) = 1..n \cup {n + 1} /\ n + 1 \notin 1..n
  OBVIOUS
<1> QED BY <1>1

\* Only two steps of the runner touch the rows of checks and their counter.
LEMMA CheckFrame ==
  ASSUME [Next]_vars
  PROVE  Record \/ Count \/ UNCHANGED <<done, recorded>>
<1> USE DEF tables, vars
<1>1. CASE Pass
  BY <1>1 DEF Pass, PassDone, Answered, Unanswered, Retry, Note, Complete, StopFailing, Advance,
              SkipOver, Call, SweepOver, SweepKeep, Close
<1>2. ASSUME NEW t \in Tasks, Outside(t) PROVE UNCHANGED <<done, recorded>>
  BY <1>2 DEF Outside, Finalize, DueNow, WindowOver
<1>3. ASSUME NEW h \in Handlers, Abort(h) PROVE UNCHANGED <<done, recorded>>
  BY <1>3 DEF Abort
<1>4. CASE TakeBatch \/ SweepStart \/ DayPasses \/ AbortPass \/ Crash
  BY <1>4 DEF TakeBatch, SweepStart, DayPasses, AbortPass, Crash
<1> QED BY <1>1, <1>2, <1>3, <1>4, HandleFrame DEF Next

\* What a check written down makes of the rows.
LEMMA RecordNext ==
  ASSUME TypeOK, Current, InOrder, Record
  PROVE  /\ cur \in Tasks /\ cur \notin batch /\ done' = done
         /\ recorded' = [recorded EXCEPT ![cur] = 1..(done[cur] + 1)]
<1>1. cur \in Tasks /\ cur \notin batch /\ done' = done /\ mode = "record"
  BY DEF TypeOK, Current, Record
<1>2. Seq(cur) = done[cur] + 1 /\ done[cur] \in Nat
  BY <1>1 DEF TypeOK, Current, InHand, Seq
<1>3. recorded[cur] \cup {done[cur] + 1} = 1..(done[cur] + 1)
  BY <1>1, <1>2, NextInRow DEF InOrder
<1>4. recorded' = [recorded EXCEPT ![cur] = recorded[cur] \cup {done[cur] + 1}]
  BY <1>1, <1>2 DEF Record, RecordCheck, TypeOK
<1> QED BY <1>1, <1>3, <1>4

\* Every step keeps the checks in order.
LEMMA OrderStep ==
  ASSUME TypeOK, Current, InOrder, [Next]_vars
  PROVE  InOrder'
<1>1. CASE Record
  <2>1. PICK t \in Tasks : t = cur /\ done' = done /\ recorded' = [recorded EXCEPT ![t] = 1..(done[t] + 1)]
    BY <1>1, RecordNext
  <2>2. recorded'[t] = 1..(done[t] + 1) /\ \A u \in Tasks : u # t => recorded'[u] = recorded[u]
    BY <2>1 DEF TypeOK
  <2> QED BY <2>1, <2>2 DEF InOrder
<1>2. CASE Count
  <2>1. cur \in Tasks /\ Seq(cur) = done[cur] + 1 /\ Seq(cur) \in recorded[cur] /\ done[cur] \in Nat
    BY <1>2 DEF Count, TypeOK, Current, InHand, Seq
  <2>2. recorded[cur] = 1..(done[cur] + 1)
    BY <2>1, NextInRow DEF InOrder
  <2>3. recorded' = recorded /\ done' = [done EXCEPT ![cur] = done[cur] + 1]
    BY <1>2 DEF Count
  <2>4. done'[cur] = done[cur] + 1 /\ \A t \in Tasks : t # cur => done'[t] = done[t]
    BY <2>1, <2>3 DEF TypeOK
  <2> QED BY <2>1, <2>2, <2>3, <2>4 DEF InOrder
<1>3. CASE UNCHANGED <<done, recorded>>
  BY <1>3 DEF InOrder
<1> QED BY <1>1, <1>2, <1>3, CheckFrame

\* What the promise does not see.
LEMMA Unseen ==
  ASSUME recorded' = recorded, \A t \in Tasks : Phase(t)' = Phase(t)
  PROVE  UNCHANGED Promise!vars
BY DEF Promise!vars

\* The moves the promise allows.
Moves == {<<"open", "void">>, <<"open", "paid">>, <<"paid", "working">>,
          <<"working", "closing">>, <<"working", "ended">>, <<"closing", "ended">>}

\* The map of the phases when one run moves.
LEMMA MovedAt ==
  ASSUME NEW t \in Tasks, \A u \in Tasks : u # t => Phase(u)' = Phase(u)
  PROVE  [u \in Tasks |-> Phase(u)]' = [[u \in Tasks |-> Phase(u)] EXCEPT ![t] = Phase(t)']
OBVIOUS

\* A move of one run is a step of the promise.
LEMMA OneMoves ==
  ASSUME NEW t \in Tasks, recorded' = recorded, \A u \in Tasks : u # t => Phase(u)' = Phase(u),
         Phase(t)' = Phase(t) \/ <<Phase(t), Phase(t)'>> \in Moves
  PROVE  [Promise!Next]_(Promise!vars)
<1>1. CASE Phase(t)' = Phase(t)
  BY <1>1, Unseen
<1>2. CASE <<Phase(t), Phase(t)'>> \in Moves
  <2>1. [u \in Tasks |-> Phase(u)][t] = Phase(t)
    OBVIOUS
  <2>2. Promise!Advance(t)
    BY <1>2, <2>1, MovedAt
       DEF Moves, Promise!Advance, Promise!Move, Promise!GiveUp, Promise!Pay, Promise!Start,
           Promise!Stop, Promise!End
  <2> QED BY <2>2 DEF Promise!Next
<1> QED BY <1>1, <1>2

\* Stopped runs whose check at hand is dropped end, however many there are.
LEMMA Dropped ==
  ASSUME recorded' = recorded,
         \A t \in Tasks : Phase(t)' = Phase(t) \/ (Phase(t) = "closing" /\ Phase(t)' = "ended")
  PROVE  [Promise!Next]_(Promise!vars)
<1> DEFINE Over == {t \in Tasks : Phase(t) = "closing" /\ Phase(t)' = "ended"}
<1>1. [t \in Tasks |-> Phase(t)]' = [t \in Tasks |-> IF t \in Over THEN "ended"
                                                     ELSE [u \in Tasks |-> Phase(u)][t]]
  OBVIOUS
<1>2. Over \in SUBSET {t \in Tasks : [u \in Tasks |-> Phase(u)][t] = "closing"}
  OBVIOUS
<1>3. Promise!EndAll
  BY <1>1, <1>2 DEF Promise!EndAll
<1> QED BY <1>3 DEF Promise!Next

\* What a step of a handler moves: it looks at one run.
LEMMA HandleMoves ==
  ASSUME TypeOK, Paying, NEW h \in Handlers, Handle(h)
  PROVE  [Promise!Next]_(Promise!vars)
<1> USE DEF ledger, tables
<1>1. UNCHANGED <<recorded, batch, cur, mode>>
  BY HandleFrame DEF runner
<1>2. \A t \in Tasks : AtHand(t)' = AtHand(t)
  BY <1>1 DEF AtHand
<1>3. ASSUME UNCHANGED <<payment, status>> PROVE [Promise!Next]_(Promise!vars)
  BY <1>1, <1>2, <1>3, Unseen DEF Phase, Sold
<1>4. ASSUME NEW t \in Tasks, NEW p \in Payments, payment' = [payment EXCEPT ![t] = p], UNCHANGED status,
             payment[t] # "settled", payment[t] # "failed"
      PROVE  [Promise!Next]_(Promise!vars)
  <2>1. \A u \in Tasks : u # t => Phase(u)' = Phase(u)
    BY <1>2, <1>4 DEF Phase, Sold, TypeOK
  <2>2. payment'[t] = p /\ status[t] \in Fresh
    BY <1>4 DEF TypeOK, Paying, StartedIsPaid, Fresh
  <2>3. Phase(t) = "open" /\ Phase(t)' \in {"open", "paid", "void"}
    BY <1>4, <2>2 DEF Phase, Sold, Fresh, Ended
  <2> QED BY <1>1, <2>1, <2>3, OneMoves DEF Moves
<1>5. ASSUME NEW t \in Tasks, NEW s \in Statuses, status' = [status EXCEPT ![t] = s], UNCHANGED payment
      PROVE  /\ \A u \in Tasks : u # t => Phase(u)' = Phase(u)
             /\ status'[t] = s
  BY <1>2, <1>5 DEF Phase, Sold, TypeOK
<1>6. ASSUME NEW t \in Tasks, Buy(h, t) PROVE [Promise!Next]_(Promise!vars)
  BY <1>4, <1>6 DEF Buy, Payments
<1>7. ASSUME NEW t \in Tasks, BuyAgain(h, t) \/ StopRead(h, t) PROVE [Promise!Next]_(Promise!vars)
  BY <1>3, <1>7 DEF BuyAgain, StopRead
<1>8. CASE Refuse(h)
  <2>1. at[h] \in Tasks /\ payment[at[h]] = "pending"
    BY <1>8 DEF Refuse, OverLimit, TypeOK, Paying, Selling
  <2> QED BY <1>4, <1>8, <2>1 DEF Refuse, Payments
<1>9. CASE SettlePaid(h) \/ SettleUnpaid(h)
  <2>1. at[h] \in Tasks /\ payment[at[h]] = "pending"
    BY <1>9 DEF SettlePaid, SettleUnpaid, TypeOK, Paying, Selling
  <2> QED BY <1>4, <1>9, <2>1 DEF SettlePaid, SettleUnpaid, Payments
<1>10. CASE Create(h)
  <2>1. PICK t \in Tasks : t = at[h]
    BY <1>10 DEF Create, TypeOK
  <2>2. CASE status[t] = "none"
    <3>1. status' = [status EXCEPT ![t] = "awaiting_payment"] /\ UNCHANGED payment
      BY <1>10, <2>1, <2>2 DEF Create, FreshStatus
    <3>2. status'[t] = "awaiting_payment" /\ \A u \in Tasks : u # t => Phase(u)' = Phase(u)
      <4>1. "awaiting_payment" \in Statuses
        BY DEF Statuses
      <4> QED BY <1>5, <2>1, <3>1, <4>1
    <3>3. Phase(t)' = Phase(t)
      BY <2>2, <3>1, <3>2 DEF Phase, Sold, Ended
    <3> QED BY <1>1, <2>1, <3>2, <3>3, OneMoves
  <2>3. CASE status[t] # "none"
    BY <1>3, <1>10, <2>1, <2>3 DEF Create, TypeOK
  <2> QED BY <2>2, <2>3
<1>11. CASE ActivateWrite(h)
  <2>1. PICK t \in Tasks : t = at[h] /\ payment[t] = "settled" /\ UNCHANGED payment
    BY <1>11 DEF ActivateWrite, TypeOK, Paying
  <2>2. CASE status[t] = "awaiting_payment"
    <3>1. status' = [status EXCEPT ![t] = "running"]
      BY <1>11, <2>1, <2>2 DEF ActivateWrite, Starts
    <3>2. status'[t] = "running" /\ \A u \in Tasks : u # t => Phase(u)' = Phase(u)
      <4>1. "running" \in Statuses
        BY DEF Statuses
      <4> QED BY <1>5, <2>1, <3>1, <4>1
    <3>3. Phase(t) = "paid" /\ Phase(t)' = "working"
      BY <2>1, <2>2, <3>2 DEF Phase, Sold, Ended
    <3> QED BY <1>1, <2>1, <3>2, <3>3, OneMoves DEF Moves
  <2>3. CASE status[t] # "awaiting_payment"
    BY <1>3, <1>11, <2>1, <2>3 DEF ActivateWrite, Starts, TypeOK
  <2> QED BY <2>2, <2>3
<1>12. CASE StopWrite(h)
  <2>1. PICK t \in Tasks : t = at[h] /\ status[t] \notin Fresh /\ UNCHANGED payment
    BY <1>12 DEF StopWrite, TypeOK, Paying
  <2>2. status' = [status EXCEPT ![t] = "stopped"]
    BY <1>12, <2>1 DEF StopWrite
  <2>3. status'[t] = "stopped" /\ \A u \in Tasks : u # t => Phase(u)' = Phase(u)
    <3>1. "stopped" \in Statuses
      BY DEF Statuses
    <3> QED BY <1>5, <2>1, <2>2, <3>1
  <2>4. Phase(t)' = IF AtHand(t) THEN "closing" ELSE "ended"
    BY <1>2, <2>1, <2>3 DEF Phase, Ended
  <2>5. Phase(t) = "working" \/ Phase(t) = IF AtHand(t) THEN "closing" ELSE "ended"
    BY <2>1 DEF Phase, Fresh, Ended, Statuses, TypeOK
  <2> QED BY <1>1, <2>1, <2>3, <2>4, <2>5, OneMoves DEF Moves
<1>13. CASE Accept(h) \/ Deliver(h) \/ ActivateRead(h) \/ AlreadyActive(h)
  BY <1>3, <1>13 DEF Accept, Deliver, ActivateRead, AlreadyActive
<1> QED BY <1>6, <1>7, <1>8, <1>9, <1>10, <1>11, <1>12, <1>13 DEF Handle

\* The runner ends, or leaves, the run it puts aside.
LEMMA PutAside ==
  ASSUME TypeOK, Paying, NEW t \in Tasks, t \in batch \/ t = cur, UNCHANGED <<payment, recorded>>,
         \A u \in Tasks : u # t => status'[u] = status[u] /\ AtHand(u)' = AtHand(u),
         \/ status'[t] = status[t] /\ (AtHand(t)' => AtHand(t))
         \/ status'[t] \in Ended /\ ~AtHand(t)'
  PROVE  [Promise!Next]_(Promise!vars)
<1>1. \A u \in Tasks : u # t => Phase(u)' = Phase(u)
  BY DEF Phase, Sold
<1>2. status[t] \in {"running"} \cup Ended
  BY DEF TypeOK, Paying, Fresh, Ended, Statuses
<1>3. CASE status'[t] = status[t] /\ (AtHand(t)' => AtHand(t))
  <2>1. Phase(t)' = Phase(t) \/ (Phase(t) = "closing" /\ Phase(t)' = "ended")
    BY <1>2, <1>3 DEF Phase
  <2> QED BY <1>1, <2>1, OneMoves DEF Moves
<1>4. CASE status'[t] \in Ended /\ ~AtHand(t)'
  <2>1. Phase(t)' = "ended" /\ Phase(t) \in {"working", "closing", "ended"}
    BY <1>2, <1>4 DEF Phase, Ended
  <2> QED BY <1>1, <2>1, OneMoves DEF Moves
<1> QED BY <1>3, <1>4

\* A check written down is written down in the promise, unless a crash before its
\* count made the runner write it once more.
LEMMA RecordMoves ==
  ASSUME TypeOK, Paying, Current, InOrder, Record
  PROVE  [Promise!Next]_(Promise!vars)
<1>1. PICK t \in Tasks : t = cur /\ t \notin batch /\ recorded' = [recorded EXCEPT ![t] = 1..(done[t] + 1)]
  BY RecordNext
<1>2. UNCHANGED <<payment, status, batch, cur>> /\ mode = "record" /\ mode' = "count"
  BY DEF Record, ledger
<1>3. \A u \in Tasks : u # t => Phase(u)' = Phase(u)
  BY <1>1, <1>2 DEF Phase, Sold, AtHand
<1>4. AtHand(t) /\ ~AtHand(t)'
  BY <1>1, <1>2 DEF AtHand
<1>5. status[t] \in {"running"} \cup Ended
  BY <1>1 DEF TypeOK, Paying, Fresh, Ended, Statuses
<1>6. \/ Phase(t) = "working" /\ Phase(t)' = "working"
      \/ Phase(t) = "closing" /\ Phase(t)' = "ended"
  BY <1>2, <1>4, <1>5 DEF Phase, Ended
<1>7. CASE recorded[t] = 1..(done[t] + 1)
  <2>1. recorded' = recorded
    BY <1>1, <1>7 DEF TypeOK
  <2>2. Phase(t)' = Phase(t) \/ <<Phase(t), Phase(t)'>> \in Moves
    BY <1>6 DEF Moves
  <2> QED BY <1>1, <1>3, <2>1, <2>2, OneMoves
<1>8. CASE recorded[t] = 1..done[t]
  <2>1. done[t] \in Nat
    BY <1>1 DEF TypeOK
  <2>2. done[t] \in recorded[t] \cup {0}
    BY <1>8, <2>1
  <2>3. [u \in Tasks |-> Phase(u)]' = [[u \in Tasks |-> Phase(u)] EXCEPT ![t] = Phase(t)']
    BY <1>1, <1>2, <1>3
  <2>4. Promise!WriteDown(t)
    <3>1. CASE Phase(t) = "working" /\ Phase(t)' = "working"
      <4>1. [u \in Tasks |-> Phase(u)]' = [u \in Tasks |-> Phase(u)]
        BY <1>3, <3>1
      <4>2. [u \in Tasks |-> Phase(u)][t] = "working"
        BY <1>1, <3>1
      <4> QED BY <1>1, <1>8, <2>2, <4>1, <4>2 DEF Promise!WriteDown
    <3>2. CASE Phase(t) = "closing" /\ Phase(t)' = "ended"
      BY <1>1, <1>8, <2>2, <2>3, <3>2 DEF Promise!WriteDown, Promise!Move
    <3> QED BY <1>6, <3>1, <3>2
  <2> QED BY <1>1, <2>4 DEF Promise!Next
<1> QED BY <1>1, <1>7, <1>8 DEF InOrder

\* What a step of the runner in a pass moves.
LEMMA PassMoves ==
  ASSUME TypeOK, Paying, Current, InOrder, Pass
  PROVE  [Promise!Next]_(Promise!vars)
<1> USE DEF ledger, tables, AtHand
<1>1. UNCHANGED payment
  BY PassFrame DEF ledger
<1>2. cur \notin batch /\ (mode \in {"run", "sweep"} => cur = None) /\ (mode \notin {"idle", "run", "sweep"} => cur \in Tasks)
  BY DEF TypeOK, Current
<1>3. ASSUME UNCHANGED <<status, recorded>>, \A t \in Tasks : AtHand(t)' = AtHand(t)
      PROVE  [Promise!Next]_(Promise!vars)
  BY <1>1, <1>3, Unseen DEF Phase, Sold
<1>4. CASE PassDone
  BY <1>3, <1>4 DEF PassDone
<1>5. CASE Answered \/ Unanswered
  BY <1>3, <1>5 DEF Answered, Unanswered
<1>6. CASE Count \/ Note
  BY <1>3, <1>6 DEF Count, Note
<1>7. CASE Retry
  <2>1. UNCHANGED <<status, recorded, batch>> /\ cur' = None /\ mode' = "run" /\ mode = "retry"
    BY <1>7 DEF Retry, CheckDone
  <2> QED BY <1>1, <1>2, <2>1, PutAside
<1>8. CASE Complete \/ StopFailing
  <2>1. PICK s \in Ended : Finish(cur, s)
    BY <1>8 DEF Complete, StopFailing, Ended
  <2>2. UNCHANGED <<recorded, batch>> /\ cur' = None /\ mode' = "run" /\ mode = "close"
    BY <1>8 DEF Complete, StopFailing, Close, CheckDone
  <2>3. status'[cur] = s /\ \A u \in Tasks : u # cur => status'[u] = status[u]
    BY <1>2, <2>1, <2>2 DEF Finish, TypeOK
  <2> QED BY <1>1, <1>2, <2>2, <2>3, PutAside
<1>9. CASE Advance
  <2>1. UNCHANGED <<status, recorded, batch>> /\ cur' = None /\ mode' = "run" /\ mode = "close"
    BY <1>9 DEF Advance, Close, CheckDone
  <2> QED BY <1>1, <1>2, <2>1, PutAside
<1>10. ASSUME NEW t \in Tasks, SkipOver(t) \/ SweepOver(t) PROVE [Promise!Next]_(Promise!vars)
  <2>1. PICK s \in Ended : Finish(t, s)
    BY <1>10 DEF SkipOver, SweepOver, CloseOver, Ended
  <2>2. UNCHANGED <<recorded, cur, mode>> /\ batch' = batch \ {t} /\ t \in batch /\ mode \in {"run", "sweep"}
    BY <1>10 DEF SkipOver, SweepOver
  <2>3. status'[t] = s /\ \A u \in Tasks : u # t => status'[u] = status[u]
    BY <2>1 DEF Finish, TypeOK
  <2> QED BY <1>1, <1>2, <2>2, <2>3, PutAside
<1>11. ASSUME NEW t \in Tasks, SweepKeep(t) PROVE [Promise!Next]_(Promise!vars)
  <2>1. UNCHANGED <<status, recorded, cur, mode>> /\ batch' = batch \ {t} /\ t \in batch /\ mode = "sweep"
    BY <1>11 DEF SweepKeep
  <2> QED BY <1>1, <1>2, <2>1, PutAside
<1>12. ASSUME NEW t \in Tasks, Call(t) PROVE [Promise!Next]_(Promise!vars)
  <2>1. UNCHANGED <<status, recorded>> /\ batch' = batch \ {t} /\ t \in batch /\ cur' = t
        /\ mode = "run" /\ mode' = "answer"
    BY <1>12 DEF Call
  <2> QED BY <1>2, <1>3, <2>1
<1> QED BY <1>4, <1>5, <1>6, <1>7, <1>8, <1>9, <1>10, <1>11, <1>12, RecordMoves DEF Pass

\* Every step is one of the promise, or none of its business.
LEMMA PromiseStep ==
  ASSUME TypeOK, Paying, Current, InOrder, [Next]_vars
  PROVE  [Promise!Next]_(Promise!vars)
<1> USE DEF ledger, tables, runner
<1>1. ASSUME UNCHANGED <<payment, status, recorded>>, NEW S \in SUBSET Running, batch' = S,
             cur' = None, mode' \in {"idle", "run", "sweep"}
      PROVE  [Promise!Next]_(Promise!vars)
  <2>1. \A t \in Tasks : status[t] \in Ended => ~AtHand(t)'
    BY <1>1 DEF AtHand, Running, Ended
  <2>2. \A t \in Tasks : Phase(t)' = Phase(t) \/ (Phase(t) = "closing" /\ Phase(t)' = "ended")
    BY <1>1, <2>1 DEF Phase, Sold
  <2> QED BY <1>1, <2>2, Dropped
<1>2. CASE TakeBatch
  <2>1. batch' \in SUBSET Running /\ mode' = "run" /\ cur' = None /\ UNCHANGED <<payment, status, recorded>>
    BY <1>2 DEF TakeBatch, ReadRows, Due, TypeOK
  <2> QED BY <1>1, <2>1
<1>3. CASE SweepStart
  <2>1. batch' \in SUBSET Running /\ mode' = "sweep" /\ cur' = None /\ UNCHANGED <<payment, status, recorded>>
    BY <1>3 DEF SweepStart, ReadRows, TypeOK
  <2> QED BY <1>1, <2>1
<1>4. CASE AbortPass \/ Crash
  <2>1. batch' = {} /\ mode' = "idle" /\ cur' = None /\ UNCHANGED <<payment, status, recorded>>
    BY <1>4 DEF AbortPass, Crash, StopPass
  <2> QED BY <1>1, <2>1
<1>5. ASSUME UNCHANGED <<payment, status, recorded, batch, cur, mode>> PROVE [Promise!Next]_(Promise!vars)
  BY <1>5, Unseen DEF Phase, Sold, AtHand
<1>6. ASSUME NEW t \in Tasks, Finalize(t) PROVE [Promise!Next]_(Promise!vars)
  <2>1. PICK p \in {"settled", "failed"} : payment' = [payment EXCEPT ![t] = p]
    BY <1>6 DEF Finalize
  <2>2. UNCHANGED <<status, recorded, batch, cur, mode>> /\ payment[t] = "lost"
    BY <1>6 DEF Finalize
  <2>3. payment'[t] = p /\ \A u \in Tasks : u # t => Phase(u)' = Phase(u)
    BY <2>1, <2>2 DEF Phase, Sold, AtHand, TypeOK
  <2>4. status[t] \in Fresh
    BY <2>2 DEF Paying, StartedIsPaid, Fresh
  <2>5. Phase(t) = "open" /\ Phase(t)' \in {"paid", "void"}
    BY <2>2, <2>3, <2>4 DEF Phase, Sold, Fresh, Ended
  <2> QED BY <2>2, <2>3, <2>5, OneMoves DEF Moves
<1>7. ASSUME NEW t \in Tasks, DueNow(t) \/ WindowOver(t) PROVE [Promise!Next]_(Promise!vars)
  BY <1>5, <1>7 DEF DueNow, WindowOver
<1>8. CASE DayPasses
  BY <1>5, <1>8 DEF DayPasses
<1>9. ASSUME NEW h \in Handlers, Abort(h) PROVE [Promise!Next]_(Promise!vars)
  BY <1>5, <1>9 DEF Abort
<1>10. CASE UNCHANGED vars
  BY <1>5, <1>10 DEF vars
<1> QED BY <1>2, <1>3, <1>4, <1>6, <1>7, <1>8, <1>9, <1>10, HandleMoves, PassMoves DEF Next, Outside

\* The promise is kept: no work before the sale settled, none again after the run
\* ended, checks numbered without a gap, and one more at most of a run that was
\* stopped meanwhile (tasks.py activate, stop, run_one).
THEOREM RunsKeepPromise == Spec => KeepsPromise
<1>1. Init => Promise!Init
  BY DEF Init, Promise!Init, Phase, Sold, Ended
<1>2. Init => InOrder
  BY DEF Init, InOrder
<1>3. RunsInvariant /\ InOrder /\ [Next]_vars => InOrder'
  BY OrderStep DEF RunsInvariant
<1>4. Spec => []InOrder
  BY <1>2, <1>3, RunsInvariantHolds, PTL DEF Spec
<1>5. RunsInvariant /\ InOrder /\ [Next]_vars => [Promise!Next]_(Promise!vars)
  BY PromiseStep DEF RunsInvariant
<1> QED BY <1>1, <1>4, <1>5, RunsInvariantHolds, PTL DEF Spec, Promise!Spec, KeepsPromise

===============================================================================
