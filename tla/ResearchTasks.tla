---------------------------- MODULE ResearchTasks ----------------------------
(***************************************************************************)
(* The paid research runs of celo/tasks.py, bought through task_create of  *)
(* celo/routes.py. Handlers sell, activate and stop the runs of one        *)
(* wallet; one runner thread takes batches of due runs, asks the model for *)
(* one check of each, and closes runs whose window is over.                *)
(*                                                                         *)
(* The payment of a run is reduced to what X402Sale shows of it: one       *)
(* handler sells, a lost reply is decided later, a settled sale that was   *)
(* not delivered is delivered on a retry, by several handlers at once.     *)
(* Handlers and runner are cut between their database statements.          *)
(***************************************************************************)
EXTENDS Naturals, FiniteSets

CONSTANTS
  Tasks,        \* the runs one wallet may buy: one (payer, nonce) each
  Handlers,     \* HTTP handlers that may run at the same time
  None,         \* no run at hand
  Total,        \* checks paid for in each run, checks_total
  MaxRunning,   \* MAX_RUNNING_PER_PAYER
  RunBatch,     \* RUN_BATCH
  DailyBudget,  \* DAILY_CHECK_BUDGET
  MaxAttempts,  \* MAX_ATTEMPTS_PER_CHECK
  MaxFails,     \* MAX_CONSECUTIVE_FAILS
  MaxCrashes    \* bound on server restarts and uncaught exceptions

ASSUME RunsAssumption ==
  /\ None \notin Tasks
  /\ IsFiniteSet(Tasks)
  /\ Total \in Nat \ {0} /\ MaxRunning \in Nat \ {0} /\ RunBatch \in Nat \ {0}
  /\ DailyBudget \in Nat /\ MaxAttempts \in Nat \ {0} /\ MaxFails \in Nat \ {0}
  /\ MaxCrashes \in Nat

VARIABLES
  \* the ledger, as far as the run depends on it
  payment,    \* [Tasks -> Payments]
  delivered,  \* the sale is marked delivered
  \* table x402_tasks and x402_task_runs
  status,     \* [Tasks -> Statuses], "none": no row
  done,       \* checks_done
  meta,       \* meta_json: the check tried last, its attempts, failures in a row
  next,       \* next_run_at: none, in the future, or reached
  recorded,   \* the checks with a row in x402_task_runs
  \* the clock
  over,       \* the run's window and its grace are past
  today,      \* rows of x402_task_runs in the last 24 hours
  \* HTTP handlers
  pc, at, role,
  \* the runner thread
  mode,       \* its step
  batch,      \* the runs it still has to look at in this pass
  row,        \* the rows as due_tasks or sweep_stale read them
  cur,        \* the run whose check is at hand
  ok,         \* its check got an answer
  \* observations
  called,     \* model calls made
  crashes

ledger  == <<payment, delivered>>
tables  == <<status, done, meta, next, recorded>>
clock   == <<over, today>>
http    == <<pc, at, role>>
runner  == <<mode, batch, row, cur, ok>>
history == <<called, crashes>>
vars    == <<ledger, tables, clock, http, runner, history>>

Payments == {"none", "pending", "lost", "settled", "failed"}
Statuses == {"none", "awaiting_payment", "running", "stopped", "completed", "failed"}
Ended    == {"stopped", "completed", "failed"}
Steps    == {"idle", "count", "create", "settle", "deliver", "activate", "write", "stop"}
Modes    == {"idle", "run", "sweep", "answer", "retry", "record", "count", "note",
             "close"}
Meta     == [seq : Nat, attempts : Nat, fails : Nat]
NewMeta  == [seq |-> 0, attempts |-> 0, fails |-> 0]
Row      == [done : Nat, meta : Meta]
NewRow   == [done |-> 0, meta |-> NewMeta]
RowOf(t) == [done |-> done[t], meta |-> meta[t]]

TypeOK ==
  /\ payment \in [Tasks -> Payments]     /\ delivered \in [Tasks -> BOOLEAN]
  /\ status \in [Tasks -> Statuses]      /\ done \in [Tasks -> Nat]
  /\ meta \in [Tasks -> Meta]            /\ next \in [Tasks -> {"none", "later", "due"}]
  /\ recorded \in [Tasks -> SUBSET Nat]
  /\ over \in [Tasks -> BOOLEAN]         /\ today \in Nat
  /\ pc \in [Handlers -> Steps]          /\ at \in [Handlers -> Tasks \cup {None}]
  /\ role \in [Handlers -> {"none", "sale", "retry"}]
  /\ mode \in Modes                      /\ batch \in SUBSET Tasks
  /\ row \in [Tasks -> Row]              /\ cur \in Tasks \cup {None} /\ ok \in BOOLEAN
  /\ \A h \in Handlers : pc[h] = "idle" <=> at[h] = None
  /\ mode \in {"idle", "run", "sweep"} <=> cur = None
  /\ called \in [Tasks -> Nat]           /\ crashes \in 0..MaxCrashes

Init ==
  /\ payment = [t \in Tasks |-> "none"]  /\ delivered = [t \in Tasks |-> FALSE]
  /\ status = [t \in Tasks |-> "none"]   /\ done = [t \in Tasks |-> 0]
  /\ meta = [t \in Tasks |-> NewMeta]    /\ next = [t \in Tasks |-> "none"]
  /\ recorded = [t \in Tasks |-> {}]
  /\ over = [t \in Tasks |-> FALSE]      /\ today = 0
  /\ pc = [h \in Handlers |-> "idle"]    /\ at = [h \in Handlers |-> None]
  /\ role = [h \in Handlers |-> "none"]
  /\ mode = "idle" /\ batch = {} /\ cur = None /\ ok = FALSE
  /\ row = [t \in Tasks |-> NewRow]
  /\ called = [t \in Tasks |-> 0]        /\ crashes = 0

-------------------------------------------------------------------------------
(* Buying a run. *)

Goto(h, step) == /\ pc' = [pc EXCEPT ![h] = step]
                 /\ UNCHANGED <<at, role>>

Start(h, t, as, step) == /\ pc[h] = "idle"
                         /\ pc' = [pc EXCEPT ![h] = step]
                         /\ at' = [at EXCEPT ![h] = t]
                         /\ role' = [role EXCEPT ![h] = as]

Leave(h) == /\ pc' = [pc EXCEPT ![h] = "idle"]
            /\ at' = [at EXCEPT ![h] = None]
            /\ role' = [role EXCEPT ![h] = "none"]

\* The gate books a new payment, or lets a settled, undelivered one through.
Buy(h, t) == /\ payment[t] = "none"
             /\ Start(h, t, "sale", "count")
             /\ payment' = [payment EXCEPT ![t] = "pending"]
             /\ UNCHANGED <<delivered, tables, clock, runner, history>>

BuyAgain(h, t) == /\ payment[t] = "settled" /\ ~delivered[t]
                  /\ Start(h, t, "retry", "count")
                  /\ UNCHANGED <<ledger, tables, clock, runner, history>>

Running == {t \in Tasks : status[t] = "running"}

\* Too many running: refused before settlement. A paid retry goes on.
OverLimit(h) == Cardinality(Running) >= MaxRunning /\ role[h] = "sale"

Refuse(h) == /\ pc[h] = "count"
             /\ OverLimit(h)
             /\ payment' = [payment EXCEPT ![at[h]] = "failed"]
             /\ Leave(h)
             /\ UNCHANGED <<delivered, tables, clock, runner, history>>

Accept(h) == /\ pc[h] = "count"
             /\ ~OverLimit(h)
             /\ Goto(h, "create")
             /\ UNCHANGED <<ledger, tables, clock, runner, history>>

\* Mutant: a new run starts at once.
FreshRunning == "running"
\* A new row waits for the settlement.
FreshStatus == "awaiting_payment"

\* create(): the row there is, or a new one.
Create(h) == /\ pc[h] = "create"
             /\ status' = [status EXCEPT ![at[h]] = IF @ = "none" THEN FreshStatus ELSE @]
             /\ Goto(h, IF role[h] = "sale" THEN "settle" ELSE "deliver")
             /\ UNCHANGED <<ledger, done, meta, next, recorded, clock, runner, history>>

SettlePaid(h) == /\ pc[h] = "settle"
                 /\ payment' = [payment EXCEPT ![at[h]] = "settled"]
                 /\ Goto(h, "deliver")
                 /\ UNCHANGED <<delivered, tables, clock, runner, history>>

\* task_create returns any answer of _deliver but a 200 as it is.
SettleUnpaid(h) == /\ pc[h] = "settle"
                   /\ \E outcome \in {"lost", "failed"} :
                        payment' = [payment EXCEPT ![at[h]] = outcome]
                   /\ Leave(h)
                   /\ UNCHANGED <<delivered, tables, clock, runner, history>>

\* finalize_one decides a lost reply.
Finalize(t) == /\ payment[t] = "lost"
               /\ \E outcome \in {"settled", "failed"} :
                    payment' = [payment EXCEPT ![t] = outcome]
               /\ UNCHANGED <<delivered, tables, clock, http, runner, history>>

Deliver(h) == /\ pc[h] = "deliver"
              /\ delivered' = [delivered EXCEPT ![at[h]] = TRUE]
              /\ Goto(h, "activate")
              /\ UNCHANGED <<payment, tables, clock, runner, history>>

\* Mutant: only the first delivery starts the run.
WaitsForSale(h) == status[at[h]] = "awaiting_payment" /\ role[h] = "sale"
Waits(h) == status[at[h]] = "awaiting_payment"

\* activate() reads the row ...
ActivateRead(h) == /\ pc[h] = "activate"
                   /\ Waits(h)
                   /\ Goto(h, "write")
                   /\ UNCHANGED <<ledger, tables, clock, runner, history>>

AlreadyActive(h) == /\ pc[h] = "activate"
                    /\ ~Waits(h)
                    /\ Leave(h)
                    /\ UNCHANGED <<ledger, tables, clock, runner, history>>

\* Mutant: the update does not look at the status again.
StartsAlways(t) == TRUE
\* ... and its update looks at the status once more.
Starts(t) == status[t] = "awaiting_payment"

ActivateWrite(h) ==
  /\ pc[h] = "write"
  /\ status' = [status EXCEPT ![at[h]] = IF Starts(at[h]) THEN "running" ELSE @]
  /\ next' = [next EXCEPT ![at[h]] = IF Starts(at[h]) THEN "due" ELSE @]
  /\ Leave(h)
  /\ UNCHANGED <<ledger, done, meta, recorded, clock, runner, history>>

\* stop(): the row is read, then written without a condition.
StopRead(h, t) == /\ status[t] = "running"
                  /\ Start(h, t, "none", "stop")
                  /\ UNCHANGED <<ledger, tables, clock, runner, history>>

StopWrite(h) == /\ pc[h] = "stop"
                /\ status' = [status EXCEPT ![at[h]] = "stopped"]
                /\ next' = [next EXCEPT ![at[h]] = "none"]
                /\ Leave(h)
                /\ UNCHANGED <<ledger, done, meta, recorded, clock, runner, history>>

-------------------------------------------------------------------------------
(* The runner: a pass of run_due over a batch of due runs.                   *)

\* Mutant: no run is ever too old.
NeverOver(t) == FALSE
\* Past the run's window and its grace.
Expired(t) == over[t]

\* Mutant: the budget is not looked at.
NoBudget == TRUE
BudgetOk == today < DailyBudget

Due == {t \in Running : next[t] = "due"}

\* The rows are read once; a run stopped meanwhile is still looked at.
ReadRows(S) == /\ batch' = S
               /\ row' = [t \in Tasks |-> IF t \in S THEN RowOf(t) ELSE NewRow]

TakeBatch == /\ mode = "idle"
             /\ BudgetOk
             /\ \E S \in SUBSET Due : /\ S # {}
                                     /\ (S = Due \/ Cardinality(S) = RunBatch)
                                     /\ Cardinality(S) <= RunBatch
                                     /\ ReadRows(S)
             /\ mode' = "run"
             /\ UNCHANGED <<cur, ok, ledger, tables, clock, http, history>>

PassDone == /\ mode \in {"run", "sweep"}
            /\ batch = {}
            /\ mode' = "idle"
            /\ UNCHANGED <<batch, row, cur, ok, ledger, tables, clock, http, history>>

\* _finish(): whatever the status was.
Finish(t, st) == /\ status' = [status EXCEPT ![t] = st]
                 /\ next' = [next EXCEPT ![t] = "none"]

CloseOver(t) == Finish(t, IF row[t].done > 0 THEN "completed" ELSE "failed")

\* Mutant: numbered after the check tried last, not after the last one done.
AfterLastTried(t) == row[t].meta.seq + 1
\* The number of the check at hand.
Seq(t) == row[t].done + 1

\* Past the window: the run is closed without a check.
SkipOver(t) == /\ mode = "run" /\ t \in batch
               /\ Expired(t)
               /\ CloseOver(t)
               /\ batch' = batch \ {t}
               /\ UNCHANGED <<mode, row, cur, ok, ledger, done, meta, recorded,
                              clock, http, history>>

Call(t) == /\ mode = "run" /\ t \in batch
           /\ ~Expired(t)
           /\ called' = [called EXCEPT ![t] = @ + 1]
           /\ batch' = batch \ {t}
           /\ cur' = t
           /\ mode' = "answer"
           /\ UNCHANGED <<row, ok, ledger, tables, clock, http, crashes>>

Answered == /\ mode = "answer"
            /\ ok' = TRUE
            /\ mode' = "record"
            /\ UNCHANGED <<batch, row, cur, ledger, tables, clock, http, history>>

\* Mutant: the attempts before are forgotten.
FirstAttempt(t) == 1
\* The attempts at this check, this one included.
Attempts(t) == IF row[t].meta.seq = Seq(t) THEN row[t].meta.attempts + 1 ELSE 1

\* No billable answer: the attempt is noted; after the last one the check is
\* given up.
Unanswered == /\ mode = "answer"
              /\ meta' = [meta EXCEPT ![cur] =
                   [seq |-> Seq(cur), attempts |-> Attempts(cur), fails |-> @.fails]]
              /\ ok' = FALSE
              /\ mode' = IF Attempts(cur) >= MaxAttempts THEN "record" ELSE "retry"
              /\ UNCHANGED <<batch, row, cur, ledger, status, done, next, recorded,
                             clock, http, history>>

\* Mutant: the check stays at hand.
CheckKept == /\ mode' = "run"
             /\ UNCHANGED <<batch, row, cur, ok>>
\* The check at hand is over; on to the next run.
CheckDone == /\ mode' = "run"
             /\ cur' = None
             /\ ok' = FALSE
             /\ UNCHANGED <<batch, row>>

Later(t) == next' = [next EXCEPT ![t] = "later"]

Retry == /\ mode = "retry"
         /\ Later(cur)
         /\ CheckDone
         /\ UNCHANGED <<ledger, status, done, meta, recorded, clock, http, history>>

\* Mutant: only reports are recorded.
RecordReport(t) == IF ok THEN {Seq(t)} ELSE {}
RecordCheck(t) == {Seq(t)}

\* _record_run, then checks_done, then the metadata.
Record == /\ mode = "record"
          /\ recorded' = [recorded EXCEPT ![cur] = @ \cup RecordCheck(cur)]
          /\ today' = today + 1
          /\ mode' = "count"
          /\ UNCHANGED <<batch, row, cur, ok, ledger, status, done, meta, next,
                         over, http, history>>

Count == /\ mode = "count"
         /\ done' = [done EXCEPT ![cur] = @ + 1]
         /\ mode' = "note"
         /\ UNCHANGED <<batch, row, cur, ok, ledger, status, meta, next, recorded,
                        clock, http, history>>

\* Mutant: a check given up does not count as a failure in a row.
FailsForgotten(t) == 0
FailsNow(t) == IF ok THEN 0 ELSE row[t].meta.fails + 1

Note == /\ mode = "note"
        /\ meta' = [meta EXCEPT ![cur] =
             [seq |-> IF ok THEN Seq(cur) ELSE @.seq, attempts |-> 0, fails |-> FailsNow(cur)]]
        /\ mode' = "close"
        /\ UNCHANGED <<batch, row, cur, ok, ledger, status, done, next, recorded,
                       clock, http, history>>

Close == /\ CheckDone
         /\ UNCHANGED <<ledger, done, meta, recorded, clock, http, history>>

\* After a report the counter is read again; a check that was given up does
\* not look at it.
Complete == /\ mode = "close"
            /\ ok /\ done[cur] >= Total
            /\ Finish(cur, "completed")
            /\ Close

StopFailing == /\ mode = "close"
               /\ ~ok /\ FailsNow(cur) >= MaxFails
               /\ Finish(cur, "failed")
               /\ Close

Advance == /\ mode = "close"
           /\ IF ok THEN done[cur] < Total ELSE FailsNow(cur) < MaxFails
           /\ Later(cur)
           /\ UNCHANGED status
           /\ Close

-------------------------------------------------------------------------------
(* sweep_stale: runs whose window is over are closed.                        *)

SweepStart == /\ mode = "idle"
              /\ Running # {}
              /\ ReadRows(Running)
              /\ mode' = "sweep"
              /\ UNCHANGED <<cur, ok, ledger, tables, clock, http, history>>

SweepOver(t) == /\ mode = "sweep" /\ t \in batch
                /\ Expired(t)
                /\ CloseOver(t)
                /\ batch' = batch \ {t}
                /\ UNCHANGED <<mode, row, cur, ok, ledger, done, meta, recorded,
                               clock, http, history>>

SweepKeep(t) == /\ mode = "sweep" /\ t \in batch
                /\ ~Expired(t)
                /\ batch' = batch \ {t}
                /\ UNCHANGED <<mode, row, cur, ok, ledger, tables, clock, http, history>>

-------------------------------------------------------------------------------
(* The clock and the process. *)

DueNow(t) == /\ next[t] = "later"
             /\ next' = [next EXCEPT ![t] = "due"]
             /\ UNCHANGED <<status, done, meta, recorded, ledger, clock, http, runner, history>>

WindowOver(t) == /\ status[t] \in {"running"} \cup Ended
                 /\ ~over[t]
                 /\ over' = [over EXCEPT ![t] = TRUE]
                 /\ UNCHANGED <<today, ledger, tables, http, runner, history>>

\* Old rows leave the 24 hours the budget counts.
DayPasses == /\ today > 0
             /\ today' = 0
             /\ UNCHANGED <<over, ledger, tables, http, runner, history>>

\* An exception nobody catches ends one handler, or one pass of the runner.
Abort(h) == /\ pc[h] # "idle"
            /\ crashes < MaxCrashes
            /\ crashes' = crashes + 1
            /\ Leave(h)
            /\ UNCHANGED <<ledger, tables, clock, runner, called>>

StopPass == /\ mode' = "idle" /\ batch' = {} /\ cur' = None /\ ok' = FALSE
            /\ row' = [t \in Tasks |-> NewRow]

AbortPass == /\ mode # "idle"
             /\ crashes < MaxCrashes
             /\ crashes' = crashes + 1
             /\ StopPass
             /\ UNCHANGED <<ledger, tables, clock, http, called>>

\* The process dies and restarts: the tables are all that is left.
Crash == /\ crashes < MaxCrashes
         /\ crashes' = crashes + 1
         /\ pc' = [h \in Handlers |-> "idle"]
         /\ at' = [h \in Handlers |-> None]
         /\ role' = [h \in Handlers |-> "none"]
         /\ StopPass
         /\ UNCHANGED <<ledger, tables, clock, called>>

-------------------------------------------------------------------------------
Handle(h)  == \/ \E t \in Tasks : Buy(h, t) \/ BuyAgain(h, t) \/ StopRead(h, t)
              \/ Refuse(h) \/ Accept(h) \/ Create(h) \/ SettlePaid(h) \/ SettleUnpaid(h)
              \/ Deliver(h) \/ ActivateRead(h) \/ AlreadyActive(h) \/ ActivateWrite(h)
              \/ StopWrite(h)
Pass       == \/ PassDone \/ Answered \/ Unanswered \/ Retry \/ Record \/ Count \/ Note
              \/ Complete \/ StopFailing \/ Advance
              \/ \E t \in Tasks : SkipOver(t) \/ Call(t) \/ SweepOver(t) \/ SweepKeep(t)
Outside(t) == Finalize(t) \/ DueNow(t) \/ WindowOver(t)

Next == \/ \E h \in Handlers : Handle(h)
        \/ TakeBatch \/ SweepStart \/ Pass
        \/ \E t \in Tasks : Outside(t)
        \/ \E h \in Handlers : Abort(h)
        \/ DayPasses \/ AbortPass \/ Crash

Spec == Init /\ [][Next]_vars

\* The loop of the host calls run_due and sweep_stale again and again, a pass
\* that began goes on, and time passes. No buyer has to come back.
Fairness == /\ WF_vars(Pass)
            /\ SF_vars(SweepStart)
            /\ \A t \in Tasks : WF_vars(WindowOver(t))

FairSpec == Spec /\ Fairness

-------------------------------------------------------------------------------
(* Properties. *)

\* A run works only for a sale that settled: neither the row create() writes
\* before the settlement nor a late activation starts one (routes.py 770-788).
StartedIsPaid == \A t \in Tasks :
  status[t] \notin {"none", "awaiting_payment"} => payment[t] = "settled"

\* A run that ended never works again, whatever handler, sweep or check read
\* the row before it ended (tasks.py activate, stop, _finish).
EndedStaysEnded == [][\A t \in Tasks : status[t] \in Ended => status'[t] \in Ended]_vars

\* Every check the counter shows has its row in x402_task_runs, also after a
\* crash between the two statements (tasks.py 608-609).
DoneIsRecorded == \A t \in Tasks : 1..done[t] \subseteq recorded[t]

\* The runner asks the model at most MAX_ATTEMPTS_PER_CHECK times per check,
\* once more for each crash that lost the count (tasks.py 569-587).
CallsAreBounded == \A t \in Tasks : called[t] <= MaxAttempts * (done[t] + 1) + crashes

\* Past its last paid check a run makes fewer than MAX_CONSECUTIVE_FAILS more,
\* as many again after each crash that lost its end (tasks.py 587-613).
ExtraChecksAreBounded == \A t \in Tasks :
  done[t] < Total + MaxFails * (crashes + 1)

\* The check rows of a day exceed the daily budget by less than a batch
\* (tasks.py 509-514, 632-635).
BudgetNearlyKept == today < DailyBudget + RunBatch

\* Until a crash, a delivered sale whose handlers are done has a started run
\* (routes.py 778-791).
PaidRunStarts == crashes = 0 => \A t \in Tasks :
  delivered[t] /\ (\A h \in Handlers : at[h] # t)
    => status[t] \notin {"none", "awaiting_payment"}

\* What the promise sees of a run. A stopped run with a check at hand that is not
\* yet written down is closing.
Sold(t) == CASE payment[t] = "settled" -> "paid"
             [] payment[t] = "failed"  -> "void"
             [] OTHER                  -> "open"
AtHand(t) == t \in batch \/ (t = cur /\ mode \in {"answer", "retry", "record"})
Phase(t) == CASE status[t] = "running" -> "working"
              [] status[t] \in Ended   -> IF AtHand(t) THEN "closing" ELSE "ended"
              [] OTHER                 -> Sold(t)

Promise == INSTANCE PaidRun WITH phase <- [t \in Tasks |-> Phase(t)], checks <- recorded

\* The seller keeps the promise of PaidRun: no work before the sale settled, none
\* again after the run ended, checks numbered without a gap, and one more at most of
\* a run that was stopped meanwhile (tasks.py activate, stop, run_one).
KeepsPromise == Promise!Spec

\* Every started run ends, also with the daily budget used up and across a
\* restart (tasks.py sweep_stale).
RunsEnd == \A t \in Tasks : status[t] = "running" ~> status[t] \in Ended

===============================================================================
