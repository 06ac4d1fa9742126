---------------------------- MODULE CeloOrdersProofs ----------------------------
(***************************************************************************)
(* Theorems about CeloOrders, for every number of orders, transfers,       *)
(* handlers and crashes, and every price and tolerance.                    *)
(***************************************************************************)
EXTENDS CeloOrders, FiniteSetTheorems, TLAPS

\* Going on with the transfers S keeps the types.
LEMMA TryTyped ==
  ASSUME TypeOK, NEW h \in Handlers, at[h] # None, NEW S, S \subseteq Transfers,
         TryNext(h, S), UNCHANGED <<rows, task, world, history>>
  PROVE  TypeOK'
<1> USE OrdersAssumption DEF TypeOK, Statuses, Chains, Steps, rows, task, world, history
<1>1. CASE Leave(h)
  BY <1>1 DEF Leave
<1>2. ASSUME NEW x \in S,
             pc' = [pc EXCEPT ![h] = "tried"], trial' = [trial EXCEPT ![h] = x],
             found' = [found EXCEPT ![h] = S \ {x}], UNCHANGED <<at, given>>
      PROVE  TypeOK'
  BY <1>2
<1> QED BY <1>1, <1>2 DEF TryNext

\* Every step keeps the types.
LEMMA OrderTypeStep ==
  ASSUME TypeOK, [Next]_vars
  PROVE  TypeOK'
<1> USE OrdersAssumption DEF TypeOK, Statuses, Chains, Steps, rows, task, world, http, history
<1>1. ASSUME NEW h \in Handlers, NEW o \in Orders, Request(h, o) PROVE TypeOK'
  <2>1. CASE Create(h, o)
    BY <2>1 DEF Create, Start
  <2>2. CASE Poll(h, o)
    BY <2>2 DEF Poll, Start
  <2>3. ASSUME NEW x \in Transfers, SubmitTx(h, o, x) PROVE TypeOK'
    BY <2>3 DEF SubmitTx, Start
  <2> QED BY <1>1, <2>1, <2>2, <2>3 DEF Request
<1>2. ASSUME NEW h \in Handlers, Pay(h) PROVE TypeOK'
  <2>1. CASE Scan(h)
    <3>1. at[h] # None /\ Candidates(at[h]) \subseteq Transfers
      BY <2>1 DEF Scan, Candidates
    <3> QED BY <2>1, <3>1, TryTyped DEF Scan
  <2>2. CASE ScanFailed(h)
    BY <2>2 DEF ScanFailed, Leave
  <2>3. CASE Verified(h)
    BY <2>3 DEF Verified, Goto, Acceptable
  <2>4. CASE Rejected(h)
    <3>1. at[h] # None /\ found[h] \subseteq Transfers
      BY <2>4 DEF Rejected
    <3>2. CASE Leave(h)
      BY <2>4, <3>2 DEF Rejected, Leave
    <3>3. CASE TryNext(h, found[h])
      BY <2>4, <3>1, <3>3, TryTyped DEF Rejected
    <3> QED BY <2>4, <3>2, <3>3 DEF Rejected
  <2>5. CASE Attach(h)
    BY <2>5 DEF Attach, Goto, Attachable, Conflicts, Used
  <2>6. CASE AttachConflict(h)
    BY <2>6 DEF AttachConflict, Leave
  <2>7. CASE AttachLate(h)
    <3>1. status[at[h]] = "paid" \/ result[at[h]] \in Nat
      BY <2>7 DEF AttachLate
    <3>2. handed' \in [Orders -> SUBSET Nat]
      BY <2>7, <3>1 DEF AttachLate, HandStored
    <3>3. CASE status[at[h]] = "paid"
      BY <2>7, <3>2, <3>3 DEF AttachLate, Goto
    <3>4. CASE status[at[h]] # "paid"
      BY <2>7, <3>2, <3>4, SMTT(30) DEF AttachLate, Leave
    <3> QED BY <3>3, <3>4
  <2> QED BY <1>2, <2>1, <2>2, <2>3, <2>4, <2>5, <2>6, <2>7 DEF Pay
<1>3. ASSUME NEW h \in Handlers, Deliver(h) PROVE TypeOK'
  <2>1. CASE Answer(h)
    BY <2>1 DEF Answer, Issue, Onward, IsRun
  <2>2. CASE DeliverFailed(h)
    BY <2>2 DEF DeliverFailed, KeepPaid, Leave
  <2>3. CASE FindRun(h)
    BY <2>3 DEF FindRun, Goto, IsRun
  <2>4. CASE NewToken(h)
    BY <2>4 DEF NewToken, Issue, Onward
  <2>5. CASE NewRun(h)
    BY <2>5 DEF NewRun, Issue, Onward
  <2>6. CASE RunThere(h)
    BY <2>6 DEF RunThere, Leave
  <2>7. CASE Activate(h)
    BY <2>7 DEF Activate, StartRun, Goto
  <2>8. CASE Store(h)
    BY <2>8 DEF Store, Leave, HandOwn
  <2>9. CASE DeliverDropped(h)
    BY <2>9 DEF DeliverDropped, StartRun, KeepPaid, Leave
  <2> QED BY <1>3, <2>1, <2>2, <2>3, <2>4, <2>5, <2>6, <2>7, <2>8, <2>9 DEF Deliver
<1>4. ASSUME NEW h \in Handlers, Insert(h) PROVE TypeOK'
  BY <1>4 DEF Insert, Leave
<1>5. ASSUME NEW h \in Handlers, Abort(h) PROVE TypeOK'
  BY <1>5 DEF Abort, Leave
<1>6. ASSUME NEW o \in Orders, Reopen(o) PROVE TypeOK'
  BY <1>6 DEF Reopen, HandStored
<1>7. ASSUME NEW o \in Orders, Tick(o) PROVE TypeOK'
  <2>1. age[o] + 1 \in 0..2
    BY <1>7 DEF Tick
  <2> QED BY <1>7, <2>1 DEF Tick
<1>8. ASSUME NEW o \in Orders, Expire(o) PROVE TypeOK'
  BY <1>8 DEF Expire
<1>9. ASSUME NEW x \in Transfers, Send(x) PROVE TypeOK'
  <2>1. PICK wei \in Amounts : amount' = [amount EXCEPT ![x] = wei]
    BY <1>9 DEF Send
  <2>2. wei \in Nat
    OBVIOUS
  <2> QED BY <1>9, <2>1, <2>2 DEF Send
<1>10. ASSUME NEW x \in Transfers, Mine(x) PROVE TypeOK'
  BY <1>10 DEF Mine
<1>11. ASSUME NEW x \in Transfers, Bury(x) PROVE TypeOK'
  BY <1>11 DEF Bury
<1>12. CASE Crash
  BY <1>12 DEF Crash
<1>13. CASE UNCHANGED vars
  BY <1>13 DEF vars
<1> QED BY <1>1, <1>2, <1>3, <1>4, <1>5, <1>6, <1>7, <1>8, <1>9, <1>10, <1>11, <1>12, <1>13 DEF Next, Work

-------------------------------------------------------------------------------
(* What a handler at work may rely on. *)

PaidFor(o) == status[o] \in {"paid", "delivered"}
Delivering == {"deliver", "rotate", "newrow", "activate", "store"}

\* An order is inserted by one handler; the others found its row. A transfer
\* that is about to be written was seen mined and large enough, and only an
\* order that was paid is delivered.
Working == \A h \in Handlers :
  /\ pc[h] = "insert" => /\ status[at[h]] = "none"
                         /\ \A g \in Handlers : at[g] = at[h] => g = h
  /\ pc[h] \notin {"idle", "insert"} => status[at[h]] # "none"
  /\ pc[h] = "write" => chain[trial[h]] = "mined" /\ Enough(at[h], trial[h])
  /\ pc[h] \in Delivering => PaidFor(at[h])

\* Every step keeps what handlers rely on.
LEMMA WorkingStep ==
  ASSUME TypeOK, Working, [Next]_vars
  PROVE  Working'
<1> USE DEF Working, PaidFor, Delivering, Enough, TypeOK, rows, task, world, http, history
<1>1. ASSUME NEW h \in Handlers, NEW o \in Orders, Request(h, o) PROVE Working'
  <2>1. CASE Create(h, o)
    BY <2>1 DEF Create, Start
  <2>2. CASE Poll(h, o)
    BY <2>2 DEF Poll, Start
  <2>3. ASSUME NEW x \in Transfers, SubmitTx(h, o, x) PROVE Working'
    BY <2>3 DEF SubmitTx, Start
  <2> QED BY <1>1, <2>1, <2>2, <2>3 DEF Request
<1>2. ASSUME NEW h \in Handlers, Pay(h) PROVE Working'
  <2>1. CASE Scan(h)
    BY <2>1 DEF Scan, TryNext, Leave, Candidates
  <2>2. CASE ScanFailed(h)
    BY <2>2 DEF ScanFailed, Leave
  <2>3. CASE Verified(h)
    BY <2>3 DEF Verified, Goto, Acceptable
  <2>4. CASE Rejected(h)
    BY <2>4 DEF Rejected, TryNext, Leave
  <2>5. CASE Attach(h)
    BY <2>5 DEF Attach, Goto, Attachable, Conflicts, Used
  <2>6. CASE AttachConflict(h)
    BY <2>6 DEF AttachConflict, Leave
  <2>7. CASE AttachLate(h)
    BY <2>7 DEF AttachLate, Goto, Leave, Attachable
  <2> QED BY <1>2, <2>1, <2>2, <2>3, <2>4, <2>5, <2>6, <2>7 DEF Pay
<1>3. ASSUME NEW h \in Handlers, Deliver(h) PROVE Working'
  <2>1. CASE Answer(h)
    BY <2>1 DEF Answer, Issue, Onward, IsRun
  <2>2. CASE DeliverFailed(h)
    BY <2>2 DEF DeliverFailed, KeepPaid, Leave
  <2>3. CASE FindRun(h)
    BY <2>3 DEF FindRun, Goto, IsRun
  <2>4. CASE NewToken(h)
    BY <2>4 DEF NewToken, Issue, Onward
  <2>5. CASE NewRun(h)
    BY <2>5 DEF NewRun, Issue, Onward
  <2>6. CASE RunThere(h)
    BY <2>6 DEF RunThere, Leave
  <2>7. CASE Activate(h)
    BY <2>7 DEF Activate, StartRun, Goto
  <2>8. CASE Store(h)
    BY <2>8 DEF Store, Leave, HandOwn
  <2>9. CASE DeliverDropped(h)
    BY <2>9 DEF DeliverDropped, StartRun, KeepPaid, Leave
  <2> QED BY <1>3, <2>1, <2>2, <2>3, <2>4, <2>5, <2>6, <2>7, <2>8, <2>9 DEF Deliver
<1>4. ASSUME NEW h \in Handlers, Insert(h) PROVE Working'
  BY <1>4 DEF Insert, Leave
<1>5. ASSUME NEW h \in Handlers, Abort(h) PROVE Working'
  BY <1>5 DEF Abort, Leave
<1>6. ASSUME NEW o \in Orders, Reopen(o) PROVE Working'
  BY <1>6 DEF Reopen
<1>7. ASSUME NEW o \in Orders, Tick(o) PROVE Working'
  BY <1>7 DEF Tick
<1>8. ASSUME NEW o \in Orders, Expire(o) PROVE Working'
  BY <1>8 DEF Expire
<1>9. ASSUME NEW x \in Transfers, Send(x) PROVE Working'
  BY <1>9 DEF Send
<1>10. ASSUME NEW x \in Transfers, Mine(x) PROVE Working'
  BY <1>10 DEF Mine
<1>11. ASSUME NEW x \in Transfers, Bury(x) PROVE Working'
  BY <1>11 DEF Bury
<1>12. CASE Crash
  BY <1>12 DEF Crash
<1>13. CASE UNCHANGED vars
  BY <1>13 DEF vars
<1> QED BY <1>1, <1>2, <1>3, <1>4, <1>5, <1>6, <1>7, <1>8, <1>9, <1>10, <1>11, <1>12, <1>13 DEF Next, Work

-------------------------------------------------------------------------------
(* One transfer per paid order, one order per transfer.                       *)

\* Exactly the paid orders have a transfer, each one of its own.
Booked ==
  /\ \A o \in Orders : PaidFor(o) <=> tx[o] # None
  /\ \A o, p \in Orders : tx[o] = tx[p] /\ tx[o] # None => o = p

\* Every step keeps the transfers in their orders.
LEMMA CoveredStep ==
  ASSUME TypeOK, Working, Booked, PaidIsCovered, [Next]_vars
  PROVE  (Booked /\ PaidIsCovered)'
<1> USE OrdersAssumption DEF Booked, PaidIsCovered, Working, PaidFor, Delivering, Enough, Statuses, TypeOK, rows, task, world, http, history
<1>1. ASSUME NEW h \in Handlers, NEW o \in Orders, Request(h, o) PROVE (Booked /\ PaidIsCovered)'
  <2>1. CASE Create(h, o)
    BY <2>1 DEF Create, Start
  <2>2. CASE Poll(h, o)
    BY <2>2 DEF Poll, Start
  <2>3. ASSUME NEW x \in Transfers, SubmitTx(h, o, x) PROVE (Booked /\ PaidIsCovered)'
    BY <2>3 DEF SubmitTx, Start
  <2> QED BY <1>1, <2>1, <2>2, <2>3 DEF Request
<1>2. ASSUME NEW h \in Handlers, Pay(h) PROVE (Booked /\ PaidIsCovered)'
  <2>1. CASE Scan(h)
    BY <2>1 DEF Scan, TryNext, Leave, Candidates
  <2>2. CASE ScanFailed(h)
    BY <2>2 DEF ScanFailed, Leave
  <2>3. CASE Verified(h)
    BY <2>3 DEF Verified, Goto, Acceptable
  <2>4. CASE Rejected(h)
    BY <2>4 DEF Rejected, TryNext, Leave
  <2>5. CASE Attach(h)
    BY <2>5 DEF Attach, Goto, Attachable, Conflicts, Used
  <2>6. CASE AttachConflict(h)
    BY <2>6 DEF AttachConflict, Leave
  <2>7. CASE AttachLate(h)
    BY <2>7 DEF AttachLate, Goto, Leave, Attachable
  <2> QED BY <1>2, <2>1, <2>2, <2>3, <2>4, <2>5, <2>6, <2>7 DEF Pay
<1>3. ASSUME NEW h \in Handlers, Deliver(h) PROVE (Booked /\ PaidIsCovered)'
  <2>1. CASE Answer(h)
    BY <2>1 DEF Answer, Issue, Onward, IsRun
  <2>2. CASE DeliverFailed(h)
    BY <2>2 DEF DeliverFailed, KeepPaid, Leave
  <2>3. CASE FindRun(h)
    BY <2>3 DEF FindRun, Goto, IsRun
  <2>4. CASE NewToken(h)
    BY <2>4 DEF NewToken, Issue, Onward
  <2>5. CASE NewRun(h)
    BY <2>5 DEF NewRun, Issue, Onward
  <2>6. CASE RunThere(h)
    BY <2>6 DEF RunThere, Leave
  <2>7. CASE Activate(h)
    BY <2>7 DEF Activate, StartRun, Goto
  <2>8. CASE Store(h)
    BY <2>8 DEF Store, Leave, HandOwn
  <2>9. CASE DeliverDropped(h)
    BY <2>9 DEF DeliverDropped, StartRun, KeepPaid, Leave
  <2> QED BY <1>3, <2>1, <2>2, <2>3, <2>4, <2>5, <2>6, <2>7, <2>8, <2>9 DEF Deliver
<1>4. ASSUME NEW h \in Handlers, Insert(h) PROVE (Booked /\ PaidIsCovered)'
  BY <1>4 DEF Insert, Leave
<1>5. ASSUME NEW h \in Handlers, Abort(h) PROVE (Booked /\ PaidIsCovered)'
  BY <1>5 DEF Abort, Leave
<1>6. ASSUME NEW o \in Orders, Reopen(o) PROVE (Booked /\ PaidIsCovered)'
  BY <1>6 DEF Reopen
<1>7. ASSUME NEW o \in Orders, Tick(o) PROVE (Booked /\ PaidIsCovered)'
  BY <1>7 DEF Tick
<1>8. ASSUME NEW o \in Orders, Expire(o) PROVE (Booked /\ PaidIsCovered)'
  BY <1>8 DEF Expire
<1>9. ASSUME NEW x \in Transfers, Send(x) PROVE (Booked /\ PaidIsCovered)'
  BY <1>9 DEF Send
<1>10. ASSUME NEW x \in Transfers, Mine(x) PROVE (Booked /\ PaidIsCovered)'
  BY <1>10 DEF Mine
<1>11. ASSUME NEW x \in Transfers, Bury(x) PROVE (Booked /\ PaidIsCovered)'
  BY <1>11 DEF Bury
<1>12. CASE Crash
  BY <1>12 DEF Crash
<1>13. CASE UNCHANGED vars
  BY <1>13 DEF vars
<1> QED BY <1>1, <1>2, <1>3, <1>4, <1>5, <1>6, <1>7, <1>8, <1>9, <1>10, <1>11, <1>12, <1>13 DEF Next, Work

-------------------------------------------------------------------------------
(* Runs are bought, and started before the order counts as delivered.         *)

\* The delivery of a run finds or makes its row and starts it before it stores.
Started ==
  /\ \A h \in Handlers :
       /\ pc[h] \in {"rotate", "newrow", "activate"} => at[h] \in Runs
       /\ pc[h] \in {"rotate", "activate"} => run[at[h]] # "none"
       /\ pc[h] = "store" /\ at[h] \in Runs => run[at[h]] = "running"
  /\ DeliveredRunStarted
  /\ RunIsPaid

\* Every step keeps runs bought and started.
LEMMA StartedStep ==
  ASSUME TypeOK, Working, Started, [Next]_vars
  PROVE  Started'
<1> USE OrdersAssumption DEF Started, DeliveredRunStarted, RunIsPaid, Working, PaidFor, Delivering, Statuses, TypeOK, rows, task, world, http, history
<1>1. ASSUME NEW h \in Handlers, NEW o \in Orders, Request(h, o) PROVE Started'
  <2>1. CASE Create(h, o)
    BY <2>1 DEF Create, Start
  <2>2. CASE Poll(h, o)
    BY <2>2 DEF Poll, Start
  <2>3. ASSUME NEW x \in Transfers, SubmitTx(h, o, x) PROVE Started'
    BY <2>3 DEF SubmitTx, Start
  <2> QED BY <1>1, <2>1, <2>2, <2>3 DEF Request
<1>2. ASSUME NEW h \in Handlers, Pay(h) PROVE Started'
  <2>1. CASE Scan(h)
    BY <2>1 DEF Scan, TryNext, Leave, Candidates
  <2>2. CASE ScanFailed(h)
    BY <2>2 DEF ScanFailed, Leave
  <2>3. CASE Verified(h)
    BY <2>3 DEF Verified, Goto, Acceptable
  <2>4. CASE Rejected(h)
    BY <2>4 DEF Rejected, TryNext, Leave
  <2>5. CASE Attach(h)
    BY <2>5 DEF Attach, Goto, Attachable, Conflicts, Used
  <2>6. CASE AttachConflict(h)
    BY <2>6 DEF AttachConflict, Leave
  <2>7. CASE AttachLate(h)
    BY <2>7 DEF AttachLate, Goto, Leave, Attachable
  <2> QED BY <1>2, <2>1, <2>2, <2>3, <2>4, <2>5, <2>6, <2>7 DEF Pay
<1>3. ASSUME NEW h \in Handlers, Deliver(h) PROVE Started'
  <2>1. CASE Answer(h)
    BY <2>1 DEF Answer, Issue, Onward, IsRun
  <2>2. CASE DeliverFailed(h)
    BY <2>2 DEF DeliverFailed, KeepPaid, Leave
  <2>3. CASE FindRun(h)
    BY <2>3 DEF FindRun, Goto, IsRun
  <2>4. CASE NewToken(h)
    BY <2>4 DEF NewToken, Issue, Onward
  <2>5. CASE NewRun(h)
    BY <2>5 DEF NewRun, Issue, Onward
  <2>6. CASE RunThere(h)
    BY <2>6 DEF RunThere, Leave
  <2>7. CASE Activate(h)
    BY <2>7 DEF Activate, StartRun, Goto
  <2>8. CASE Store(h)
    BY <2>8 DEF Store, Leave, HandOwn
  <2>9. CASE DeliverDropped(h)
    BY <2>9 DEF DeliverDropped, StartRun, KeepPaid, Leave
  <2> QED BY <1>3, <2>1, <2>2, <2>3, <2>4, <2>5, <2>6, <2>7, <2>8, <2>9 DEF Deliver
<1>4. ASSUME NEW h \in Handlers, Insert(h) PROVE Started'
  BY <1>4 DEF Insert, Leave
<1>5. ASSUME NEW h \in Handlers, Abort(h) PROVE Started'
  BY <1>5 DEF Abort, Leave
<1>6. ASSUME NEW o \in Orders, Reopen(o) PROVE Started'
  BY <1>6 DEF Reopen
<1>7. ASSUME NEW o \in Orders, Tick(o) PROVE Started'
  BY <1>7 DEF Tick
<1>8. ASSUME NEW o \in Orders, Expire(o) PROVE Started'
  BY <1>8 DEF Expire
<1>9. ASSUME NEW x \in Transfers, Send(x) PROVE Started'
  BY <1>9 DEF Send
<1>10. ASSUME NEW x \in Transfers, Mine(x) PROVE Started'
  BY <1>10 DEF Mine
<1>11. ASSUME NEW x \in Transfers, Bury(x) PROVE Started'
  BY <1>11 DEF Bury
<1>12. CASE Crash
  BY <1>12 DEF Crash
<1>13. CASE UNCHANGED vars
  BY <1>13 DEF vars
<1> QED BY <1>1, <1>2, <1>3, <1>4, <1>5, <1>6, <1>7, <1>8, <1>9, <1>10, <1>11, <1>12, <1>13 DEF Next, Work

-------------------------------------------------------------------------------
(* The token that opens a run.                                                 *)

\* As long as nothing crashed, the last token issued was answered or given up, or its
\* handler is still there to answer it.
Held(o) == issued[o] \in handed[o] \cup dropped[o] \/ \E h \in Handlers :
             at[h] = o /\ pc[h] \in {"activate", "store"} /\ given[h] = issued[o]
TokenHeld ==
  /\ \A h \in Handlers : pc[h] \in {"activate", "store"} => issued[at[h]] > 0
  /\ \A o \in Orders : status[o] = "delivered" => issued[o] > 0
  /\ crashes = 0 => \A o \in Orders : issued[o] > 0 => Held(o)

\* Every step keeps the last token with the buyer or on its way.
LEMMA TokenStep ==
  ASSUME TypeOK, TokenHeld, [Next]_vars
  PROVE  TokenHeld'
<1> USE DEF TokenHeld, Held, TypeOK, rows, task, world, http, history
<1>1. ASSUME NEW h \in Handlers, NEW o \in Orders, Request(h, o) PROVE TokenHeld'
  <2>1. CASE Create(h, o)
    BY <2>1 DEF Create, Start
  <2>2. CASE Poll(h, o)
    BY <2>2 DEF Poll, Start
  <2>3. ASSUME NEW x \in Transfers, SubmitTx(h, o, x) PROVE TokenHeld'
    BY <2>3 DEF SubmitTx, Start
  <2> QED BY <1>1, <2>1, <2>2, <2>3 DEF Request
<1>2. ASSUME NEW h \in Handlers, Pay(h) PROVE TokenHeld'
  <2>1. CASE Scan(h)
    BY <2>1, SMTT(30) DEF Scan, TryNext, Leave, Candidates
  <2>2. CASE ScanFailed(h)
    BY <2>2 DEF ScanFailed, Leave
  <2>3. CASE Verified(h)
    BY <2>3 DEF Verified, Goto, Acceptable
  <2>4. CASE Rejected(h)
    BY <2>4 DEF Rejected, TryNext, Leave
  <2>5. CASE Attach(h)
    BY <2>5 DEF Attach, Goto, Attachable, Conflicts, Used
  <2>6. CASE AttachConflict(h)
    BY <2>6 DEF AttachConflict, Leave
  <2>7. CASE AttachLate(h)
    <3>1. \A o \in Orders : handed[o] \subseteq handed'[o] /\ dropped'[o] = dropped[o]
      BY <2>7 DEF AttachLate
    <3>2. \A g \in Handlers : pc'[g] \in {"activate", "store"} <=> pc[g] \in {"activate", "store"}
      BY <2>7 DEF AttachLate, Goto, Leave
    <3>3. \A g \in Handlers : pc[g] \in {"activate", "store"} => at'[g] = at[g] /\ given'[g] = given[g]
      BY <2>7 DEF AttachLate, Goto, Leave
    <3>4. UNCHANGED <<issued, status, crashes>>
      BY <2>7 DEF AttachLate
    <3> QED BY <3>1, <3>2, <3>3, <3>4
  <2> QED BY <1>2, <2>1, <2>2, <2>3, <2>4, <2>5, <2>6, <2>7 DEF Pay
<1>3. ASSUME NEW h \in Handlers, Deliver(h) PROVE TokenHeld'
  <2>1. CASE Answer(h)
    BY <2>1 DEF Answer, Issue, Onward, IsRun
  <2>2. CASE DeliverFailed(h)
    BY <2>2 DEF DeliverFailed, KeepPaid, Leave
  <2>3. CASE FindRun(h)
    BY <2>3 DEF FindRun, Goto, IsRun
  <2>4. CASE NewToken(h)
    BY <2>4 DEF NewToken, Issue, Onward
  <2>5. CASE NewRun(h)
    BY <2>5 DEF NewRun, Issue, Onward
  <2>6. CASE RunThere(h)
    BY <2>6 DEF RunThere, Leave
  <2>7. CASE Activate(h)
    BY <2>7 DEF Activate, StartRun, Goto
  <2>8. CASE Store(h)
    BY <2>8 DEF Store, Leave, HandOwn
  <2>9. CASE DeliverDropped(h)
    BY <2>9 DEF DeliverDropped, StartRun, KeepPaid, Leave
  <2> QED BY <1>3, <2>1, <2>2, <2>3, <2>4, <2>5, <2>6, <2>7, <2>8, <2>9 DEF Deliver
<1>4. ASSUME NEW h \in Handlers, Insert(h) PROVE TokenHeld'
  BY <1>4 DEF Insert, Leave
<1>5. ASSUME NEW h \in Handlers, Abort(h) PROVE TokenHeld'
  BY <1>5 DEF Abort, Leave
<1>6. ASSUME NEW o \in Orders, Reopen(o) PROVE TokenHeld'
  BY <1>6 DEF Reopen
<1>7. ASSUME NEW o \in Orders, Tick(o) PROVE TokenHeld'
  BY <1>7 DEF Tick
<1>8. ASSUME NEW o \in Orders, Expire(o) PROVE TokenHeld'
  BY <1>8 DEF Expire
<1>9. ASSUME NEW x \in Transfers, Send(x) PROVE TokenHeld'
  BY <1>9 DEF Send
<1>10. ASSUME NEW x \in Transfers, Mine(x) PROVE TokenHeld'
  BY <1>10 DEF Mine
<1>11. ASSUME NEW x \in Transfers, Bury(x) PROVE TokenHeld'
  BY <1>11 DEF Bury
<1>12. CASE Crash
  BY <1>12 DEF Crash
<1>13. CASE UNCHANGED vars
  BY <1>13 DEF vars
<1> QED BY <1>1, <1>2, <1>3, <1>4, <1>5, <1>6, <1>7, <1>8, <1>9, <1>10, <1>11, <1>12, <1>13 DEF Next, Work

-------------------------------------------------------------------------------
(* The theorems. *)

Invariant == TypeOK /\ Working /\ Booked /\ PaidIsCovered /\ Started /\ TokenHeld

\* The first state satisfies every invariant.
LEMMA OrdersBegin == Init => Invariant
BY OrdersAssumption DEF Init, Invariant, TypeOK, Working, Booked, PaidIsCovered, Started, TokenHeld, PaidFor,
   Delivering, DeliveredRunStarted, RunIsPaid, Statuses, Chains, Steps

\* The invariants together are inductive.
LEMMA OrdersInvariant == Spec => []Invariant
<1>1. Invariant /\ [Next]_vars => Invariant'
  BY OrderTypeStep, WorkingStep, CoveredStep, StartedStep, TokenStep DEF Invariant
<1> QED BY OrdersBegin, <1>1, PTL DEF Spec

\* Every variable has its type, in every reachable state.
THEOREM OrdersTyped == Spec => []TypeOK
<1>1. Invariant => TypeOK
  BY DEF Invariant
<1> QED BY OrdersInvariant, <1>1, PTL

\* However many hashes and scans compete for however many orders, a paid order
\* is covered by its own mined transfer (attach_tx).
THEOREM OrdersCovered == Spec => []PaidIsCovered
<1>1. Invariant => PaidIsCovered
  BY DEF Invariant
<1> QED BY OrdersInvariant, <1>1, PTL

\* A delivered order has its run started, across every crash (_celo_deliver).
THEOREM OrdersStarted == Spec => []DeliveredRunStarted
<1>1. Invariant => DeliveredRunStarted
  BY DEF Invariant, Started
<1> QED BY OrdersInvariant, <1>1, PTL

\* Nobody gets a run for an order that was not paid (_celo_deliver).
THEOREM OrdersRunsPaid == Spec => []RunIsPaid
<1>1. Invariant => RunIsPaid
  BY DEF Invariant, Started
<1> QED BY OrdersInvariant, <1>1, PTL

\* The buyer holds the token that opens the run, whatever deliveries raced, unless the
\* delivery that issued it failed before its answer.
THEOREM OrdersTokenHeld == Spec => []BuyerHoldsToken
<1>1. Invariant => BuyerHoldsToken
  <2> SUFFICES ASSUME Invariant, crashes = 0, NEW o \in Runs, status[o] = "delivered", AtRest(o)
               PROVE  issued[o] \in handed[o] \cup dropped[o]
    BY DEF BuyerHoldsToken
  <2>1. o \in Orders
    BY OrdersAssumption
  <2>2. Held(o)
    BY <2>1 DEF Invariant, TokenHeld
  <2> QED BY <2>2 DEF Held, AtRest
<1> QED BY OrdersInvariant, <1>1, PTL

-------------------------------------------------------------------------------
(* Every step is one of the promise, or none of its business.                  *)

\* A step that leaves the rows' states and transfers alone.
LEMMA Unseen ==
  ASSUME UNCHANGED <<status, tx>>
  PROVE  UNCHANGED Promise!vars
BY DEF Promise!vars, OrderState

\* A step that changes one order's state.
LEMMA SeenAt ==
  ASSUME TypeOK, NEW o \in Orders, NEW s \in Statuses, status' = [status EXCEPT ![o] = s]
  PROVE  [p \in Orders |-> OrderState(p)]' =
           [[p \in Orders |-> OrderState(p)] EXCEPT ![o] =
              IF s \in {"none", "awaiting"} THEN "open" ELSE IF s = "expired" THEN "void" ELSE s]
BY DEF OrderState, TypeOK, Statuses

\* Every step is one of the promise's, or unseen by it.
LEMMA PromiseStep ==
  ASSUME Invariant, [Next]_vars
  PROVE  [Promise!Next]_(Promise!vars)
<1>1. ASSUME NEW h \in Handlers, NEW o \in Orders, Request(h, o) PROVE [Promise!Next]_(Promise!vars)
  <2>1. CASE Create(h, o)
    <3>1. UNCHANGED <<status, tx>>
      BY <2>1 DEF Create, rows, Start
    <3> QED BY <3>1, Unseen
  <2>2. CASE Poll(h, o)
    <3>1. UNCHANGED <<status, tx>>
      BY <2>2 DEF Poll, rows, Start
    <3> QED BY <3>1, Unseen
  <2>3. ASSUME NEW x \in Transfers, SubmitTx(h, o, x) PROVE [Promise!Next]_(Promise!vars)
    <3>1. UNCHANGED <<status, tx>>
      BY <2>3 DEF SubmitTx, rows, Start
    <3> QED BY <3>1, Unseen
  <2> QED BY <1>1, <2>1, <2>2, <2>3 DEF Request
<1>2. ASSUME NEW h \in Handlers, Pay(h) PROVE [Promise!Next]_(Promise!vars)
  <2>1. CASE Scan(h)
    <3>1. UNCHANGED <<status, tx>>
      BY <2>1 DEF Scan, rows, TryNext, Leave, Candidates
    <3> QED BY <3>1, Unseen
  <2>2. CASE ScanFailed(h)
    <3>1. UNCHANGED <<status, tx>>
      BY <2>2 DEF ScanFailed, rows, Leave
    <3> QED BY <3>1, Unseen
  <2>3. CASE Verified(h)
    <3>1. UNCHANGED <<status, tx>>
      BY <2>3 DEF Verified, rows, Goto, Acceptable
    <3> QED BY <3>1, Unseen
  <2>4. CASE Rejected(h)
    <3>1. UNCHANGED <<status, tx>>
      BY <2>4 DEF Rejected, rows, TryNext, Leave
    <3> QED BY <3>1, Unseen
  <2>5. CASE Attach(h)
    <3>1. at[h] \in Orders /\ trial[h] \in Transfers
      BY <2>5 DEF Attach, Invariant, TypeOK
    <3>2. OrderState(at[h]) = "open" /\ \A p \in Orders : tx[p] # trial[h]
      BY <2>5 DEF Attach, Attachable, Conflicts, Used, OrderState
    <3>3. [p \in Orders |-> OrderState(p)]' = [[p \in Orders |-> OrderState(p)] EXCEPT ![at[h]] = "paid"]
      BY <2>5, <3>1, SeenAt DEF Attach, Invariant, Statuses
    <3>4. Promise!Pay(at[h], trial[h])
      BY <2>5, <3>1, <3>2, <3>3 DEF Attach, Promise!Pay
    <3> QED BY <3>1, <3>4 DEF Promise!Next
  <2>6. CASE AttachConflict(h)
    <3>1. UNCHANGED <<status, tx>>
      BY <2>6 DEF AttachConflict, rows, Leave
    <3> QED BY <3>1, Unseen
  <2>7. CASE AttachLate(h)
    <3>1. UNCHANGED <<status, tx>>
      BY <2>7 DEF AttachLate, rows, Goto, Leave, Attachable
    <3> QED BY <3>1, Unseen
  <2> QED BY <1>2, <2>1, <2>2, <2>3, <2>4, <2>5, <2>6, <2>7 DEF Pay
<1>3. ASSUME NEW h \in Handlers, Deliver(h) PROVE [Promise!Next]_(Promise!vars)
  <2>1. CASE Answer(h)
    <3>1. UNCHANGED <<status, tx>>
      BY <2>1 DEF Answer, rows, Issue, Onward, IsRun
    <3> QED BY <3>1, Unseen
  <2>2. CASE DeliverFailed(h)
    <3>1. UNCHANGED <<status, tx>>
      BY <2>2 DEF DeliverFailed, rows, KeepPaid, Leave
    <3> QED BY <3>1, Unseen
  <2>3. CASE FindRun(h)
    <3>1. UNCHANGED <<status, tx>>
      BY <2>3 DEF FindRun, rows, Goto, IsRun
    <3> QED BY <3>1, Unseen
  <2>4. CASE NewToken(h)
    <3>1. UNCHANGED <<status, tx>>
      BY <2>4 DEF NewToken, rows, Issue, Onward
    <3> QED BY <3>1, Unseen
  <2>5. CASE NewRun(h)
    <3>1. UNCHANGED <<status, tx>>
      BY <2>5 DEF NewRun, rows, Issue, Onward
    <3> QED BY <3>1, Unseen
  <2>6. CASE RunThere(h)
    <3>1. UNCHANGED <<status, tx>>
      BY <2>6 DEF RunThere, rows, Leave
    <3> QED BY <3>1, Unseen
  <2>7. CASE Activate(h)
    <3>1. UNCHANGED <<status, tx>>
      BY <2>7 DEF Activate, rows, StartRun, Goto
    <3> QED BY <3>1, Unseen
  <2>8. CASE Store(h)
    <3>1. at[h] \in Orders /\ PaidFor(at[h]) /\ UNCHANGED tx
      BY <2>8 DEF Store, Invariant, TypeOK, Working, Delivering
    <3>2. [p \in Orders |-> OrderState(p)]' = [[p \in Orders |-> OrderState(p)] EXCEPT ![at[h]] = "delivered"]
      BY <2>8, <3>1, SeenAt DEF Store, Invariant, Statuses
    <3>3. CASE status[at[h]] = "paid"
      <4>1. Promise!Deliver(at[h])
        BY <3>1, <3>2, <3>3 DEF Promise!Deliver, OrderState
      <4> QED BY <3>1, <4>1 DEF Promise!Next
    <3>4. CASE status[at[h]] = "delivered"
      <4>1. \A p \in Orders : OrderState(p)' = OrderState(p)
        BY <2>8, <3>4 DEF Store, Invariant, TypeOK, OrderState
      <4> QED BY <3>1, <4>1 DEF Promise!vars
    <3> QED BY <3>1, <3>3, <3>4 DEF PaidFor
  <2>9. CASE DeliverDropped(h)
    <3>1. UNCHANGED <<status, tx>>
      BY <2>9 DEF DeliverDropped, rows, KeepPaid, Leave
    <3> QED BY <3>1, Unseen
  <2> QED BY <1>3, <2>1, <2>2, <2>3, <2>4, <2>5, <2>6, <2>7, <2>8, <2>9 DEF Deliver
<1>4. ASSUME NEW h \in Handlers, Insert(h) PROVE [Promise!Next]_(Promise!vars)
  <2>1. status[at[h]] = "none" /\ UNCHANGED tx /\ at[h] \in Orders
    BY <1>4 DEF Insert, Invariant, Working, TypeOK
  <2>2. \A p \in Orders : OrderState(p)' = OrderState(p)
    BY <1>4, <2>1 DEF Insert, Invariant, TypeOK, OrderState
  <2> QED BY <2>1, <2>2 DEF Promise!vars
<1>5. ASSUME NEW h \in Handlers, Abort(h) PROVE [Promise!Next]_(Promise!vars)
  <2>1. UNCHANGED <<status, tx>>
    BY <1>5 DEF Abort, rows, Leave
  <2> QED BY <2>1, Unseen
<1>6. ASSUME NEW o \in Orders, Reopen(o) PROVE [Promise!Next]_(Promise!vars)
  <2>1. UNCHANGED <<status, tx>>
    BY <1>6 DEF Reopen, rows
  <2> QED BY <2>1, Unseen
<1>7. ASSUME NEW o \in Orders, Tick(o) PROVE [Promise!Next]_(Promise!vars)
  <2>1. UNCHANGED <<status, tx>>
    BY <1>7 DEF Tick, rows
  <2> QED BY <2>1, Unseen
<1>8. ASSUME NEW o \in Orders, Expire(o) PROVE [Promise!Next]_(Promise!vars)
  <2>1. OrderState(o) = "open" /\ UNCHANGED tx
    BY <1>8 DEF Expire, OrderState
  <2>2. [p \in Orders |-> OrderState(p)]' = [[p \in Orders |-> OrderState(p)] EXCEPT ![o] = "void"]
    BY <1>8, SeenAt DEF Expire, Invariant, Statuses
  <2>3. Promise!Void(o)
    BY <2>1, <2>2 DEF Promise!Void
  <2> QED BY <2>3 DEF Promise!Next
<1>9. ASSUME NEW x \in Transfers, Send(x) PROVE [Promise!Next]_(Promise!vars)
  <2>1. UNCHANGED <<status, tx>>
    BY <1>9 DEF Send, rows
  <2> QED BY <2>1, Unseen
<1>10. ASSUME NEW x \in Transfers, Mine(x) PROVE [Promise!Next]_(Promise!vars)
  <2>1. UNCHANGED <<status, tx>>
    BY <1>10 DEF Mine, rows
  <2> QED BY <2>1, Unseen
<1>11. ASSUME NEW x \in Transfers, Bury(x) PROVE [Promise!Next]_(Promise!vars)
  <2>1. UNCHANGED <<status, tx>>
    BY <1>11 DEF Bury, rows
  <2> QED BY <2>1, Unseen
<1>12. CASE Crash
  <2>1. UNCHANGED <<status, tx>>
    BY <1>12 DEF Crash, rows
  <2> QED BY <2>1, Unseen
<1>13. CASE UNCHANGED vars
  BY <1>13, Unseen DEF vars, rows
<1> QED BY <1>1, <1>2, <1>3, <1>4, <1>5, <1>6, <1>7, <1>8, <1>9, <1>10, <1>11, <1>12, <1>13 DEF Next, Work

\* The rows implement the promise: one transfer pays for at most one order, an
\* order keeps the transfer it was paid with, and only paid orders are delivered.
THEOREM OrdersKeepPromise == Spec => KeepsPromise
<1>1. Init => Promise!Init
  BY DEF Init, Promise!Init, OrderState
<1>2. Invariant /\ [Next]_vars => [Promise!Next]_(Promise!vars)
  BY PromiseStep
<1> QED BY OrdersInvariant, <1>1, <1>2, PTL DEF Spec, Promise!Spec, KeepsPromise

-------------------------------------------------------------------------------
(* The limit on open orders. *)

Inserting == {h \in Handlers : pc[h] = "insert"}

\* A handler that has counted but not inserted yet stands for an order.
Counted == Cardinality(Open) + Cardinality(Inserting) <= MaxOpen + Cardinality(Handlers) - 1

\* Orders and handlers can be counted.
LEMMA Countable ==
  /\ Cardinality(Handlers) \in Nat /\ Cardinality(Handlers) > 0
  /\ \A S \in SUBSET Handlers : /\ IsFiniteSet(S) /\ Cardinality(S) \in Nat
                                /\ Cardinality(S) <= Cardinality(Handlers)
  /\ \A S \in SUBSET Orders : IsFiniteSet(S) /\ Cardinality(S) \in Nat
<1>1. IsFiniteSet(Orders) /\ IsFiniteSet(Handlers) /\ Handlers # {}
  BY OrdersAssumption
<1>2. Cardinality(Handlers) \in Nat /\ Cardinality(Handlers) > 0
  BY <1>1, FS_CardinalityType, FS_EmptySet
<1> QED BY <1>1, <1>2, FS_Subset, FS_CardinalityType

\* Most steps open nothing.
LEMMA OpensNothing ==
  ASSUME Counted, Open' \subseteq Open, Inserting' \subseteq Inserting
  PROVE  Counted'
<1>1. /\ IsFiniteSet(Open) /\ IsFiniteSet(Inserting)
      /\ Cardinality(Open) \in Nat /\ Cardinality(Inserting) \in Nat
      /\ Cardinality(Open') \in Nat /\ Cardinality(Inserting') \in Nat
  BY Countable DEF Open, Inserting
<1>2. Cardinality(Open') <= Cardinality(Open) /\ Cardinality(Inserting') <= Cardinality(Inserting)
  BY <1>1, FS_Subset
<1> QED BY <1>1, <1>2, Countable, OrdersAssumption DEF Counted

\* Every step keeps the count.
LEMMA CountedStep ==
  ASSUME TypeOK, Counted, [Next]_vars
  PROVE  Counted'
<1> USE DEF TypeOK, Open, Inserting, rows, task, world, http, history
<1>1. ASSUME NEW h \in Handlers, NEW o \in Orders, Create(h, o) PROVE Counted'
  <2>1. Cardinality(Open) < MaxOpen /\ Open' = Open
    BY <1>1 DEF Create, BelowLimit
  <2>2. Inserting' \in SUBSET Handlers /\ Open \in SUBSET Orders
    OBVIOUS
  <2> HIDE DEF Open, Inserting
  <2>3. Cardinality(Inserting)' \in Nat /\ Cardinality(Inserting)' <= Cardinality(Handlers) /\ Cardinality(Open) \in Nat
    BY <2>2, Countable
  <2> QED BY <2>1, <2>3, Countable, OrdersAssumption DEF Counted
<1>2. ASSUME NEW h \in Handlers, Insert(h) PROVE Counted'
  <2>1. h \in Inserting /\ Inserting' = Inserting \ {h}
    BY <1>2 DEF Insert, Leave
  <2>2. Open' \subseteq Open \cup {at[h]}
    BY <1>2 DEF Insert
  <2>3. Open \in SUBSET Orders /\ Open' \in SUBSET Orders /\ Inserting \in SUBSET Handlers
    OBVIOUS
  <2> HIDE DEF Open, Inserting
  <2>4. /\ IsFiniteSet(Open) /\ IsFiniteSet(Inserting) /\ Cardinality(Open') \in Nat
        /\ Cardinality(Open) \in Nat /\ Cardinality(Inserting) \in Nat
    BY <2>3, Countable
  <2>5. Cardinality(Inserting)' = Cardinality(Inserting) - 1
    BY <2>1, <2>4, FS_RemoveElement
  <2>6. /\ IsFiniteSet(Open \cup {at[h]})
        /\ Cardinality(Open \cup {at[h]}) \in {Cardinality(Open), Cardinality(Open) + 1}
    BY <2>4, FS_AddElement
  <2>7. Cardinality(Open') <= Cardinality(Open \cup {at[h]})
    BY <2>2, <2>6, FS_Subset
  <2> QED BY <2>4, <2>5, <2>6, <2>7, Countable, OrdersAssumption DEF Counted
<1>3. ASSUME NEW h \in Handlers, NEW o \in Orders, Poll(h, o) \/ \E x \in Transfers : SubmitTx(h, o, x)
      PROVE  Counted'
  BY <1>3, OpensNothing DEF Poll, SubmitTx, Start
<1>4. ASSUME NEW h \in Handlers, Pay(h) PROVE Counted'
  <2>1. pc' \in [Handlers -> Steps] /\ Inserting' \subseteq Inserting
    BY <1>4 DEF Pay, Scan, ScanFailed, Verified, Rejected, Attach, AttachConflict, AttachLate,
                TryNext, Goto, Leave, Steps
  <2>2. Open' \subseteq Open
    BY <1>4 DEF Pay, Scan, ScanFailed, Verified, Rejected, Attach, AttachConflict, AttachLate
  <2> QED BY <2>1, <2>2, OpensNothing
<1>5. ASSUME NEW h \in Handlers, Deliver(h) PROVE Counted'
  <2>1. Inserting' \subseteq Inserting
    BY <1>5 DEF Deliver, Answer, DeliverFailed, DeliverDropped, FindRun, NewToken, NewRun, RunThere, Activate, Store,
                Goto, Onward, Leave
  <2>2. Open' \subseteq Open
    BY <1>5 DEF Deliver, Answer, DeliverFailed, DeliverDropped, KeepPaid, FindRun, NewToken, NewRun, RunThere, Activate, Store
  <2> QED BY <2>1, <2>2, OpensNothing
<1>6. ASSUME NEW h \in Handlers, Abort(h) PROVE Counted'
  BY <1>6, OpensNothing DEF Abort, Leave
<1>7. ASSUME NEW o \in Orders, Reopen(o) \/ Tick(o) \/ Expire(o) PROVE Counted'
  BY <1>7, OpensNothing DEF Reopen, Tick, Expire
<1>8. ASSUME NEW x \in Transfers, Send(x) \/ Mine(x) \/ Bury(x) PROVE Counted'
  BY <1>8, OpensNothing DEF Send, Mine, Bury
<1>9. CASE Crash
  BY <1>9, OpensNothing DEF Crash
<1>10. CASE UNCHANGED vars
  BY <1>10, OpensNothing DEF vars
<1> QED BY <1>1, <1>2, <1>3, <1>4, <1>5, <1>6, <1>7, <1>8, <1>9, <1>10 DEF Next, Request, Work

\* However many requests of a wallet count its open orders before any of them inserts
\* one, the limit is passed by at most the number of the other handlers.
THEOREM OrdersLimited == Spec => []LimitNearlyKept
<1>1. Init => Counted
  <2>1. ASSUME Init PROVE Open = {} /\ Inserting = {}
    BY <2>1 DEF Init, Open, Inserting
  <2>2. ASSUME Init PROVE Cardinality(Open) = 0 /\ Cardinality(Inserting) = 0
    BY <2>1, <2>2, FS_EmptySet
  <2> QED BY <2>2, Countable, OrdersAssumption DEF Counted
<1>2. Invariant /\ Counted /\ [Next]_vars => Counted'
  BY CountedStep DEF Invariant
<1>3. Counted => LimitNearlyKept
  <2>1. Cardinality(Open) \in Nat /\ Cardinality(Inserting) \in Nat
    BY Countable DEF Open, Inserting
  <2> QED BY <2>1, Countable, OrdersAssumption DEF Counted, LimitNearlyKept
<1> QED BY OrdersInvariant, <1>1, <1>2, <1>3, PTL DEF Spec

===============================================================================
