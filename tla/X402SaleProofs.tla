---------------------------- MODULE X402SaleProofs ----------------------------
(***************************************************************************)
(* Theorems about X402Sale, for every number of authorizations, handlers,  *)
(* slots and crashes. Each invariant is proved on top of the ones before   *)
(* it: one lemma per invariant says that every step keeps it, with one     *)
(* case per action.                                                        *)
(***************************************************************************)
EXTENDS X402Sale, FiniteSetTheorems, TLAPS

\* Every step keeps the types.
LEMMA TypeStep ==
  ASSUME TypeOK, [Next]_vars
  PROVE  TypeOK'
<1> USE SaleAssumption DEF TypeOK, Workers, Statuses, Chains, Jobs, Steps, Meta, NewMeta, Row, NoRow, RowOf,
       ledger, owner, world, work, memory, history
<1>1. ASSUME NEW w \in Requests, NEW a \in Auths, Request(w, a) PROVE TypeOK'
  BY <1>1 DEF Request, Start, GateOpen
<1>2. ASSUME NEW a \in Auths, AutoFinalize(a) PROVE TypeOK'
  BY <1>2 DEF AutoFinalize, Start
<1>3. ASSUME NEW a \in Auths, AutoShare(a) PROVE TypeOK'
  BY <1>3 DEF AutoShare, Start
<1>4. ASSUME NEW w \in Workers, Gate(w) PROVE TypeOK'
  <2>1. CASE Lookup(w)
    BY <2>1 DEF Lookup, Read
  <2>2. CASE RouteNew(w)
    BY <2>2 DEF RouteNew, Goto
  <2>3. CASE RouteFinalize(w)
    BY <2>3 DEF RouteFinalize, Enter
  <2>4. CASE RouteRetry(w)
    BY <2>4 DEF RouteRetry, Enter, Recovers
  <2>5. CASE RouteRefuse(w)
    BY <2>5 DEF RouteRefuse, Leave
  <2>6. CASE VerifyRejected(w)
    BY <2>6 DEF VerifyRejected, Leave
  <2>7. CASE Verified(w)
    BY <2>7 DEF Verified, Valid, Enter, Finish, Insertable
  <2>8. CASE BookedBefore(w)
    BY <2>8 DEF BookedBefore, Valid, Leave
  <2> QED BY <1>4, <2>1, <2>2, <2>3, <2>4, <2>5, <2>6, <2>7, <2>8 DEF Gate
<1>5. ASSUME NEW w \in Workers, Content(w) PROVE TypeOK'
  <2>1. CASE ContentReady(w)
    BY <2>1 DEF ContentReady, Proceed, Goto
  <2>2. CASE TakeSlot(w)
    BY <2>2 DEF TakeSlot, Goto, SlotFree
  <2>3. CASE Generated(w)
    BY <2>3 DEF Generated, Proceed, Goto, ReleaseSlot
  <2>4. CASE ContentFailed(w)
    BY <2>4 DEF ContentFailed, FailUnsettled, Finish, Leave, ReleaseSlot
  <2> QED BY <1>5, <2>1, <2>2, <2>3, <2>4 DEF Content
<1>6. ASSUME NEW w \in Workers, Settle(w) PROVE TypeOK'
  <2>1. CASE SettleSend(w)
    BY <2>1 DEF SettleSend, SettleCall, Goto
  <2>2. CASE SettleUnsent(w)
    BY <2>2 DEF SettleUnsent, SettleCall, Goto
  <2>3. CASE ReplyPaid(w)
    BY <2>3 DEF ReplyPaid, Book, Finish, Goto, AfterBooking
  <2>4. CASE ReplyRefused(w)
    BY <2>4 DEF ReplyRefused, Finish, Leave
  <2>5. CASE ReplyReconciled(w)
    BY <2>5 DEF ReplyReconciled, Book, Finish, Goto, AfterBooking
  <2>6. CASE ReplyLost(w)
    BY <2>6 DEF ReplyLost, Park, Finish, Leave, CarriedHashes
  <2> QED BY <1>6, <2>1, <2>2, <2>3, <2>4, <2>5, <2>6 DEF Settle
<1>7. ASSUME NEW w \in Workers, Finalize(w) PROVE TypeOK'
  <2>1. CASE Reconcile(w)
    BY <2>1, SMTT(30) DEF Reconcile, Goto
  <2>2. CASE BookFinalized(w)
    BY <2>2 DEF BookFinalized, Book, Finish, Goto, AfterBooking
  <2>3. CASE StillUndecided(w)
    BY <2>3 DEF StillUndecided, GiveUpAged, Finish, Goto
  <2>4. CASE Reread(w)
    BY <2>4 DEF Reread, Read
  <2>5. CASE PassDone(w)
    BY <2>5 DEF PassDone, Leave
  <2> QED BY <1>7, <2>1, <2>2, <2>3, <2>4, <2>5 DEF Finalize
<1>8. ASSUME NEW w \in Workers, Share(w) PROVE TypeOK'
  <2>1. CASE TakeGrant(w)
    BY <2>1 DEF TakeGrant, Granted, Goto
  <2>2. CASE PayOwner(w)
    BY <2>2 DEF PayOwner, Goto
  <2>3. CASE PayFailed(w)
    BY <2>3 DEF PayFailed, ReleaseMarker, Goto
  <2>4. CASE RecordSaleShare(w)
    BY <2>4 DEF RecordSaleShare, Finish, Goto
  <2>5. CASE RecordShare(w)
    BY <2>5 DEF RecordShare, Finish, Goto
  <2>6. CASE ShareKept(w)
    BY <2>6 DEF ShareKept, Leave
  <2>7. CASE ShareFailed(w)
    BY <2>7 DEF ShareFailed, Goto
  <2> QED BY <1>8, <2>1, <2>2, <2>3, <2>4, <2>5, <2>6, <2>7 DEF Share
<1>9. ASSUME NEW w \in Workers, Deliver(w) PROVE TypeOK'
  <2>1. CASE FlagRead(w)
    BY <2>1 DEF FlagRead, Read
  <2>2. CASE FlagSet(w)
    BY <2>2 DEF FlagSet, WriteMeta, Goto
  <2>3. CASE FlagCleared(w)
    BY <2>3 DEF FlagCleared, WriteMeta, Leave
  <2>4. CASE DeliverRead(w)
    BY <2>4 DEF DeliverRead, Read
  <2>5. CASE DeliverWrite(w)
    BY <2>5 DEF DeliverWrite, WriteMeta, Goto
  <2>6. CASE Respond(w)
    BY <2>6 DEF Respond, StoreReceipt, Leave
  <2> QED BY <1>9, <2>1, <2>2, <2>3, <2>4, <2>5, <2>6 DEF Deliver
<1>10. ASSUME NEW a \in Auths, Outside(a) PROVE TypeOK'
  <2>1. CASE Land(a)
    BY <2>1 DEF Land, Chain
  <2>2. CASE Fail(a)
    BY <2>2 DEF Fail, Chain
  <2>3. CASE Cancel(a)
    BY <2>3 DEF Cancel, Chain
  <2>4. CASE Tick(a)
    BY <2>4 DEF Tick
  <2>5. CASE Age(a)
    BY <2>5 DEF Age, StillOpen
  <2>6. CASE Bury(a)
    BY <2>6 DEF Bury
  <2>7. CASE Evict(a)
    BY <2>7 DEF Evict
  <2> QED BY <1>10, <2>1, <2>2, <2>3, <2>4, <2>5, <2>6, <2>7 DEF Outside
<1>11. ASSUME NEW w \in Workers, Abort(w) PROVE TypeOK'
  BY <1>11 DEF Abort, Leave, ReleaseSlot
<1>12. CASE Crash
  BY <1>12 DEF Crash
<1>13. CASE UNCHANGED vars
  BY <1>13 DEF vars
<1> QED BY <1>1, <1>2, <1>3, <1>4, <1>5, <1>6, <1>7, <1>8, <1>9, <1>10, <1>11, <1>12, <1>13 DEF Next, Work

\* Every variable has its type, in every reachable state.
THEOREM TypeCorrect == Spec => []TypeOK
<1>1. Init => TypeOK
  BY SaleAssumption DEF Init, TypeOK, Workers, Statuses, Chains, Jobs, Steps, Meta,
     NewMeta, Row, NoRow
<1> QED BY <1>1, TypeStep, PTL DEF Spec

-------------------------------------------------------------------------------
(* Control: which role a worker can have at a step.                           *)

Control == \A w \in Workers :
  /\ pc[w] \in {"lookup", "route", "verify"} => job[w] \in {"none", "gate"}
  /\ pc[w] \in {"content", "generate"} => job[w] \in {"sale", "retry"}
  /\ pc[w] \in {"settle", "reply"} => job[w] = "sale"
  /\ pc[w] \in {"reconcile", "book", "giveup", "reread"} => job[w] \in {"gate", "auto"}
  /\ pc[w] \in {"mark", "pay", "paid", "noshare", "unpaid", "flag", "flagwrite"}
       => job[w] \in {"sale", "gate", "auto", "share"}
  /\ pc[w] \in {"deliver", "deliverwrite", "receipt"} => job[w] \in {"sale", "retry"}
  /\ w = Autopilot => /\ job[w] \in {"none", "auto", "share"}
                      /\ pc[w] \notin {"lookup", "route", "verify"}

\* Every step keeps the roles.
LEMMA ControlStep ==
  ASSUME TypeOK, Control, [Next]_vars
  PROVE  Control'
<1> USE SaleAssumption DEF Control, TypeOK, Workers, Steps, Jobs,
       ledger, owner, world, work, memory, history
<1>1. ASSUME NEW w \in Requests, NEW a \in Auths, Request(w, a) PROVE Control'
  BY <1>1 DEF Request, Start, GateOpen
<1>2. ASSUME NEW a \in Auths, AutoFinalize(a) PROVE Control'
  BY <1>2 DEF AutoFinalize, Start
<1>3. ASSUME NEW a \in Auths, AutoShare(a) PROVE Control'
  BY <1>3 DEF AutoShare, Start
<1>4. ASSUME NEW w \in Workers, Gate(w) PROVE Control'
  <2>1. CASE Lookup(w)
    BY <2>1 DEF Lookup, Read
  <2>2. CASE RouteNew(w)
    BY <2>2 DEF RouteNew, Goto
  <2>3. CASE RouteFinalize(w)
    BY <2>3 DEF RouteFinalize, Enter
  <2>4. CASE RouteRetry(w)
    BY <2>4 DEF RouteRetry, Enter, Recovers
  <2>5. CASE RouteRefuse(w)
    BY <2>5 DEF RouteRefuse, Leave
  <2>6. CASE VerifyRejected(w)
    BY <2>6 DEF VerifyRejected, Leave
  <2>7. CASE Verified(w)
    BY <2>7 DEF Verified, Valid, Enter, Finish, Insertable
  <2>8. CASE BookedBefore(w)
    BY <2>8 DEF BookedBefore, Valid, Leave
  <2> QED BY <1>4, <2>1, <2>2, <2>3, <2>4, <2>5, <2>6, <2>7, <2>8 DEF Gate
<1>5. ASSUME NEW w \in Workers, Content(w) PROVE Control'
  <2>1. CASE ContentReady(w)
    BY <2>1 DEF ContentReady, Proceed, Goto
  <2>2. CASE TakeSlot(w)
    BY <2>2 DEF TakeSlot, Goto, SlotFree
  <2>3. CASE Generated(w)
    BY <2>3 DEF Generated, Proceed, Goto, ReleaseSlot
  <2>4. CASE ContentFailed(w)
    BY <2>4 DEF ContentFailed, FailUnsettled, Finish, Leave, ReleaseSlot
  <2> QED BY <1>5, <2>1, <2>2, <2>3, <2>4 DEF Content
<1>6. ASSUME NEW w \in Workers, Settle(w) PROVE Control'
  <2>1. CASE SettleSend(w)
    BY <2>1 DEF SettleSend, SettleCall, Goto
  <2>2. CASE SettleUnsent(w)
    BY <2>2 DEF SettleUnsent, SettleCall, Goto
  <2>3. CASE ReplyPaid(w)
    BY <2>3 DEF ReplyPaid, Book, Finish, Goto, AfterBooking
  <2>4. CASE ReplyRefused(w)
    BY <2>4 DEF ReplyRefused, Finish, Leave
  <2>5. CASE ReplyReconciled(w)
    BY <2>5 DEF ReplyReconciled, Book, Finish, Goto, AfterBooking
  <2>6. CASE ReplyLost(w)
    BY <2>6 DEF ReplyLost, Park, Finish, Leave, CarriedHashes
  <2> QED BY <1>6, <2>1, <2>2, <2>3, <2>4, <2>5, <2>6 DEF Settle
<1>7. ASSUME NEW w \in Workers, Finalize(w) PROVE Control'
  <2>1. CASE Reconcile(w)
    BY <2>1 DEF Reconcile, Goto
  <2>2. CASE BookFinalized(w)
    BY <2>2 DEF BookFinalized, Book, Finish, Goto, AfterBooking
  <2>3. CASE StillUndecided(w)
    BY <2>3 DEF StillUndecided, GiveUpAged, Finish, Goto
  <2>4. CASE Reread(w)
    BY <2>4 DEF Reread, Read
  <2>5. CASE PassDone(w)
    BY <2>5 DEF PassDone, Leave
  <2> QED BY <1>7, <2>1, <2>2, <2>3, <2>4, <2>5 DEF Finalize
<1>8. ASSUME NEW w \in Workers, Share(w) PROVE Control'
  <2>1. CASE TakeGrant(w)
    BY <2>1 DEF TakeGrant, Granted, Goto
  <2>2. CASE PayOwner(w)
    BY <2>2 DEF PayOwner, Goto
  <2>3. CASE PayFailed(w)
    BY <2>3 DEF PayFailed, ReleaseMarker, Goto
  <2>4. CASE RecordSaleShare(w)
    BY <2>4 DEF RecordSaleShare, Finish, Goto
  <2>5. CASE RecordShare(w)
    BY <2>5 DEF RecordShare, Finish, Goto
  <2>6. CASE ShareKept(w)
    BY <2>6 DEF ShareKept, Leave
  <2>7. CASE ShareFailed(w)
    BY <2>7 DEF ShareFailed, Goto
  <2> QED BY <1>8, <2>1, <2>2, <2>3, <2>4, <2>5, <2>6, <2>7 DEF Share
<1>9. ASSUME NEW w \in Workers, Deliver(w) PROVE Control'
  <2>1. CASE FlagRead(w)
    BY <2>1 DEF FlagRead, Read
  <2>2. CASE FlagSet(w)
    BY <2>2 DEF FlagSet, WriteMeta, Goto
  <2>3. CASE FlagCleared(w)
    BY <2>3 DEF FlagCleared, WriteMeta, Leave
  <2>4. CASE DeliverRead(w)
    BY <2>4 DEF DeliverRead, Read
  <2>5. CASE DeliverWrite(w)
    BY <2>5 DEF DeliverWrite, WriteMeta, Goto
  <2>6. CASE Respond(w)
    BY <2>6 DEF Respond, StoreReceipt, Leave
  <2> QED BY <1>9, <2>1, <2>2, <2>3, <2>4, <2>5, <2>6 DEF Deliver
<1>10. ASSUME NEW a \in Auths, Outside(a) PROVE Control'
  <2>1. CASE Land(a)
    BY <2>1 DEF Land, Chain
  <2>2. CASE Fail(a)
    BY <2>2 DEF Fail, Chain
  <2>3. CASE Cancel(a)
    BY <2>3 DEF Cancel, Chain
  <2>4. CASE Tick(a)
    BY <2>4 DEF Tick
  <2>5. CASE Age(a)
    BY <2>5 DEF Age
  <2>6. CASE Bury(a)
    BY <2>6 DEF Bury
  <2>7. CASE Evict(a)
    BY <2>7 DEF Evict
  <2> QED BY <1>10, <2>1, <2>2, <2>3, <2>4, <2>5, <2>6, <2>7 DEF Outside
<1>11. ASSUME NEW w \in Workers, Abort(w) PROVE Control'
  BY <1>11 DEF Abort, Leave, ReleaseSlot
<1>12. CASE Crash
  BY <1>12 DEF Crash
<1>13. CASE UNCHANGED vars
  BY <1>13 DEF vars
<1> QED BY <1>1, <1>2, <1>3, <1>4, <1>5, <1>6, <1>7, <1>8, <1>9, <1>10, <1>11, <1>12, <1>13 DEF Next, Work

-------------------------------------------------------------------------------
(* One settlement call per authorization.                                     *)

\* A handler that booked the row and has not finished it.
Selling(w) == job[w] = "sale" /\ pc[w] \in {"content", "generate", "settle", "reply"}

\* The row's settlement call was made.
Past(a) == status[a] \in {"settle_pending", "settled", "settle_failed"}

\* A worker that is past the settlement call.
After(w) == \/ job[w] = "retry"
            \/ pc[w] \in {"reconcile", "book", "giveup", "reread", "mark", "pay",
                          "paid", "noshare", "unpaid", "flag", "flagwrite",
                          "deliver", "deliverwrite", "receipt"}

\* A pending row belongs to one handler, which alone may settle; what others do
\* with the authorization they do on rows that are past their settlement.
OneSeller ==
  /\ \A w \in Workers : Selling(w) => status[at[w]] = "pending"
  /\ \A v, w \in Workers : Selling(v) /\ Selling(w) /\ at[v] = at[w] => v = w
  /\ \A w \in Workers : Selling(w) /\ pc[w] # "reply" => calls[at[w]] = 0
  /\ \A a \in Auths : status[a] = "none" => calls[a] = 0
  /\ \A w \in Workers : After(w) => Past(at[w])
  /\ \A w \in Workers :
       pc[w] = "route" /\ snap[w].status \in {"settle_pending", "settled"} => Past(at[w])

\* Every step keeps the rows to their sellers.
LEMMA OneSellerStep ==
  ASSUME TypeOK, Control, OneSeller, OneSettleCall, [Next]_vars
  PROVE  (OneSeller /\ OneSettleCall)'
<1> USE DEF OneSeller, OneSettleCall, Selling, Past, After, Control, TypeOK, Workers,
       Statuses, Row, RowOf, NoRow, ledger, owner, world, work, memory, history
<1>1. ASSUME NEW w \in Requests, NEW a \in Auths, Request(w, a) PROVE (OneSeller /\ OneSettleCall)'
  BY <1>1 DEF Request, Start, GateOpen
<1>2. ASSUME NEW a \in Auths, AutoFinalize(a) PROVE (OneSeller /\ OneSettleCall)'
  BY <1>2 DEF AutoFinalize, Start
<1>3. ASSUME NEW a \in Auths, AutoShare(a) PROVE (OneSeller /\ OneSettleCall)'
  BY <1>3, SMTT(30) DEF AutoShare, Start
<1>4. ASSUME NEW w \in Workers, Gate(w) PROVE (OneSeller /\ OneSettleCall)'
  <2>1. CASE Lookup(w)
    BY <2>1 DEF Lookup, Read
  <2>2. CASE RouteNew(w)
    BY <2>2 DEF RouteNew, Goto
  <2>3. CASE RouteFinalize(w)
    BY <2>3 DEF RouteFinalize, Enter
  <2>4. CASE RouteRetry(w)
    BY <2>4 DEF RouteRetry, Enter, Recovers
  <2>5. CASE RouteRefuse(w)
    BY <2>5 DEF RouteRefuse, Leave
  <2>6. CASE VerifyRejected(w)
    BY <2>6 DEF VerifyRejected, Leave
  <2>7. CASE Verified(w)
    BY <2>7 DEF Verified, Valid, Enter, Finish, Insertable
  <2>8. CASE BookedBefore(w)
    BY <2>8 DEF BookedBefore, Valid, Leave
  <2> QED BY <1>4, <2>1, <2>2, <2>3, <2>4, <2>5, <2>6, <2>7, <2>8 DEF Gate
<1>5. ASSUME NEW w \in Workers, Content(w) PROVE (OneSeller /\ OneSettleCall)'
  <2>1. CASE ContentReady(w)
    BY <2>1 DEF ContentReady, Proceed, Goto
  <2>2. CASE TakeSlot(w)
    BY <2>2 DEF TakeSlot, Goto, SlotFree
  <2>3. CASE Generated(w)
    BY <2>3 DEF Generated, Proceed, Goto, ReleaseSlot
  <2>4. CASE ContentFailed(w)
    BY <2>4 DEF ContentFailed, FailUnsettled, Finish, Leave, ReleaseSlot
  <2> QED BY <1>5, <2>1, <2>2, <2>3, <2>4 DEF Content
<1>6. ASSUME NEW w \in Workers, Settle(w) PROVE (OneSeller /\ OneSettleCall)'
  <2>1. CASE SettleSend(w)
    BY <2>1 DEF SettleSend, SettleCall, Goto
  <2>2. CASE SettleUnsent(w)
    BY <2>2 DEF SettleUnsent, SettleCall, Goto
  <2>3. CASE ReplyPaid(w)
    BY <2>3 DEF ReplyPaid, Book, Finish, Goto, AfterBooking
  <2>4. CASE ReplyRefused(w)
    BY <2>4 DEF ReplyRefused, Finish, Leave
  <2>5. CASE ReplyReconciled(w)
    BY <2>5 DEF ReplyReconciled, Book, Finish, Goto, AfterBooking
  <2>6. CASE ReplyLost(w)
    BY <2>6 DEF ReplyLost, Park, Finish, Leave, CarriedHashes
  <2> QED BY <1>6, <2>1, <2>2, <2>3, <2>4, <2>5, <2>6 DEF Settle
<1>7. ASSUME NEW w \in Workers, Finalize(w) PROVE (OneSeller /\ OneSettleCall)'
  <2>1. CASE Reconcile(w)
    BY <2>1 DEF Reconcile, Goto
  <2>2. CASE BookFinalized(w)
    BY <2>2 DEF BookFinalized, Book, Finish, Goto, AfterBooking
  <2>3. CASE StillUndecided(w)
    BY <2>3 DEF StillUndecided, GiveUpAged, Finish, Goto
  <2>4. CASE Reread(w)
    BY <2>4 DEF Reread, Read
  <2>5. CASE PassDone(w)
    BY <2>5 DEF PassDone, Leave
  <2> QED BY <1>7, <2>1, <2>2, <2>3, <2>4, <2>5 DEF Finalize
<1>8. ASSUME NEW w \in Workers, Share(w) PROVE (OneSeller /\ OneSettleCall)'
  <2>1. CASE TakeGrant(w)
    BY <2>1 DEF TakeGrant, Granted, Goto
  <2>2. CASE PayOwner(w)
    BY <2>2 DEF PayOwner, Goto
  <2>3. CASE PayFailed(w)
    BY <2>3 DEF PayFailed, ReleaseMarker, Goto
  <2>4. CASE RecordSaleShare(w)
    BY <2>4 DEF RecordSaleShare, Finish, Goto
  <2>5. CASE RecordShare(w)
    BY <2>5 DEF RecordShare, Finish, Goto
  <2>6. CASE ShareKept(w)
    BY <2>6 DEF ShareKept, Leave
  <2>7. CASE ShareFailed(w)
    BY <2>7 DEF ShareFailed, Goto
  <2> QED BY <1>8, <2>1, <2>2, <2>3, <2>4, <2>5, <2>6, <2>7 DEF Share
<1>9. ASSUME NEW w \in Workers, Deliver(w) PROVE (OneSeller /\ OneSettleCall)'
  <2>1. CASE FlagRead(w)
    BY <2>1 DEF FlagRead, Read
  <2>2. CASE FlagSet(w)
    BY <2>2 DEF FlagSet, WriteMeta, Goto
  <2>3. CASE FlagCleared(w)
    BY <2>3 DEF FlagCleared, WriteMeta, Leave
  <2>4. CASE DeliverRead(w)
    BY <2>4 DEF DeliverRead, Read
  <2>5. CASE DeliverWrite(w)
    BY <2>5 DEF DeliverWrite, WriteMeta, Goto
  <2>6. CASE Respond(w)
    BY <2>6 DEF Respond, StoreReceipt, Leave
  <2> QED BY <1>9, <2>1, <2>2, <2>3, <2>4, <2>5, <2>6 DEF Deliver
<1>10. ASSUME NEW a \in Auths, Outside(a) PROVE (OneSeller /\ OneSettleCall)'
  <2>1. CASE Land(a)
    BY <2>1 DEF Land, Chain
  <2>2. CASE Fail(a)
    BY <2>2 DEF Fail, Chain
  <2>3. CASE Cancel(a)
    BY <2>3 DEF Cancel, Chain
  <2>4. CASE Tick(a)
    BY <2>4 DEF Tick
  <2>5. CASE Age(a)
    BY <2>5 DEF Age
  <2>6. CASE Bury(a)
    BY <2>6 DEF Bury
  <2>7. CASE Evict(a)
    BY <2>7 DEF Evict
  <2> QED BY <1>10, <2>1, <2>2, <2>3, <2>4, <2>5, <2>6, <2>7 DEF Outside
<1>11. ASSUME NEW w \in Workers, Abort(w) PROVE (OneSeller /\ OneSettleCall)'
  BY <1>11 DEF Abort, Leave, ReleaseSlot
<1>12. CASE Crash
  BY <1>12 DEF Crash
<1>13. CASE UNCHANGED vars
  BY <1>13 DEF vars
<1> QED BY <1>1, <1>2, <1>3, <1>4, <1>5, <1>6, <1>7, <1>8, <1>9, <1>10, <1>11, <1>12, <1>13 DEF Next, Work

-------------------------------------------------------------------------------
(* The owner's share.                                                         *)

\* Between the grant marker and the credit a worker is the only payer.
OnePayer ==
  /\ \A a \in Auths : ~grant[a] => points[a] = 0
  /\ \A w \in Workers : pc[w] = "pay" => grant[at[w]] /\ points[at[w]] = 0
  /\ \A v, w \in Workers : pc[v] = "pay" /\ pc[w] = "pay" /\ at[v] = at[w] => v = w
  /\ \A w \in Workers : pc[w] = "paid" => points[at[w]] = 1

\* Every step keeps the payer alone.
LEMMA OnePayerStep ==
  ASSUME TypeOK, OnePayer, OwnerPaidOnce, [Next]_vars
  PROVE  (OnePayer /\ OwnerPaidOnce)'
<1> USE DEF OnePayer, OwnerPaidOnce, TypeOK, Workers, ledger, owner, world, work, memory, history
<1>1. ASSUME NEW w \in Requests, NEW a \in Auths, Request(w, a) PROVE (OnePayer /\ OwnerPaidOnce)'
  BY <1>1 DEF Request, Start, GateOpen
<1>2. ASSUME NEW a \in Auths, AutoFinalize(a) PROVE (OnePayer /\ OwnerPaidOnce)'
  BY <1>2 DEF AutoFinalize, Start
<1>3. ASSUME NEW a \in Auths, AutoShare(a) PROVE (OnePayer /\ OwnerPaidOnce)'
  BY <1>3 DEF AutoShare, Start
<1>4. ASSUME NEW w \in Workers, Gate(w) PROVE (OnePayer /\ OwnerPaidOnce)'
  <2>1. CASE Lookup(w)
    BY <2>1 DEF Lookup, Read
  <2>2. CASE RouteNew(w)
    BY <2>2 DEF RouteNew, Goto
  <2>3. CASE RouteFinalize(w)
    BY <2>3 DEF RouteFinalize, Enter
  <2>4. CASE RouteRetry(w)
    BY <2>4 DEF RouteRetry, Enter, Recovers
  <2>5. CASE RouteRefuse(w)
    BY <2>5 DEF RouteRefuse, Leave
  <2>6. CASE VerifyRejected(w)
    BY <2>6 DEF VerifyRejected, Leave
  <2>7. CASE Verified(w)
    BY <2>7 DEF Verified, Valid, Enter, Finish, Insertable
  <2>8. CASE BookedBefore(w)
    BY <2>8 DEF BookedBefore, Valid, Leave
  <2> QED BY <1>4, <2>1, <2>2, <2>3, <2>4, <2>5, <2>6, <2>7, <2>8 DEF Gate
<1>5. ASSUME NEW w \in Workers, Content(w) PROVE (OnePayer /\ OwnerPaidOnce)'
  <2>1. CASE ContentReady(w)
    BY <2>1 DEF ContentReady, Proceed, Goto
  <2>2. CASE TakeSlot(w)
    BY <2>2 DEF TakeSlot, Goto, SlotFree
  <2>3. CASE Generated(w)
    BY <2>3 DEF Generated, Proceed, Goto, ReleaseSlot
  <2>4. CASE ContentFailed(w)
    BY <2>4 DEF ContentFailed, FailUnsettled, Finish, Leave, ReleaseSlot
  <2> QED BY <1>5, <2>1, <2>2, <2>3, <2>4 DEF Content
<1>6. ASSUME NEW w \in Workers, Settle(w) PROVE (OnePayer /\ OwnerPaidOnce)'
  <2>1. CASE SettleSend(w)
    BY <2>1 DEF SettleSend, SettleCall, Goto
  <2>2. CASE SettleUnsent(w)
    BY <2>2 DEF SettleUnsent, SettleCall, Goto
  <2>3. CASE ReplyPaid(w)
    BY <2>3 DEF ReplyPaid, Book, Finish, Goto, AfterBooking
  <2>4. CASE ReplyRefused(w)
    BY <2>4 DEF ReplyRefused, Finish, Leave
  <2>5. CASE ReplyReconciled(w)
    BY <2>5 DEF ReplyReconciled, Book, Finish, Goto, AfterBooking
  <2>6. CASE ReplyLost(w)
    BY <2>6 DEF ReplyLost, Park, Finish, Leave, CarriedHashes
  <2> QED BY <1>6, <2>1, <2>2, <2>3, <2>4, <2>5, <2>6 DEF Settle
<1>7. ASSUME NEW w \in Workers, Finalize(w) PROVE (OnePayer /\ OwnerPaidOnce)'
  <2>1. CASE Reconcile(w)
    BY <2>1 DEF Reconcile, Goto
  <2>2. CASE BookFinalized(w)
    BY <2>2 DEF BookFinalized, Book, Finish, Goto, AfterBooking
  <2>3. CASE StillUndecided(w)
    BY <2>3 DEF StillUndecided, GiveUpAged, Finish, Goto
  <2>4. CASE Reread(w)
    BY <2>4 DEF Reread, Read
  <2>5. CASE PassDone(w)
    BY <2>5 DEF PassDone, Leave
  <2> QED BY <1>7, <2>1, <2>2, <2>3, <2>4, <2>5 DEF Finalize
<1>8. ASSUME NEW w \in Workers, Share(w) PROVE (OnePayer /\ OwnerPaidOnce)'
  <2>1. CASE TakeGrant(w)
    BY <2>1 DEF TakeGrant, Granted, Goto
  <2>2. CASE PayOwner(w)
    BY <2>2 DEF PayOwner, Goto
  <2>3. CASE PayFailed(w)
    BY <2>3 DEF PayFailed, ReleaseMarker, Goto
  <2>4. CASE RecordSaleShare(w)
    BY <2>4 DEF RecordSaleShare, Finish, Goto
  <2>5. CASE RecordShare(w)
    BY <2>5 DEF RecordShare, Finish, Goto
  <2>6. CASE ShareKept(w)
    BY <2>6 DEF ShareKept, Leave
  <2>7. CASE ShareFailed(w)
    BY <2>7 DEF ShareFailed, Goto
  <2> QED BY <1>8, <2>1, <2>2, <2>3, <2>4, <2>5, <2>6, <2>7 DEF Share
<1>9. ASSUME NEW w \in Workers, Deliver(w) PROVE (OnePayer /\ OwnerPaidOnce)'
  <2>1. CASE FlagRead(w)
    BY <2>1 DEF FlagRead, Read
  <2>2. CASE FlagSet(w)
    BY <2>2 DEF FlagSet, WriteMeta, Goto
  <2>3. CASE FlagCleared(w)
    BY <2>3 DEF FlagCleared, WriteMeta, Leave
  <2>4. CASE DeliverRead(w)
    BY <2>4 DEF DeliverRead, Read
  <2>5. CASE DeliverWrite(w)
    BY <2>5 DEF DeliverWrite, WriteMeta, Goto
  <2>6. CASE Respond(w)
    BY <2>6 DEF Respond, StoreReceipt, Leave
  <2> QED BY <1>9, <2>1, <2>2, <2>3, <2>4, <2>5, <2>6 DEF Deliver
<1>10. ASSUME NEW a \in Auths, Outside(a) PROVE (OnePayer /\ OwnerPaidOnce)'
  <2>1. CASE Land(a)
    BY <2>1 DEF Land, Chain
  <2>2. CASE Fail(a)
    BY <2>2 DEF Fail, Chain
  <2>3. CASE Cancel(a)
    BY <2>3 DEF Cancel, Chain
  <2>4. CASE Tick(a)
    BY <2>4 DEF Tick
  <2>5. CASE Age(a)
    BY <2>5 DEF Age
  <2>6. CASE Bury(a)
    BY <2>6 DEF Bury
  <2>7. CASE Evict(a)
    BY <2>7 DEF Evict
  <2> QED BY <1>10, <2>1, <2>2, <2>3, <2>4, <2>5, <2>6, <2>7 DEF Outside
<1>11. ASSUME NEW w \in Workers, Abort(w) PROVE (OnePayer /\ OwnerPaidOnce)'
  BY <1>11 DEF Abort, Leave, ReleaseSlot
<1>12. CASE Crash
  BY <1>12 DEF Crash
<1>13. CASE UNCHANGED vars
  BY <1>13 DEF vars
<1> QED BY <1>1, <1>2, <1>3, <1>4, <1>5, <1>6, <1>7, <1>8, <1>9, <1>10, <1>11, <1>12, <1>13 DEF Next, Work

-------------------------------------------------------------------------------
(* Where the facilitator settles, what is booked as settled is charged.      *)

\* A worker that books or delivers.
Booking(w) == \/ job[w] = "retry"
              \/ pc[w] \in {"book", "mark", "pay", "paid", "noshare", "unpaid", "flag",
                            "flagwrite", "deliver", "deliverwrite", "receipt"}

ChargedWork ==
  /\ \A w \in Workers : Booking(w) => chain[at[w]] = "charged"
  /\ \A w \in Workers :
       pc[w] = "route" /\ snap[w].status = "settled" => chain[at[w]] = "charged"

\* Every step books and delivers what is charged.
LEMMA ChargedStep ==
  ASSUME ~SelfSettled, TypeOK, Control, ChargedWork, SettledIsCharged, ContentIsPaid, [Next]_vars
  PROVE  (ChargedWork /\ SettledIsCharged /\ ContentIsPaid)'
<1> USE DEF ChargedWork, SettledIsCharged, ContentIsPaid, Booking, Control, TypeOK, Workers, Statuses, Row, RowOf, NoRow,
       ledger, owner, world, work, memory, history
<1>1. ASSUME NEW w \in Requests, NEW a \in Auths, Request(w, a) PROVE (ChargedWork /\ SettledIsCharged /\ ContentIsPaid)'
  BY <1>1 DEF Request, Start, GateOpen
<1>2. ASSUME NEW a \in Auths, AutoFinalize(a) PROVE (ChargedWork /\ SettledIsCharged /\ ContentIsPaid)'
  BY <1>2 DEF AutoFinalize, Start
<1>3. ASSUME NEW a \in Auths, AutoShare(a) PROVE (ChargedWork /\ SettledIsCharged /\ ContentIsPaid)'
  BY <1>3 DEF AutoShare, Start
<1>4. ASSUME NEW w \in Workers, Gate(w) PROVE (ChargedWork /\ SettledIsCharged /\ ContentIsPaid)'
  <2>1. CASE Lookup(w)
    BY <2>1 DEF Lookup, Read
  <2>2. CASE RouteNew(w)
    BY <2>2 DEF RouteNew, Goto
  <2>3. CASE RouteFinalize(w)
    BY <2>3 DEF RouteFinalize, Enter
  <2>4. CASE RouteRetry(w)
    BY <2>4 DEF RouteRetry, Enter, Recovers
  <2>5. CASE RouteRefuse(w)
    BY <2>5 DEF RouteRefuse, Leave
  <2>6. CASE VerifyRejected(w)
    BY <2>6 DEF VerifyRejected, Leave
  <2>7. CASE Verified(w)
    BY <2>7 DEF Verified, Valid, Enter, Finish, Insertable
  <2>8. CASE BookedBefore(w)
    BY <2>8 DEF BookedBefore, Valid, Leave
  <2> QED BY <1>4, <2>1, <2>2, <2>3, <2>4, <2>5, <2>6, <2>7, <2>8 DEF Gate
<1>5. ASSUME NEW w \in Workers, Content(w) PROVE (ChargedWork /\ SettledIsCharged /\ ContentIsPaid)'
  <2>1. CASE ContentReady(w)
    BY <2>1 DEF ContentReady, Proceed, Goto
  <2>2. CASE TakeSlot(w)
    BY <2>2 DEF TakeSlot, Goto, SlotFree
  <2>3. CASE Generated(w)
    BY <2>3 DEF Generated, Proceed, Goto, ReleaseSlot
  <2>4. CASE ContentFailed(w)
    BY <2>4 DEF ContentFailed, FailUnsettled, Finish, Leave, ReleaseSlot
  <2> QED BY <1>5, <2>1, <2>2, <2>3, <2>4 DEF Content
<1>6. ASSUME NEW w \in Workers, Settle(w) PROVE (ChargedWork /\ SettledIsCharged /\ ContentIsPaid)'
  <2>1. CASE SettleSend(w)
    BY <2>1 DEF SettleSend, SettleCall, Goto
  <2>2. CASE SettleUnsent(w)
    BY <2>2 DEF SettleUnsent, SettleCall, Goto
  <2>3. CASE ReplyPaid(w)
    BY <2>3 DEF ReplyPaid, Book, Finish, Goto, AfterBooking
  <2>4. CASE ReplyRefused(w)
    BY <2>4 DEF ReplyRefused, Finish, Leave
  <2>5. CASE ReplyReconciled(w)
    BY <2>5 DEF ReplyReconciled, Book, Finish, Goto, AfterBooking, Reconciled, FoundTx, IsSettlementTx, CarriedHashes
  <2>6. CASE ReplyLost(w)
    BY <2>6 DEF ReplyLost, Park, Finish, Leave, CarriedHashes
  <2> QED BY <1>6, <2>1, <2>2, <2>3, <2>4, <2>5, <2>6 DEF Settle
<1>7. ASSUME NEW w \in Workers, Finalize(w) PROVE (ChargedWork /\ SettledIsCharged /\ ContentIsPaid)'
  <2>1. CASE Reconcile(w)
    BY <2>1 DEF Reconcile, Goto, Reconciled, FoundTx, IsSettlementTx, CarriedHashes
  <2>2. CASE BookFinalized(w)
    BY <2>2 DEF BookFinalized, Book, Finish, Goto, AfterBooking
  <2>3. CASE StillUndecided(w)
    BY <2>3 DEF StillUndecided, GiveUpAged, Finish, Goto
  <2>4. CASE Reread(w)
    BY <2>4 DEF Reread, Read
  <2>5. CASE PassDone(w)
    BY <2>5 DEF PassDone, Leave
  <2> QED BY <1>7, <2>1, <2>2, <2>3, <2>4, <2>5 DEF Finalize
<1>8. ASSUME NEW w \in Workers, Share(w) PROVE (ChargedWork /\ SettledIsCharged /\ ContentIsPaid)'
  <2>1. CASE TakeGrant(w)
    BY <2>1 DEF TakeGrant, Granted, Goto
  <2>2. CASE PayOwner(w)
    BY <2>2 DEF PayOwner, Goto
  <2>3. CASE PayFailed(w)
    BY <2>3 DEF PayFailed, ReleaseMarker, Goto
  <2>4. CASE RecordSaleShare(w)
    BY <2>4 DEF RecordSaleShare, Finish, Goto
  <2>5. CASE RecordShare(w)
    BY <2>5 DEF RecordShare, Finish, Goto
  <2>6. CASE ShareKept(w)
    BY <2>6 DEF ShareKept, Leave
  <2>7. CASE ShareFailed(w)
    BY <2>7 DEF ShareFailed, Goto
  <2> QED BY <1>8, <2>1, <2>2, <2>3, <2>4, <2>5, <2>6, <2>7 DEF Share
<1>9. ASSUME NEW w \in Workers, Deliver(w) PROVE (ChargedWork /\ SettledIsCharged /\ ContentIsPaid)'
  <2>1. CASE FlagRead(w)
    BY <2>1 DEF FlagRead, Read
  <2>2. CASE FlagSet(w)
    BY <2>2 DEF FlagSet, WriteMeta, Goto
  <2>3. CASE FlagCleared(w)
    BY <2>3 DEF FlagCleared, WriteMeta, Leave
  <2>4. CASE DeliverRead(w)
    BY <2>4 DEF DeliverRead, Read
  <2>5. CASE DeliverWrite(w)
    BY <2>5 DEF DeliverWrite, WriteMeta, Goto
  <2>6. CASE Respond(w)
    BY <2>6 DEF Respond, StoreReceipt, Leave
  <2> QED BY <1>9, <2>1, <2>2, <2>3, <2>4, <2>5, <2>6 DEF Deliver
<1>10. ASSUME NEW a \in Auths, Outside(a) PROVE (ChargedWork /\ SettledIsCharged /\ ContentIsPaid)'
  <2>1. CASE Land(a)
    BY <2>1 DEF Land, Chain
  <2>2. CASE Fail(a)
    BY <2>2 DEF Fail, Chain
  <2>3. CASE Cancel(a)
    BY <2>3 DEF Cancel, Chain
  <2>4. CASE Tick(a)
    BY <2>4 DEF Tick
  <2>5. CASE Age(a)
    BY <2>5 DEF Age
  <2>6. CASE Bury(a)
    BY <2>6 DEF Bury
  <2>7. CASE Evict(a)
    BY <2>7 DEF Evict
  <2> QED BY <1>10, <2>1, <2>2, <2>3, <2>4, <2>5, <2>6, <2>7 DEF Outside
<1>11. ASSUME NEW w \in Workers, Abort(w) PROVE (ChargedWork /\ SettledIsCharged /\ ContentIsPaid)'
  BY <1>11 DEF Abort, Leave, ReleaseSlot
<1>12. CASE Crash
  BY <1>12 DEF Crash
<1>13. CASE UNCHANGED vars
  BY <1>13 DEF vars
<1> QED BY <1>1, <1>2, <1>3, <1>4, <1>5, <1>6, <1>7, <1>8, <1>9, <1>10, <1>11, <1>12, <1>13 DEF Next, Work

-------------------------------------------------------------------------------
(* A settled row stays settled.                                               *)

\* Unless it turned a day old too early, no request that carries an aged row runs
\* or can come any more, so that the autopilot alone gives it up.
AgedAlone ==
  /\ \A a \in Auths : early[a] => aged[a]
  /\ \A a \in Auths : aged[a] => left[a] = 0 \/ early[a]
  /\ \A a \in Auths, w \in Requests : aged[a] /\ at[w] = a => early[a]
  /\ \A w \in Workers : pc[w] \in {"reconcile", "giveup"} /\ aged[at[w]]
                          => status[at[w]] = "settle_pending" \/ early[at[w]]

\* Every step leaves an aged row to the autopilot.
LEMMA AgedStep ==
  ASSUME TypeOK, Control, OneSeller, AgedAlone, [Next]_vars
  PROVE  AgedAlone'
<1> USE SaleAssumption DEF AgedAlone, OneSeller, Selling, Past, After, Control, TypeOK, Workers, Statuses, Row, RowOf, NoRow,
       ledger, owner, world, work, memory, history
<1>1. ASSUME NEW w \in Requests, NEW a \in Auths, Request(w, a) PROVE AgedAlone'
  BY <1>1 DEF Request, Start, GateOpen
<1>2. ASSUME NEW a \in Auths, AutoFinalize(a) PROVE AgedAlone'
  BY <1>2 DEF AutoFinalize, Start
<1>3. ASSUME NEW a \in Auths, AutoShare(a) PROVE AgedAlone'
  BY <1>3 DEF AutoShare, Start
<1>4. ASSUME NEW w \in Workers, Gate(w) PROVE AgedAlone'
  <2>1. CASE Lookup(w)
    BY <2>1 DEF Lookup, Read
  <2>2. CASE RouteNew(w)
    BY <2>2 DEF RouteNew, Goto
  <2>3. CASE RouteFinalize(w)
    BY <2>3 DEF RouteFinalize, Enter
  <2>4. CASE RouteRetry(w)
    BY <2>4 DEF RouteRetry, Enter, Recovers
  <2>5. CASE RouteRefuse(w)
    BY <2>5 DEF RouteRefuse, Leave
  <2>6. CASE VerifyRejected(w)
    BY <2>6 DEF VerifyRejected, Leave
  <2>7. CASE Verified(w)
    BY <2>7 DEF Verified, Valid, Enter, Finish, Insertable
  <2>8. CASE BookedBefore(w)
    BY <2>8 DEF BookedBefore, Valid, Leave
  <2> QED BY <1>4, <2>1, <2>2, <2>3, <2>4, <2>5, <2>6, <2>7, <2>8 DEF Gate
<1>5. ASSUME NEW w \in Workers, Content(w) PROVE AgedAlone'
  <2>1. CASE ContentReady(w)
    BY <2>1 DEF ContentReady, Proceed, Goto
  <2>2. CASE TakeSlot(w)
    BY <2>2 DEF TakeSlot, Goto, SlotFree
  <2>3. CASE Generated(w)
    BY <2>3 DEF Generated, Proceed, Goto, ReleaseSlot
  <2>4. CASE ContentFailed(w)
    BY <2>4 DEF ContentFailed, FailUnsettled, Finish, Leave, ReleaseSlot
  <2> QED BY <1>5, <2>1, <2>2, <2>3, <2>4 DEF Content
<1>6. ASSUME NEW w \in Workers, Settle(w) PROVE AgedAlone'
  <2>1. CASE SettleSend(w)
    BY <2>1 DEF SettleSend, SettleCall, Goto
  <2>2. CASE SettleUnsent(w)
    BY <2>2 DEF SettleUnsent, SettleCall, Goto
  <2>3. CASE ReplyPaid(w)
    BY <2>3 DEF ReplyPaid, Book, Finish, Goto, AfterBooking
  <2>4. CASE ReplyRefused(w)
    BY <2>4 DEF ReplyRefused, Finish, Leave
  <2>5. CASE ReplyReconciled(w)
    BY <2>5 DEF ReplyReconciled, Book, Finish, Goto, AfterBooking
  <2>6. CASE ReplyLost(w)
    BY <2>6 DEF ReplyLost, Park, Finish, Leave, CarriedHashes
  <2> QED BY <1>6, <2>1, <2>2, <2>3, <2>4, <2>5, <2>6 DEF Settle
<1>7. ASSUME NEW w \in Workers, Finalize(w) PROVE AgedAlone'
  <2>1. CASE Reconcile(w)
    BY <2>1 DEF Reconcile, Goto
  <2>2. CASE BookFinalized(w)
    BY <2>2 DEF BookFinalized, Book, Finish, Goto, AfterBooking
  <2>3. CASE StillUndecided(w)
    BY <2>3 DEF StillUndecided, GiveUpAged, Finish, Goto
  <2>4. CASE Reread(w)
    BY <2>4 DEF Reread, Read
  <2>5. CASE PassDone(w)
    BY <2>5 DEF PassDone, Leave
  <2> QED BY <1>7, <2>1, <2>2, <2>3, <2>4, <2>5 DEF Finalize
<1>8. ASSUME NEW w \in Workers, Share(w) PROVE AgedAlone'
  <2>1. CASE TakeGrant(w)
    BY <2>1 DEF TakeGrant, Granted, Goto
  <2>2. CASE PayOwner(w)
    BY <2>2 DEF PayOwner, Goto
  <2>3. CASE PayFailed(w)
    BY <2>3 DEF PayFailed, ReleaseMarker, Goto
  <2>4. CASE RecordSaleShare(w)
    BY <2>4 DEF RecordSaleShare, Finish, Goto
  <2>5. CASE RecordShare(w)
    BY <2>5 DEF RecordShare, Finish, Goto
  <2>6. CASE ShareKept(w)
    BY <2>6 DEF ShareKept, Leave
  <2>7. CASE ShareFailed(w)
    BY <2>7 DEF ShareFailed, Goto
  <2> QED BY <1>8, <2>1, <2>2, <2>3, <2>4, <2>5, <2>6, <2>7 DEF Share
<1>9. ASSUME NEW w \in Workers, Deliver(w) PROVE AgedAlone'
  <2>1. CASE FlagRead(w)
    BY <2>1 DEF FlagRead, Read
  <2>2. CASE FlagSet(w)
    BY <2>2 DEF FlagSet, WriteMeta, Goto
  <2>3. CASE FlagCleared(w)
    BY <2>3 DEF FlagCleared, WriteMeta, Leave
  <2>4. CASE DeliverRead(w)
    BY <2>4 DEF DeliverRead, Read
  <2>5. CASE DeliverWrite(w)
    BY <2>5 DEF DeliverWrite, WriteMeta, Goto
  <2>6. CASE Respond(w)
    BY <2>6 DEF Respond, StoreReceipt, Leave
  <2> QED BY <1>9, <2>1, <2>2, <2>3, <2>4, <2>5, <2>6 DEF Deliver
<1>10. ASSUME NEW a \in Auths, Outside(a) PROVE AgedAlone'
  <2>1. CASE Land(a)
    BY <2>1 DEF Land, Chain
  <2>2. CASE Fail(a)
    BY <2>2 DEF Fail, Chain
  <2>3. CASE Cancel(a)
    BY <2>3 DEF Cancel, Chain
  <2>4. CASE Tick(a)
    BY <2>4 DEF Tick
  <2>5. CASE Age(a)
    <3>1. /\ ~aged[a] /\ ~early[a] /\ status[a] = "settle_pending"
          /\ aged' = [aged EXCEPT ![a] = TRUE] /\ early' = [early EXCEPT ![a] = StillOpen(a)]
          /\ UNCHANGED <<left, at, pc, status>>
      BY <2>5 DEF Age
    <3>2. early'[a] = StillOpen(a)
      BY <3>1
    <3>3. \A b \in Auths \ {a} : early'[b] = early[b] /\ aged'[b] = aged[b]
      BY <3>1
    <3>4. left[a] = 0 \/ early'[a]
      <4>1. ASSUME left[a] > 0 PROVE early'[a]
        BY <3>2, <4>1, Zenon DEF StillOpen
      <4> QED BY <4>1
    <3>5. \A w \in Workers : at[w] = a => early'[a]
      BY <3>2 DEF StillOpen
    <3>6. \A b \in Auths : aged'[b] => left'[b] = 0 \/ early'[b]
      BY <3>1, <3>3, <3>4
    <3>7. \A b \in Auths, w \in Requests : aged'[b] /\ at'[w] = b => early'[b]
      BY <3>1, <3>3, <3>5
    <3>8. \A b \in Auths : early'[b] => aged'[b]
      BY <3>1, <3>3
    <3>9. \A w \in Workers : pc'[w] \in {"reconcile", "giveup"} /\ aged'[at'[w]]
                               => status'[at'[w]] = "settle_pending" \/ early'[at'[w]]
      BY <3>1, <3>3
    <3> QED BY <3>6, <3>7, <3>8, <3>9
  <2>6. CASE Bury(a)
    BY <2>6 DEF Bury
  <2>7. CASE Evict(a)
    BY <2>7 DEF Evict
  <2> QED BY <1>10, <2>1, <2>2, <2>3, <2>4, <2>5, <2>6, <2>7 DEF Outside
<1>11. ASSUME NEW w \in Workers, Abort(w) PROVE AgedAlone'
  BY <1>11 DEF Abort, Leave, ReleaseSlot
<1>12. CASE Crash
  BY <1>12 DEF Crash
<1>13. CASE UNCHANGED vars
  BY <1>13 DEF vars
<1> QED BY <1>1, <1>2, <1>3, <1>4, <1>5, <1>6, <1>7, <1>8, <1>9, <1>10, <1>11, <1>12, <1>13 DEF Next, Work

\* No step takes a settled row back that did not turn a day old too early.
LEMMA FinalStep ==
  ASSUME TypeOK, Control, OneSeller, AgedAlone, NEW b \in Auths, status[b] = "settled", [Next]_vars
  PROVE  status'[b] = "settled" \/ early[b]
<1> USE DEF AgedAlone, OneSeller, Selling, Control, TypeOK, Workers, Statuses, Row, RowOf, NoRow,
       ledger, owner, world, work, memory, history
<1>1. ASSUME NEW w \in Requests, NEW a \in Auths, Request(w, a) PROVE status'[b] = "settled" \/ early[b]
  BY <1>1 DEF Request, Start, GateOpen
<1>2. ASSUME NEW a \in Auths, AutoFinalize(a) PROVE status'[b] = "settled" \/ early[b]
  BY <1>2 DEF AutoFinalize, Start
<1>3. ASSUME NEW a \in Auths, AutoShare(a) PROVE status'[b] = "settled" \/ early[b]
  BY <1>3 DEF AutoShare, Start
<1>4. ASSUME NEW w \in Workers, Gate(w) PROVE status'[b] = "settled" \/ early[b]
  <2>1. CASE Lookup(w)
    BY <2>1 DEF Lookup, Read
  <2>2. CASE RouteNew(w)
    BY <2>2 DEF RouteNew, Goto
  <2>3. CASE RouteFinalize(w)
    BY <2>3 DEF RouteFinalize, Enter
  <2>4. CASE RouteRetry(w)
    BY <2>4 DEF RouteRetry, Enter, Recovers
  <2>5. CASE RouteRefuse(w)
    BY <2>5 DEF RouteRefuse, Leave
  <2>6. CASE VerifyRejected(w)
    BY <2>6 DEF VerifyRejected, Leave
  <2>7. CASE Verified(w)
    BY <2>7 DEF Verified, Valid, Enter, Finish, Insertable
  <2>8. CASE BookedBefore(w)
    BY <2>8 DEF BookedBefore, Valid, Leave
  <2> QED BY <1>4, <2>1, <2>2, <2>3, <2>4, <2>5, <2>6, <2>7, <2>8 DEF Gate
<1>5. ASSUME NEW w \in Workers, Content(w) PROVE status'[b] = "settled" \/ early[b]
  <2>1. CASE ContentReady(w)
    BY <2>1 DEF ContentReady, Proceed, Goto
  <2>2. CASE TakeSlot(w)
    BY <2>2 DEF TakeSlot, Goto, SlotFree
  <2>3. CASE Generated(w)
    BY <2>3 DEF Generated, Proceed, Goto, ReleaseSlot
  <2>4. CASE ContentFailed(w)
    BY <2>4 DEF ContentFailed, FailUnsettled, Finish, Leave, ReleaseSlot
  <2> QED BY <1>5, <2>1, <2>2, <2>3, <2>4 DEF Content
<1>6. ASSUME NEW w \in Workers, Settle(w) PROVE status'[b] = "settled" \/ early[b]
  <2>1. CASE SettleSend(w)
    BY <2>1 DEF SettleSend, SettleCall, Goto
  <2>2. CASE SettleUnsent(w)
    BY <2>2 DEF SettleUnsent, SettleCall, Goto
  <2>3. CASE ReplyPaid(w)
    BY <2>3 DEF ReplyPaid, Book, Finish, Goto, AfterBooking
  <2>4. CASE ReplyRefused(w)
    BY <2>4 DEF ReplyRefused, Finish, Leave
  <2>5. CASE ReplyReconciled(w)
    BY <2>5 DEF ReplyReconciled, Book, Finish, Goto, AfterBooking
  <2>6. CASE ReplyLost(w)
    BY <2>6 DEF ReplyLost, Park, Finish, Leave, CarriedHashes
  <2> QED BY <1>6, <2>1, <2>2, <2>3, <2>4, <2>5, <2>6 DEF Settle
<1>7. ASSUME NEW w \in Workers, Finalize(w) PROVE status'[b] = "settled" \/ early[b]
  <2>1. CASE Reconcile(w)
    BY <2>1 DEF Reconcile, Goto
  <2>2. CASE BookFinalized(w)
    BY <2>2 DEF BookFinalized, Book, Finish, Goto, AfterBooking
  <2>3. CASE StillUndecided(w)
    BY <2>3 DEF StillUndecided, GiveUpAged, Finish, Goto
  <2>4. CASE Reread(w)
    BY <2>4 DEF Reread, Read
  <2>5. CASE PassDone(w)
    BY <2>5 DEF PassDone, Leave
  <2> QED BY <1>7, <2>1, <2>2, <2>3, <2>4, <2>5 DEF Finalize
<1>8. ASSUME NEW w \in Workers, Share(w) PROVE status'[b] = "settled" \/ early[b]
  <2>1. CASE TakeGrant(w)
    BY <2>1 DEF TakeGrant, Granted, Goto
  <2>2. CASE PayOwner(w)
    BY <2>2 DEF PayOwner, Goto
  <2>3. CASE PayFailed(w)
    BY <2>3 DEF PayFailed, ReleaseMarker, Goto
  <2>4. CASE RecordSaleShare(w)
    BY <2>4 DEF RecordSaleShare, Finish, Goto
  <2>5. CASE RecordShare(w)
    BY <2>5 DEF RecordShare, Finish, Goto
  <2>6. CASE ShareKept(w)
    BY <2>6 DEF ShareKept, Leave
  <2>7. CASE ShareFailed(w)
    BY <2>7 DEF ShareFailed, Goto
  <2> QED BY <1>8, <2>1, <2>2, <2>3, <2>4, <2>5, <2>6, <2>7 DEF Share
<1>9. ASSUME NEW w \in Workers, Deliver(w) PROVE status'[b] = "settled" \/ early[b]
  <2>1. CASE FlagRead(w)
    BY <2>1 DEF FlagRead, Read
  <2>2. CASE FlagSet(w)
    BY <2>2 DEF FlagSet, WriteMeta, Goto
  <2>3. CASE FlagCleared(w)
    BY <2>3 DEF FlagCleared, WriteMeta, Leave
  <2>4. CASE DeliverRead(w)
    BY <2>4 DEF DeliverRead, Read
  <2>5. CASE DeliverWrite(w)
    BY <2>5 DEF DeliverWrite, WriteMeta, Goto
  <2>6. CASE Respond(w)
    BY <2>6 DEF Respond, StoreReceipt, Leave
  <2> QED BY <1>9, <2>1, <2>2, <2>3, <2>4, <2>5, <2>6 DEF Deliver
<1>10. ASSUME NEW a \in Auths, Outside(a) PROVE status'[b] = "settled" \/ early[b]
  <2>1. CASE Land(a)
    BY <2>1 DEF Land, Chain
  <2>2. CASE Fail(a)
    BY <2>2 DEF Fail, Chain
  <2>3. CASE Cancel(a)
    BY <2>3 DEF Cancel, Chain
  <2>4. CASE Tick(a)
    BY <2>4 DEF Tick
  <2>5. CASE Age(a)
    BY <2>5 DEF Age
  <2>6. CASE Bury(a)
    BY <2>6 DEF Bury
  <2>7. CASE Evict(a)
    BY <2>7 DEF Evict
  <2> QED BY <1>10, <2>1, <2>2, <2>3, <2>4, <2>5, <2>6, <2>7 DEF Outside
<1>11. ASSUME NEW w \in Workers, Abort(w) PROVE status'[b] = "settled" \/ early[b]
  BY <1>11 DEF Abort, Leave, ReleaseSlot
<1>12. CASE Crash
  BY <1>12 DEF Crash
<1>13. CASE UNCHANGED vars
  BY <1>13 DEF vars
<1> QED BY <1>1, <1>2, <1>3, <1>4, <1>5, <1>6, <1>7, <1>8, <1>9, <1>10, <1>11, <1>12, <1>13 DEF Next, Work

-------------------------------------------------------------------------------
(* A sale given up stays free.                                                *)

\* Nothing is sent before the settlement call, a row carries a hash only once it
\* is booked, and the autopilot gives an aged row up only if it is not charged;
\* the last three but for a row that turned a day old too early.
FreeRows ==
  /\ \A a \in Auths : inLogs[a]
  /\ \A a \in Auths : hash[a] \in {None, a}
  /\ \A a \in Auths : calls[a] = 0 => chain[a] \in {"unused", "cancelled"}
  /\ \A a \in Auths : status[a] = "content_failed" => calls[a] = 0
  /\ \A a \in Auths : status[a] # "settled" => hash[a] = None \/ early[a]
  /\ \A a \in Auths : status[a] = "settle_failed" /\ chain[a] = "sent"
                         => left[a] = 0 \/ early[a]
  /\ \A w \in Workers : pc[w] = "giveup" /\ aged[at[w]]
                            => chain[at[w]] # "charged" \/ early[at[w]]

\* Every step keeps what was given up uncharged.
LEMMA FreeStep ==
  ASSUME ~SelfSettled, ~Outages, TypeOK, Control, OneSeller, AgedAlone, FreeRows, FailedIsFree, [Next]_vars
  PROVE  (FreeRows /\ FailedIsFree)'
<1> USE SaleAssumption DEF FreeRows, FailedIsFree, AgedAlone, OneSeller, Selling, Control, TypeOK, Workers, Statuses, Row, RowOf, NoRow,
       ledger, owner, world, work, memory, history
<1>1. ASSUME NEW w \in Requests, NEW a \in Auths, Request(w, a) PROVE (FreeRows /\ FailedIsFree)'
  BY <1>1 DEF Request, Start, GateOpen
<1>2. ASSUME NEW a \in Auths, AutoFinalize(a) PROVE (FreeRows /\ FailedIsFree)'
  BY <1>2 DEF AutoFinalize, Start
<1>3. ASSUME NEW a \in Auths, AutoShare(a) PROVE (FreeRows /\ FailedIsFree)'
  BY <1>3 DEF AutoShare, Start
<1>4. ASSUME NEW w \in Workers, Gate(w) PROVE (FreeRows /\ FailedIsFree)'
  <2>1. CASE Lookup(w)
    BY <2>1 DEF Lookup, Read
  <2>2. CASE RouteNew(w)
    BY <2>2 DEF RouteNew, Goto
  <2>3. CASE RouteFinalize(w)
    BY <2>3 DEF RouteFinalize, Enter
  <2>4. CASE RouteRetry(w)
    BY <2>4 DEF RouteRetry, Enter, Recovers
  <2>5. CASE RouteRefuse(w)
    BY <2>5 DEF RouteRefuse, Leave
  <2>6. CASE VerifyRejected(w)
    BY <2>6 DEF VerifyRejected, Leave
  <2>7. CASE Verified(w)
    BY <2>7 DEF Verified, Valid, Enter, Finish, Insertable
  <2>8. CASE BookedBefore(w)
    BY <2>8 DEF BookedBefore, Valid, Leave
  <2> QED BY <1>4, <2>1, <2>2, <2>3, <2>4, <2>5, <2>6, <2>7, <2>8 DEF Gate
<1>5. ASSUME NEW w \in Workers, Content(w) PROVE (FreeRows /\ FailedIsFree)'
  <2>1. CASE ContentReady(w)
    BY <2>1 DEF ContentReady, Proceed, Goto
  <2>2. CASE TakeSlot(w)
    BY <2>2 DEF TakeSlot, Goto, SlotFree
  <2>3. CASE Generated(w)
    BY <2>3 DEF Generated, Proceed, Goto, ReleaseSlot
  <2>4. CASE ContentFailed(w)
    BY <2>4 DEF ContentFailed, FailUnsettled, Finish, Leave, ReleaseSlot
  <2> QED BY <1>5, <2>1, <2>2, <2>3, <2>4 DEF Content
<1>6. ASSUME NEW w \in Workers, Settle(w) PROVE (FreeRows /\ FailedIsFree)'
  <2>1. CASE SettleSend(w)
    BY <2>1 DEF SettleSend, SettleCall, Goto
  <2>2. CASE SettleUnsent(w)
    BY <2>2 DEF SettleUnsent, SettleCall, Goto
  <2>3. CASE ReplyPaid(w)
    BY <2>3 DEF ReplyPaid, Book, Finish, Goto, AfterBooking
  <2>4. CASE ReplyRefused(w)
    BY <2>4 DEF ReplyRefused, Finish, Leave
  <2>5. CASE ReplyReconciled(w)
    BY <2>5 DEF ReplyReconciled, Book, Finish, Goto, AfterBooking, Reconciled, Used, FoundTx, IsSettlementTx, CarriedHashes
  <2>6. CASE ReplyLost(w)
    BY <2>6 DEF ReplyLost, Park, Finish, Leave, CarriedHashes
  <2> QED BY <1>6, <2>1, <2>2, <2>3, <2>4, <2>5, <2>6 DEF Settle
<1>7. ASSUME NEW w \in Workers, Finalize(w) PROVE (FreeRows /\ FailedIsFree)'
  <2>1. CASE Reconcile(w)
    BY <2>1 DEF Reconcile, Goto, Reconciled, Used, FoundTx, IsSettlementTx, CarriedHashes
  <2>2. CASE BookFinalized(w)
    BY <2>2 DEF BookFinalized, Book, Finish, Goto, AfterBooking
  <2>3. CASE StillUndecided(w)
    BY <2>3 DEF StillUndecided, GiveUpAged, Finish, Goto
  <2>4. CASE Reread(w)
    BY <2>4 DEF Reread, Read
  <2>5. CASE PassDone(w)
    BY <2>5 DEF PassDone, Leave
  <2> QED BY <1>7, <2>1, <2>2, <2>3, <2>4, <2>5 DEF Finalize
<1>8. ASSUME NEW w \in Workers, Share(w) PROVE (FreeRows /\ FailedIsFree)'
  <2>1. CASE TakeGrant(w)
    BY <2>1 DEF TakeGrant, Granted, Goto
  <2>2. CASE PayOwner(w)
    BY <2>2 DEF PayOwner, Goto
  <2>3. CASE PayFailed(w)
    BY <2>3 DEF PayFailed, ReleaseMarker, Goto
  <2>4. CASE RecordSaleShare(w)
    BY <2>4 DEF RecordSaleShare, Finish, Goto
  <2>5. CASE RecordShare(w)
    BY <2>5 DEF RecordShare, Finish, Goto
  <2>6. CASE ShareKept(w)
    BY <2>6 DEF ShareKept, Leave
  <2>7. CASE ShareFailed(w)
    BY <2>7 DEF ShareFailed, Goto
  <2> QED BY <1>8, <2>1, <2>2, <2>3, <2>4, <2>5, <2>6, <2>7 DEF Share
<1>9. ASSUME NEW w \in Workers, Deliver(w) PROVE (FreeRows /\ FailedIsFree)'
  <2>1. CASE FlagRead(w)
    BY <2>1 DEF FlagRead, Read
  <2>2. CASE FlagSet(w)
    BY <2>2 DEF FlagSet, WriteMeta, Goto
  <2>3. CASE FlagCleared(w)
    BY <2>3 DEF FlagCleared, WriteMeta, Leave
  <2>4. CASE DeliverRead(w)
    BY <2>4 DEF DeliverRead, Read
  <2>5. CASE DeliverWrite(w)
    BY <2>5 DEF DeliverWrite, WriteMeta, Goto
  <2>6. CASE Respond(w)
    BY <2>6 DEF Respond, StoreReceipt, Leave
  <2> QED BY <1>9, <2>1, <2>2, <2>3, <2>4, <2>5, <2>6 DEF Deliver
<1>10. ASSUME NEW a \in Auths, Outside(a) PROVE (FreeRows /\ FailedIsFree)'
  <2>1. CASE Land(a)
    BY <2>1 DEF Land, Chain
  <2>2. CASE Fail(a)
    BY <2>2 DEF Fail, Chain
  <2>3. CASE Cancel(a)
    BY <2>3 DEF Cancel, Chain
  <2>4. CASE Tick(a)
    BY <2>4 DEF Tick
  <2>5. CASE Age(a)
    BY <2>5 DEF Age, StillOpen
  <2>6. CASE Bury(a)
    BY <2>6 DEF Bury
  <2>7. CASE Evict(a)
    BY <2>7 DEF Evict
  <2> QED BY <1>10, <2>1, <2>2, <2>3, <2>4, <2>5, <2>6, <2>7 DEF Outside
<1>11. ASSUME NEW w \in Workers, Abort(w) PROVE (FreeRows /\ FailedIsFree)'
  BY <1>11 DEF Abort, Leave, ReleaseSlot
<1>12. CASE Crash
  BY <1>12 DEF Crash
<1>13. CASE UNCHANGED vars
  BY <1>13 DEF vars
<1> QED BY <1>1, <1>2, <1>3, <1>4, <1>5, <1>6, <1>7, <1>8, <1>9, <1>10, <1>11, <1>12, <1>13 DEF Next, Work

-------------------------------------------------------------------------------
(* The generation slots.                                                      *)

Generating == {w \in Workers : pc[w] = "generate"}

\* A step takes one slot, gives one back, gives all back, or leaves them alone.
SlotMove ==
  \/ free' = free /\ Generating' = Generating
  \/ \E w \in Workers \ Generating :
       free > 0 /\ free' = free - 1 /\ Generating' = Generating \cup {w}
  \/ \E w \in Generating : free' = free + 1 /\ Generating' = Generating \ {w}
  \/ free' = Slots /\ Generating' = {}

\* How a step moves the slots.
LEMMA SlotStep ==
  ASSUME TypeOK, [Next]_vars
  PROVE  SlotMove
<1> USE DEF SlotMove, Generating, TypeOK, Workers, ledger, owner, world, work, memory, history
<1>1. ASSUME NEW w \in Requests, NEW a \in Auths, Request(w, a) PROVE SlotMove
  BY <1>1 DEF Request, Start, GateOpen
<1>2. ASSUME NEW a \in Auths, AutoFinalize(a) PROVE SlotMove
  BY <1>2 DEF AutoFinalize, Start
<1>3. ASSUME NEW a \in Auths, AutoShare(a) PROVE SlotMove
  BY <1>3 DEF AutoShare, Start
<1>4. ASSUME NEW w \in Workers, Gate(w) PROVE SlotMove
  <2>1. CASE Lookup(w)
    BY <2>1 DEF Lookup, Read
  <2>2. CASE RouteNew(w)
    BY <2>2 DEF RouteNew, Goto
  <2>3. CASE RouteFinalize(w)
    BY <2>3 DEF RouteFinalize, Enter
  <2>4. CASE RouteRetry(w)
    BY <2>4 DEF RouteRetry, Enter, Recovers
  <2>5. CASE RouteRefuse(w)
    BY <2>5 DEF RouteRefuse, Leave
  <2>6. CASE VerifyRejected(w)
    BY <2>6 DEF VerifyRejected, Leave
  <2>7. CASE Verified(w)
    BY <2>7 DEF Verified, Valid, Enter, Finish, Insertable
  <2>8. CASE BookedBefore(w)
    BY <2>8 DEF BookedBefore, Valid, Leave
  <2> QED BY <1>4, <2>1, <2>2, <2>3, <2>4, <2>5, <2>6, <2>7, <2>8 DEF Gate
<1>5. ASSUME NEW w \in Workers, Content(w) PROVE SlotMove
  <2>1. CASE ContentReady(w)
    BY <2>1 DEF ContentReady, Proceed, Goto
  <2>2. CASE TakeSlot(w)
    BY <2>2 DEF TakeSlot, Goto, SlotFree
  <2>3. CASE Generated(w)
    BY <2>3 DEF Generated, Proceed, Goto, ReleaseSlot
  <2>4. CASE ContentFailed(w)
    BY <2>4 DEF ContentFailed, FailUnsettled, Finish, Leave, ReleaseSlot
  <2> QED BY <1>5, <2>1, <2>2, <2>3, <2>4 DEF Content
<1>6. ASSUME NEW w \in Workers, Settle(w) PROVE SlotMove
  <2>1. CASE SettleSend(w)
    BY <2>1 DEF SettleSend, SettleCall, Goto
  <2>2. CASE SettleUnsent(w)
    BY <2>2 DEF SettleUnsent, SettleCall, Goto
  <2>3. CASE ReplyPaid(w)
    BY <2>3 DEF ReplyPaid, Book, Finish, Goto, AfterBooking
  <2>4. CASE ReplyRefused(w)
    BY <2>4 DEF ReplyRefused, Finish, Leave
  <2>5. CASE ReplyReconciled(w)
    BY <2>5 DEF ReplyReconciled, Book, Finish, Goto, AfterBooking
  <2>6. CASE ReplyLost(w)
    BY <2>6 DEF ReplyLost, Park, Finish, Leave, CarriedHashes
  <2> QED BY <1>6, <2>1, <2>2, <2>3, <2>4, <2>5, <2>6 DEF Settle
<1>7. ASSUME NEW w \in Workers, Finalize(w) PROVE SlotMove
  <2>1. CASE Reconcile(w)
    BY <2>1 DEF Reconcile, Goto
  <2>2. CASE BookFinalized(w)
    BY <2>2 DEF BookFinalized, Book, Finish, Goto, AfterBooking
  <2>3. CASE StillUndecided(w)
    BY <2>3 DEF StillUndecided, GiveUpAged, Finish, Goto
  <2>4. CASE Reread(w)
    BY <2>4 DEF Reread, Read
  <2>5. CASE PassDone(w)
    BY <2>5 DEF PassDone, Leave
  <2> QED BY <1>7, <2>1, <2>2, <2>3, <2>4, <2>5 DEF Finalize
<1>8. ASSUME NEW w \in Workers, Share(w) PROVE SlotMove
  <2>1. CASE TakeGrant(w)
    BY <2>1 DEF TakeGrant, Granted, Goto
  <2>2. CASE PayOwner(w)
    BY <2>2 DEF PayOwner, Goto
  <2>3. CASE PayFailed(w)
    BY <2>3 DEF PayFailed, ReleaseMarker, Goto
  <2>4. CASE RecordSaleShare(w)
    BY <2>4 DEF RecordSaleShare, Finish, Goto
  <2>5. CASE RecordShare(w)
    BY <2>5 DEF RecordShare, Finish, Goto
  <2>6. CASE ShareKept(w)
    BY <2>6 DEF ShareKept, Leave
  <2>7. CASE ShareFailed(w)
    BY <2>7 DEF ShareFailed, Goto
  <2> QED BY <1>8, <2>1, <2>2, <2>3, <2>4, <2>5, <2>6, <2>7 DEF Share
<1>9. ASSUME NEW w \in Workers, Deliver(w) PROVE SlotMove
  <2>1. CASE FlagRead(w)
    BY <2>1 DEF FlagRead, Read
  <2>2. CASE FlagSet(w)
    BY <2>2 DEF FlagSet, WriteMeta, Goto
  <2>3. CASE FlagCleared(w)
    BY <2>3 DEF FlagCleared, WriteMeta, Leave
  <2>4. CASE DeliverRead(w)
    BY <2>4 DEF DeliverRead, Read
  <2>5. CASE DeliverWrite(w)
    BY <2>5 DEF DeliverWrite, WriteMeta, Goto
  <2>6. CASE Respond(w)
    BY <2>6 DEF Respond, StoreReceipt, Leave
  <2> QED BY <1>9, <2>1, <2>2, <2>3, <2>4, <2>5, <2>6 DEF Deliver
<1>10. ASSUME NEW a \in Auths, Outside(a) PROVE SlotMove
  <2>1. CASE Land(a)
    BY <2>1 DEF Land, Chain
  <2>2. CASE Fail(a)
    BY <2>2 DEF Fail, Chain
  <2>3. CASE Cancel(a)
    BY <2>3 DEF Cancel, Chain
  <2>4. CASE Tick(a)
    BY <2>4 DEF Tick
  <2>5. CASE Age(a)
    BY <2>5 DEF Age
  <2>6. CASE Bury(a)
    BY <2>6 DEF Bury
  <2>7. CASE Evict(a)
    BY <2>7 DEF Evict
  <2> QED BY <1>10, <2>1, <2>2, <2>3, <2>4, <2>5, <2>6, <2>7 DEF Outside
<1>11. ASSUME NEW w \in Workers, Abort(w) PROVE SlotMove
  BY <1>11 DEF Abort, Leave, ReleaseSlot
<1>12. CASE Crash
  BY <1>12 DEF Crash
<1>13. CASE UNCHANGED vars
  BY <1>13 DEF vars
<1> QED BY <1>1, <1>2, <1>3, <1>4, <1>5, <1>6, <1>7, <1>8, <1>9, <1>10, <1>11, <1>12, <1>13 DEF Next, Work

-------------------------------------------------------------------------------
(* The refinement of PaidSale.                                                *)

Kept(b) == /\ SaleState(b)' = SaleState(b)
           /\ points'[b] > 0 <=> points[b] > 0
           /\ early'[b] = early[b]

Moved(b, from, to) == /\ SaleState(b) = from /\ SaleState(b)' = to
                      /\ points'[b] > 0 <=> points[b] > 0
                      /\ early'[b] = early[b]

Wronged(b) == early[b] /\ (Moved(b, "void", "wronged") \/ Moved(b, "charged", "wronged"))

Lapsed(b) == /\ SaleState(b) # "void"
             /\ SaleState(b)' = SaleState(b)
             /\ points'[b] > 0 <=> points[b] > 0
             /\ ~early[b] /\ early'[b]

OwnerPaid(b) == /\ SaleState(b) \in {"charged", "served", "wronged"}
                /\ SaleState(b)' = SaleState(b)
                /\ points[b] = 0 /\ points'[b] > 0
                /\ early'[b] = early[b]

\* A step keeps every sale as it is, or moves one of them along.
PromiseMove ==
  \/ \A b \in Auths : Kept(b)
  \/ \E a \in Auths : /\ \A b \in Auths \ {a} : Kept(b)
                      /\ \/ Moved(a, "open", "void")    \/ Moved(a, "open", "charged")
                         \/ Moved(a, "charged", "served") \/ Moved(a, "wronged", "served")
                         \/ Moved(a, "wronged", "charged")
                         \/ Wronged(a) \/ Lapsed(a) \/ OwnerPaid(a)

\* What the mapping sees of a sale.
LEMMA KeptWhen ==
  ASSUME NEW b \in Auths, Failed(b)' <=> Failed(b), served'[b] <=> served[b],
         chain'[b] = "charged" <=> chain[b] = "charged", points'[b] = points[b],
         early'[b] = early[b]
  PROVE  Kept(b)
BY DEF Kept, SaleState

\* A failed or served one that is written settle_failed.
LEMMA FailedAgain ==
  ASSUME NEW b \in Auths, Failed(b) \/ served[b], Failed(b)', served'[b] = served[b],
         chain'[b] = chain[b], points'[b] = points[b], early'[b] = early[b]
  PROVE  Kept(b)
BY DEF Kept, SaleState

\* A charged one that is given up.
LEMMA WrongWhen ==
  ASSUME NEW b \in Auths, ~Failed(b), Failed(b)', ~served[b], served'[b] = served[b],
         chain[b] = "charged", chain'[b] = chain[b], points'[b] = points[b],
         early[b], early'[b] = early[b]
  PROVE  Wronged(b)
BY DEF Wronged, Moved, SaleState

\* One that is given up uncharged.
LEMMA VoidWhen ==
  ASSUME NEW b \in Auths, ~Failed(b), Failed(b)', ~served[b], ~served'[b],
         chain[b] # "charged", chain'[b] # "charged", points'[b] = points[b],
         early'[b] = early[b]
  PROVE  Moved(b, "open", "void")
BY DEF Moved, SaleState

\* One that is served.
LEMMA ServedWhen ==
  ASSUME NEW b \in Auths, ~served[b], served'[b],
         chain[b] = "charged", points'[b] = points[b], early'[b] = early[b]
  PROVE  Moved(b, "charged", "served") \/ Moved(b, "wronged", "served")
BY DEF Moved, SaleState

\* A charged row that is written settled.
LEMMA RightWhen ==
  ASSUME NEW b \in Auths, ~Failed(b)', served'[b] = served[b], chain[b] = "charged",
         chain'[b] = chain[b], points'[b] = points[b], early'[b] = early[b]
  PROVE  Kept(b) \/ Moved(b, "wronged", "charged")
BY DEF Kept, Moved, SaleState

\* How a step moves the sales.
LEMMA PromiseStep ==
  ASSUME ~SelfSettled, ~Outages, TypeOK, Control, OneSeller, OnePayer, ChargedWork, ContentIsPaid, AgedAlone, FreeRows, FailedIsFree, [Next]_vars
  PROVE  PromiseMove
<1> USE DEF ContentIsPaid, FailedIsFree,
       ChargedWork, Booking, FreeRows, AgedAlone, OnePayer, OneSeller, Selling, Control, TypeOK, Workers, Statuses, Row, RowOf, NoRow,
       ledger, owner, world, work, memory, history
<1>1. ASSUME NEW w \in Requests, NEW a \in Auths, Request(w, a) PROVE PromiseMove
  BY <1>1 DEF Request, Start, GateOpen, PromiseMove, Kept, SaleState, Failed
<1>2. ASSUME NEW a \in Auths, AutoFinalize(a) PROVE PromiseMove
  BY <1>2 DEF AutoFinalize, Start, PromiseMove, Kept, SaleState, Failed
<1>3. ASSUME NEW a \in Auths, AutoShare(a) PROVE PromiseMove
  BY <1>3 DEF AutoShare, Start, PromiseMove, Kept, SaleState, Failed
<1>4. ASSUME NEW w \in Workers, Gate(w) PROVE PromiseMove
  <2>1. CASE Lookup(w)
    BY <2>1 DEF Lookup, Read, PromiseMove, Kept, SaleState, Failed
  <2>2. CASE RouteNew(w)
    BY <2>2 DEF RouteNew, Goto, PromiseMove, Kept, SaleState, Failed
  <2>3. CASE RouteFinalize(w)
    BY <2>3 DEF RouteFinalize, Enter, PromiseMove, Kept, SaleState, Failed
  <2>4. CASE RouteRetry(w)
    BY <2>4 DEF RouteRetry, Enter, Recovers, PromiseMove, Kept, SaleState, Failed
  <2>5. CASE RouteRefuse(w)
    BY <2>5 DEF RouteRefuse, Leave, PromiseMove, Kept, SaleState, Failed
  <2>6. CASE VerifyRejected(w)
    BY <2>6 DEF VerifyRejected, Leave, PromiseMove, Kept, SaleState, Failed
  <2>7. CASE Verified(w)
    <3>1. ASSUME NEW b \in Auths PROVE Kept(b)
      <4>1. CASE b = at[w]
        BY <2>7, <4>1 DEF Verified, Valid, Enter, Finish, Insertable, Kept, Moved, OwnerPaid, SaleState, Failed
      <4>2. CASE b # at[w]
        BY <2>7, <4>2 DEF Verified, Valid, Enter, Finish, Insertable, Kept, Moved, OwnerPaid, SaleState, Failed
      <4> QED BY <4>1, <4>2
    <3> QED BY <3>1 DEF PromiseMove
  <2>8. CASE BookedBefore(w)
    BY <2>8 DEF BookedBefore, Valid, Leave, PromiseMove, Kept, SaleState, Failed
  <2> QED BY <1>4, <2>1, <2>2, <2>3, <2>4, <2>5, <2>6, <2>7, <2>8 DEF Gate
<1>5. ASSUME NEW w \in Workers, Content(w) PROVE PromiseMove
  <2>1. CASE ContentReady(w)
    BY <2>1 DEF ContentReady, Proceed, Goto, PromiseMove, Kept, SaleState, Failed
  <2>2. CASE TakeSlot(w)
    BY <2>2 DEF TakeSlot, Goto, SlotFree, PromiseMove, Kept, SaleState, Failed
  <2>3. CASE Generated(w)
    BY <2>3 DEF Generated, Proceed, Goto, ReleaseSlot, PromiseMove, Kept, SaleState, Failed
  <2>4. CASE ContentFailed(w)
    <3>1. CASE job[w] = "retry"
      <4>1. ASSUME NEW b \in Auths PROVE Kept(b)
        <5>1. CASE b = at[w]
          BY <2>4, <3>1, <5>1 DEF ContentFailed, FailUnsettled, Finish, Leave, ReleaseSlot, Kept, Moved, OwnerPaid, SaleState, Failed
        <5>2. CASE b # at[w]
          BY <2>4, <3>1, <5>2 DEF ContentFailed, FailUnsettled, Finish, Leave, ReleaseSlot, Kept, Moved, OwnerPaid, SaleState, Failed
        <5> QED BY <5>1, <5>2
      <4> QED BY <4>1 DEF PromiseMove
    <3>2. CASE job[w] # "retry"
      <4>1. /\ at[w] \in Auths /\ status[at[w]] \in {"pending", "settle_pending"}
           /\ chain[at[w]] # "charged" /\ ~served[at[w]]
        BY <2>4, <3>2 DEF ContentFailed, FailUnsettled, Finish, Leave, ReleaseSlot
      <4>2. /\ status' = [status EXCEPT ![at[w]] = "content_failed"]
           /\ UNCHANGED <<chain, served, points, early>>
        BY <2>4, <3>2 DEF ContentFailed, FailUnsettled, Finish, Leave, ReleaseSlot
      <4>3. ASSUME NEW b \in Auths \ {at[w]} PROVE Kept(b)
        BY <4>2, KeptWhen DEF Failed
      <4>4. Moved(at[w], "open", "void")
        BY <4>1, <4>2, VoidWhen DEF Failed
      <4> QED BY <4>1, <4>3, <4>4 DEF PromiseMove
    <3> QED BY <3>1, <3>2
  <2> QED BY <1>5, <2>1, <2>2, <2>3, <2>4 DEF Content
<1>6. ASSUME NEW w \in Workers, Settle(w) PROVE PromiseMove
  <2>1. CASE SettleSend(w)
    <3>1. ASSUME NEW b \in Auths PROVE Kept(b)
      <4>1. CASE b = at[w]
        BY <2>1, <4>1 DEF SettleSend, SettleCall, Goto, Kept, Moved, OwnerPaid, SaleState, Failed
      <4>2. CASE b # at[w]
        BY <2>1, <4>2 DEF SettleSend, SettleCall, Goto, Kept, Moved, OwnerPaid, SaleState, Failed
      <4> QED BY <4>1, <4>2
    <3> QED BY <3>1 DEF PromiseMove
  <2>2. CASE SettleUnsent(w)
    BY <2>2 DEF SettleUnsent, SettleCall, Goto, PromiseMove, Kept, SaleState, Failed
  <2>3. CASE ReplyPaid(w)
    <3>1. ASSUME NEW b \in Auths PROVE Kept(b)
      <4>1. CASE b = at[w]
        BY <2>3, <4>1 DEF ReplyPaid, Book, Finish, Goto, AfterBooking, Kept, Moved, OwnerPaid, SaleState, Failed
      <4>2. CASE b # at[w]
        BY <2>3, <4>2 DEF ReplyPaid, Book, Finish, Goto, AfterBooking, Kept, Moved, OwnerPaid, SaleState, Failed
      <4> QED BY <4>1, <4>2
    <3> QED BY <3>1 DEF PromiseMove
  <2>4. CASE ReplyRefused(w)
    <3>1. /\ at[w] \in Auths /\ status[at[w]] \in {"pending", "settle_pending"}
         /\ chain[at[w]] # "charged" /\ ~served[at[w]]
      BY <2>4 DEF ReplyRefused, Finish, Leave
    <3>2. /\ status' = [status EXCEPT ![at[w]] = "settle_failed"]
         /\ UNCHANGED <<chain, served, points, early>>
      BY <2>4 DEF ReplyRefused, Finish, Leave
    <3>3. ASSUME NEW b \in Auths \ {at[w]} PROVE Kept(b)
      BY <3>2, KeptWhen DEF Failed
    <3>4. Moved(at[w], "open", "void")
      BY <3>1, <3>2, VoidWhen DEF Failed
    <3> QED BY <3>1, <3>3, <3>4 DEF PromiseMove
  <2>5. CASE ReplyReconciled(w)
    <3>1. ASSUME NEW b \in Auths PROVE Kept(b)
      <4>1. CASE b = at[w]
        BY <2>5, <4>1 DEF ReplyReconciled, Book, Finish, Goto, AfterBooking, Reconciled, Used, FoundTx, IsSettlementTx, CarriedHashes, Kept, Moved, OwnerPaid, SaleState, Failed
      <4>2. CASE b # at[w]
        BY <2>5, <4>2 DEF ReplyReconciled, Book, Finish, Goto, AfterBooking, Reconciled, Used, FoundTx, IsSettlementTx, CarriedHashes, Kept, Moved, OwnerPaid, SaleState, Failed
      <4> QED BY <4>1, <4>2
    <3> QED BY <3>1 DEF PromiseMove
  <2>6. CASE ReplyLost(w)
    <3>1. ASSUME NEW b \in Auths PROVE Kept(b)
      <4>1. CASE b = at[w]
        BY <2>6, <4>1 DEF ReplyLost, Park, Finish, Leave, CarriedHashes, Kept, Moved, OwnerPaid, SaleState, Failed
      <4>2. CASE b # at[w]
        BY <2>6, <4>2 DEF ReplyLost, Park, Finish, Leave, CarriedHashes, Kept, Moved, OwnerPaid, SaleState, Failed
      <4> QED BY <4>1, <4>2
    <3> QED BY <3>1 DEF PromiseMove
  <2> QED BY <1>6, <2>1, <2>2, <2>3, <2>4, <2>5, <2>6 DEF Settle
<1>7. ASSUME NEW w \in Workers, Finalize(w) PROVE PromiseMove
  <2>1. CASE Reconcile(w)
    BY <2>1 DEF Reconcile, Goto, PromiseMove, Kept, SaleState, Failed
  <2>2. CASE BookFinalized(w)
    <3>1. /\ at[w] \in Auths /\ chain[at[w]] = "charged"
          /\ status' = [status EXCEPT ![at[w]] = "settled"]
          /\ UNCHANGED <<chain, served, points, early>>
      BY <2>2 DEF BookFinalized, Book, Finish, Goto, AfterBooking
    <3>2. ASSUME NEW b \in Auths \ {at[w]} PROVE Kept(b)
      BY <3>1, KeptWhen DEF Failed
    <3>3. Kept(at[w]) \/ Moved(at[w], "wronged", "charged")
      BY <3>1, RightWhen DEF Failed
    <3> QED BY <3>1, <3>2, <3>3 DEF PromiseMove
  <2>3. CASE StillUndecided(w)
    <3>1. CASE ~aged[at[w]]
      <4>1. ASSUME NEW b \in Auths PROVE Kept(b)
        <5>1. CASE b = at[w]
          BY <2>3, <3>1, <5>1 DEF StillUndecided, GiveUpAged, Finish, Goto, Kept, Moved, OwnerPaid, SaleState, Failed
        <5>2. CASE b # at[w]
          BY <2>3, <3>1, <5>2 DEF StillUndecided, GiveUpAged, Finish, Goto, Kept, Moved, OwnerPaid, SaleState, Failed
        <5> QED BY <5>1, <5>2
      <4> QED BY <4>1 DEF PromiseMove
    <3>2. CASE aged[at[w]]
      <4>1. /\ at[w] \in Auths /\ status' = [status EXCEPT ![at[w]] = "settle_failed"]
            /\ UNCHANGED <<chain, served, points, early>>
        BY <2>3, <3>2 DEF StillUndecided, GiveUpAged, Finish, Goto
      <4>2. ASSUME NEW b \in Auths \ {at[w]} PROVE Kept(b)
        BY <4>1, KeptWhen DEF Failed
      <4>3. CASE Failed(at[w]) \/ served[at[w]]
        <5>1. Kept(at[w])
          BY <4>1, <4>3, FailedAgain DEF Failed
        <5> QED BY <4>2, <5>1 DEF PromiseMove
      <4>4. CASE ~Failed(at[w]) /\ ~served[at[w]] /\ chain[at[w]] # "charged"
        <5>1. Moved(at[w], "open", "void")
          BY <4>1, <4>4, VoidWhen DEF Failed
        <5> QED BY <4>1, <4>2, <5>1 DEF PromiseMove
      <4>5. CASE ~Failed(at[w]) /\ ~served[at[w]] /\ chain[at[w]] = "charged"
        <5>1. early[at[w]]
          BY <2>3, <3>2, <4>5 DEF StillUndecided
        <5>2. Wronged(at[w])
          BY <4>1, <4>5, <5>1, WrongWhen DEF Failed
        <5> QED BY <4>1, <4>2, <5>2 DEF PromiseMove
      <4> QED BY <4>3, <4>4, <4>5
    <3> QED BY <3>1, <3>2
  <2>4. CASE Reread(w)
    BY <2>4 DEF Reread, Read, PromiseMove, Kept, SaleState, Failed
  <2>5. CASE PassDone(w)
    BY <2>5 DEF PassDone, Leave, PromiseMove, Kept, SaleState, Failed
  <2> QED BY <1>7, <2>1, <2>2, <2>3, <2>4, <2>5 DEF Finalize
<1>8. ASSUME NEW w \in Workers, Share(w) PROVE PromiseMove
  <2>1. CASE TakeGrant(w)
    BY <2>1 DEF TakeGrant, Granted, Goto, PromiseMove, Kept, SaleState, Failed
  <2>2. CASE PayOwner(w)
    <3>1. at[w] \in Auths
      BY <2>2 DEF PayOwner, Goto
    <3>2. ASSUME NEW b \in Auths \ {at[w]} PROVE Kept(b)
      BY <2>2, <3>1 DEF PayOwner, Goto, Kept, Moved, OwnerPaid, SaleState, Failed
    <3>3. OwnerPaid(at[w])
      BY <2>2, <3>1 DEF PayOwner, Goto, Kept, Moved, OwnerPaid, SaleState, Failed
    <3> QED BY <3>1, <3>2, <3>3 DEF PromiseMove
  <2>3. CASE PayFailed(w)
    BY <2>3 DEF PayFailed, ReleaseMarker, Goto, PromiseMove, Kept, SaleState, Failed
  <2>4. CASE RecordSaleShare(w)
    <3>1. /\ at[w] \in Auths /\ chain[at[w]] = "charged"
          /\ status' = [status EXCEPT ![at[w]] = "settled"]
          /\ UNCHANGED <<chain, served, points, early>>
      BY <2>4 DEF RecordSaleShare, Finish, Goto
    <3>2. ASSUME NEW b \in Auths \ {at[w]} PROVE Kept(b)
      BY <3>1, KeptWhen DEF Failed
    <3>3. Kept(at[w]) \/ Moved(at[w], "wronged", "charged")
      BY <3>1, RightWhen DEF Failed
    <3> QED BY <3>1, <3>2, <3>3 DEF PromiseMove
  <2>5. CASE RecordShare(w)
    <3>1. /\ at[w] \in Auths /\ chain[at[w]] = "charged"
          /\ status' = [status EXCEPT ![at[w]] = "settled"]
          /\ UNCHANGED <<chain, served, points, early>>
      BY <2>5 DEF RecordShare, Finish, Goto
    <3>2. ASSUME NEW b \in Auths \ {at[w]} PROVE Kept(b)
      BY <3>1, KeptWhen DEF Failed
    <3>3. Kept(at[w]) \/ Moved(at[w], "wronged", "charged")
      BY <3>1, RightWhen DEF Failed
    <3> QED BY <3>1, <3>2, <3>3 DEF PromiseMove
  <2>6. CASE ShareKept(w)
    BY <2>6 DEF ShareKept, Leave, PromiseMove, Kept, SaleState, Failed
  <2>7. CASE ShareFailed(w)
    BY <2>7 DEF ShareFailed, Goto, PromiseMove, Kept, SaleState, Failed
  <2> QED BY <1>8, <2>1, <2>2, <2>3, <2>4, <2>5, <2>6, <2>7 DEF Share
<1>9. ASSUME NEW w \in Workers, Deliver(w) PROVE PromiseMove
  <2>1. CASE FlagRead(w)
    BY <2>1 DEF FlagRead, Read, PromiseMove, Kept, SaleState, Failed
  <2>2. CASE FlagSet(w)
    <3>1. /\ at[w] \in Auths /\ chain[at[w]] = "charged"
          /\ UNCHANGED <<chain, served, points, early>>
          /\ \E st \in {status[at[w]], "settled"} : status' = [status EXCEPT ![at[w]] = st]
      BY <2>2 DEF FlagSet, WriteMeta, Goto
    <3>2. ASSUME NEW b \in Auths \ {at[w]} PROVE Kept(b)
      BY <3>1, KeptWhen DEF Failed
    <3>3. Kept(at[w]) \/ Moved(at[w], "wronged", "charged")
      BY <3>1, KeptWhen, RightWhen DEF Failed
    <3> QED BY <3>1, <3>2, <3>3 DEF PromiseMove
  <2>3. CASE FlagCleared(w)
    BY <2>3 DEF FlagCleared, WriteMeta, Leave, PromiseMove, Kept, SaleState, Failed
  <2>4. CASE DeliverRead(w)
    BY <2>4 DEF DeliverRead, Read, PromiseMove, Kept, SaleState, Failed
  <2>5. CASE DeliverWrite(w)
    BY <2>5 DEF DeliverWrite, WriteMeta, Goto, PromiseMove, Kept, SaleState, Failed
  <2>6. CASE Respond(w)
    <3>1. at[w] \in Auths /\ chain[at[w]] = "charged"
      BY <2>6 DEF Respond, StoreReceipt, Leave
    <3>2. served' = [served EXCEPT ![at[w]] = TRUE] /\ UNCHANGED <<status, chain, points, early>>
      BY <2>6 DEF Respond, StoreReceipt, Leave
    <3>3. ASSUME NEW b \in Auths \ {at[w]} PROVE Kept(b)
      BY <3>2, KeptWhen DEF Failed
    <3>4. CASE served[at[w]]
      <4>1. Kept(at[w])
        BY <3>1, <3>2, <3>4, KeptWhen DEF Failed
      <4> QED BY <3>3, <4>1 DEF PromiseMove
    <3>5. CASE ~served[at[w]]
      <4>1. Moved(at[w], "charged", "served") \/ Moved(at[w], "wronged", "served")
        BY <3>1, <3>2, <3>5, ServedWhen
      <4> QED BY <3>1, <3>3, <4>1 DEF PromiseMove
    <3> QED BY <3>4, <3>5
  <2> QED BY <1>9, <2>1, <2>2, <2>3, <2>4, <2>5, <2>6 DEF Deliver
<1>10. ASSUME NEW a \in Auths, Outside(a) PROVE PromiseMove
  <2>1. CASE Land(a)
    <3>1. /\ a \in Auths /\ ~served[a]
          /\ chain[a] # "charged" /\ chain' = [chain EXCEPT ![a] = "charged"]
          /\ UNCHANGED <<status, served, points, early>>
      BY <2>1 DEF Land, Chain
    <3>2. ASSUME NEW b \in Auths \ {a} PROVE Kept(b)
      BY <3>1, KeptWhen DEF Failed
    <3>3. CASE ~Failed(a)
      <4>1. Moved(a, "open", "charged")
        BY <3>1, <3>3 DEF Moved, SaleState, Failed
      <4> QED BY <3>1, <3>2, <4>1 DEF PromiseMove
    <3>4. CASE Failed(a)
      <4>1. early[a]
        BY <2>1, <3>4 DEF Land, Chain, Failed
      <4>2. Wronged(a)
        BY <3>1, <3>4, <4>1 DEF Wronged, Moved, SaleState, Failed
      <4> QED BY <3>1, <3>2, <4>2 DEF PromiseMove
    <3> QED BY <3>3, <3>4
  <2>2. CASE Fail(a)
    <3>1. ASSUME NEW b \in Auths PROVE Kept(b)
      <4>1. CASE b = a
        BY <2>2, <4>1 DEF Fail, Chain, Kept, Moved, OwnerPaid, SaleState, Failed
      <4>2. CASE b # a
        BY <2>2, <4>2 DEF Fail, Chain, Kept, Moved, OwnerPaid, SaleState, Failed
      <4> QED BY <4>1, <4>2
    <3> QED BY <3>1 DEF PromiseMove
  <2>3. CASE Cancel(a)
    <3>1. /\ chain[a] # "charged" /\ ~served[a] /\ chain' = [chain EXCEPT ![a] = "cancelled"]
         /\ UNCHANGED <<status, served, points, early>>
      BY <2>3 DEF Cancel, Chain
    <3>2. ASSUME NEW b \in Auths PROVE Kept(b)
      BY <3>1, KeptWhen DEF Failed
    <3> QED BY <3>2 DEF PromiseMove
  <2>4. CASE Tick(a)
    BY <2>4 DEF Tick, PromiseMove, Kept, SaleState, Failed
  <2>5. CASE Age(a)
    <3>1. /\ a \in Auths /\ ~early[a] /\ ~Failed(a)
          /\ \E b \in BOOLEAN : early' = [early EXCEPT ![a] = b]
          /\ UNCHANGED <<status, chain, served, points>>
      BY <2>5 DEF Age, StillOpen, Failed
    <3>2. ASSUME NEW b \in Auths \ {a} PROVE Kept(b)
      BY <3>1, KeptWhen DEF Failed
    <3>3. CASE early'[a]
      <4>1. Lapsed(a)
        BY <3>1, <3>3 DEF Lapsed, SaleState, Failed
      <4> QED BY <3>1, <3>2, <4>1 DEF PromiseMove
    <3>4. CASE ~early'[a]
      <4>1. Kept(a)
        BY <3>1, <3>4 DEF Kept, SaleState, Failed
      <4> QED BY <3>2, <4>1 DEF PromiseMove
    <3> QED BY <3>3, <3>4
  <2>6. CASE Bury(a)
    BY <2>6 DEF Bury, PromiseMove, Kept, SaleState, Failed
  <2>7. CASE Evict(a)
    BY <2>7 DEF Evict, PromiseMove, Kept, SaleState, Failed
  <2> QED BY <1>10, <2>1, <2>2, <2>3, <2>4, <2>5, <2>6, <2>7 DEF Outside
<1>11. ASSUME NEW w \in Workers, Abort(w) PROVE PromiseMove
  BY <1>11 DEF Abort, Leave, ReleaseSlot, PromiseMove, Kept, SaleState, Failed
<1>12. CASE Crash
  BY <1>12 DEF Crash, PromiseMove, Kept, SaleState, Failed
<1>13. CASE UNCHANGED vars
  BY <1>13 DEF vars, PromiseMove, Kept, SaleState, Failed
<1> QED BY <1>1, <1>2, <1>3, <1>4, <1>5, <1>6, <1>7, <1>8, <1>9, <1>10, <1>11, <1>12, <1>13 DEF Next, Work

-------------------------------------------------------------------------------
(* The theorems.                                                              *)

LEMMA InitInvariants ==
  Init => /\ Control /\ OneSeller /\ OnePayer /\ ChargedWork /\ AgedAlone /\ FreeRows
          /\ OneSettleCall /\ OwnerPaidOnce /\ SettledIsCharged /\ ContentIsPaid
          /\ FailedIsFree
<1> SUFFICES ASSUME Init
             PROVE  /\ Control /\ OneSeller /\ OnePayer /\ ChargedWork /\ AgedAlone
                    /\ FreeRows /\ OneSettleCall /\ OwnerPaidOnce /\ SettledIsCharged
                    /\ ContentIsPaid /\ FailedIsFree
  OBVIOUS
<1>1. Control
  BY SaleAssumption DEF Init, Control, Workers
<1>2. OneSeller /\ OneSettleCall
  BY DEF Init, OneSeller, OneSettleCall, Selling, After
<1>3. OnePayer /\ OwnerPaidOnce
  BY DEF Init, OnePayer, OwnerPaidOnce
<1>4. ChargedWork /\ SettledIsCharged /\ ContentIsPaid
  BY DEF Init, ChargedWork, Booking, SettledIsCharged, ContentIsPaid, NewMeta
<1>5. AgedAlone
  BY SaleAssumption DEF Init, AgedAlone, Workers
<1>6. FreeRows /\ FailedIsFree
  BY DEF Init, FreeRows, FailedIsFree
<1> QED BY <1>1, <1>2, <1>3, <1>4, <1>5, <1>6

LEMMA Controlled == Spec => []Control
BY InitInvariants, TypeCorrect, ControlStep, PTL DEF Spec

LEMMA OneSellerHolds == Spec => [](OneSeller /\ OneSettleCall)
BY InitInvariants, TypeCorrect, Controlled, OneSellerStep, PTL DEF Spec

LEMMA OnePayerHolds == Spec => [](OnePayer /\ OwnerPaidOnce)
BY InitInvariants, TypeCorrect, OnePayerStep, PTL DEF Spec

LEMMA AgedAloneHolds == Spec => []AgedAlone
BY InitInvariants, TypeCorrect, Controlled, OneSellerHolds, AgedStep, PTL DEF Spec

LEMMA ChargedWorkHolds ==
  ASSUME ~SelfSettled
  PROVE  Spec => [](ChargedWork /\ SettledIsCharged /\ ContentIsPaid)
<1>1. ASSUME TypeOK, Control, ChargedWork, SettledIsCharged, ContentIsPaid, [Next]_vars
      PROVE  (ChargedWork /\ SettledIsCharged /\ ContentIsPaid)'
  BY <1>1, ChargedStep
<1> QED BY <1>1, InitInvariants, TypeCorrect, Controlled, PTL DEF Spec

LEMMA FreeRowsHold ==
  ASSUME ~SelfSettled, ~Outages
  PROVE  Spec => [](FreeRows /\ FailedIsFree)
<1>1. ASSUME TypeOK, Control, OneSeller, AgedAlone, FreeRows, FailedIsFree, [Next]_vars
      PROVE  (FreeRows /\ FailedIsFree)'
  BY <1>1, FreeStep
<1> QED BY <1>1, InitInvariants, TypeCorrect, Controlled, OneSellerHolds,
           AgedAloneHolds, PTL DEF Spec

\* At most one settlement call per authorization, in either settlement mode and
\* with outages and crashes: the unique index of begin() (x402.py 553-574) lets
\* one handler own a row, and only its owner settles it.
THEOREM SettledOnce == Spec => []OneSettleCall
BY OneSellerHolds, PTL

\* The owner of an agent is paid at most once per sale, whichever of the three
\* callers of credit_owner come together (x402.py 884-907).
THEOREM PaidOnce == Spec => []OwnerPaidOnce
BY OnePayerHolds, PTL

\* Where the facilitator settles, a row booked as settled is a charged
\* authorization, outages of the chain reads included (x402.py reconcile).
THEOREM BookedIsCharged == ASSUME ~SelfSettled PROVE Spec => []SettledIsCharged
BY ChargedWorkHolds, PTL

\* Where the facilitator settles, content goes out and a sale counts as delivered
\* only after the transfer (routes.py _deliver).
THEOREM ServedIsPaid == ASSUME ~SelfSettled PROVE Spec => []ContentIsPaid
BY ChargedWorkHolds, PTL

\* Where the facilitator settles and the chain can be read, a sale that failed is
\* never charged, unless its row turned a day old before the transfer was decided:
\* the 24 h limit is the only way a sale is lost (x402.py 644-645).
THEOREM GivenUpIsFree ==
  ASSUME ~SelfSettled, ~Outages PROVE Spec => []FailedIsFree
BY FreeRowsHold, PTL

\* No step takes a settled row back, in either mode, with outages and crashes,
\* unless the row turned a day old too early (x402.py 644-645).
THEOREM RevenueIsFinal == Spec => SettledIsFinal
<1>1. ASSUME TypeOK, Control, OneSeller, AgedAlone, [Next]_vars
      PROVE  [\A a \in Auths : status[a] = "settled"
                               => status'[a] = "settled" \/ early[a]]_vars
  BY <1>1, FinalStep
<1> QED BY <1>1, TypeCorrect, Controlled, OneSellerHolds, AgedAloneHolds, PTL
        DEF Spec, SettledIsFinal

\* No generation slot is lost or taken twice: every return, exception and restart
\* of a handler gives its slot back (routes.py _llm_slot).
THEOREM SlotsKept == Spec => []SlotsConserved
<1>1. Init => SlotsConserved
  <2> SUFFICES ASSUME Init PROVE SlotsConserved
    OBVIOUS
  <2>1. {w \in Workers : pc[w] = "generate"} = {}
    BY DEF Init
  <2>2. Cardinality({w \in Workers : pc[w] = "generate"}) = 0
    BY <2>1, FS_EmptySet
  <2> QED BY <2>2, SaleAssumption DEF Init, SlotsConserved
<1>2. IsFiniteSet(Workers)
  BY SaleAssumption, FS_AddElement DEF Workers
<1>3. ASSUME TypeOK, SlotsConserved, [Next]_vars PROVE SlotsConserved'
  <2>1. /\ IsFiniteSet(Generating) /\ Cardinality(Generating) \in Nat
        /\ free + Cardinality(Generating) = Slots
        /\ free \in Nat /\ Slots \in Nat
    BY <1>2, <1>3, SaleAssumption, FS_Subset, FS_CardinalityType
       DEF Generating, SlotsConserved, TypeOK
  <2>2. SlotMove
    BY <1>3, SlotStep
  <2>3. CASE free' = free /\ Generating' = Generating
    BY <2>1, <2>3 DEF SlotsConserved, Generating
  <2>4. ASSUME NEW w \in Workers \ Generating, free > 0, free' = free - 1,
               Generating' = Generating \cup {w}
        PROVE  SlotsConserved'
    <3>1. Cardinality(Generating') = Cardinality(Generating) + 1
      BY <2>1, <2>4, FS_AddElement
    <3> QED BY <2>1, <2>4, <3>1 DEF SlotsConserved, Generating
  <2>5. ASSUME NEW w \in Generating, free' = free + 1, Generating' = Generating \ {w}
        PROVE  SlotsConserved'
    <3>1. Cardinality(Generating') = Cardinality(Generating) - 1
      BY <2>1, <2>5, FS_RemoveElement
    <3> QED BY <2>1, <2>5, <3>1 DEF SlotsConserved, Generating
  <2>6. CASE free' = Slots /\ Generating' = {}
    BY <2>1, <2>6, FS_EmptySet DEF SlotsConserved, Generating
  <2> QED BY <2>2, <2>3, <2>4, <2>5, <2>6 DEF SlotMove
<1> QED BY <1>1, <1>3, TypeCorrect, PTL DEF Spec

\* A step that moves the sales so is a step of PaidSale, or stutters.
LEMMA MoveIsPromised ==
  ASSUME TypeOK, TypeOK', PromiseMove
  PROVE  [Promise!Next]_(Promise!vars)
<1> DEFINE sale == [a \in Auths |-> SaleState(a)]
           paid == [a \in Auths |-> points[a] > 0]
<1>1. CASE \A b \in Auths : Kept(b)
  <2>1. sale' = sale /\ paid' = paid
    BY <1>1 DEF Kept
  <2>2. early' = early
    BY <1>1 DEF TypeOK, Kept
  <2> QED BY <2>1, <2>2 DEF Promise!vars
<1>2. ASSUME NEW a \in Auths, \A b \in Auths \ {a} : Kept(b),
             NEW from, NEW to, Moved(a, from, to)
      PROVE  Promise!Move(a, from, to)
  <2>1. paid' = paid
    BY <1>2 DEF Kept, Moved
  <2>2. sale[a] = from /\ sale' = [sale EXCEPT ![a] = to]
    BY <1>2 DEF Kept, Moved
  <2>3. early' = early
    BY <1>2 DEF TypeOK, Kept, Moved
  <2> QED BY <2>1, <2>2, <2>3 DEF Promise!Move
<1>3. ASSUME NEW a \in Auths, \A b \in Auths \ {a} : Kept(b), OwnerPaid(a)
      PROVE  Promise!PayOwner(a)
  <2>1. sale[a] \in {"charged", "served", "wronged"} /\ sale' = sale
    BY <1>3 DEF Kept, OwnerPaid
  <2>2. ~paid[a] /\ paid'[a]
    <3>1. ~(points[a] > 0) /\ points'[a] > 0
      BY <1>3 DEF OwnerPaid
    <3> QED BY <3>1, Zenon
  <2>3. \A b \in Auths \ {a} : paid'[b] = paid[b]
    BY <1>3 DEF Kept
  <2>4. paid' = [paid EXCEPT ![a] = TRUE]
    BY <2>2, <2>3
  <2>5. early' = early
    BY <1>3 DEF TypeOK, Kept, OwnerPaid
  <2> QED BY <2>1, <2>2, <2>4, <2>5 DEF Promise!PayOwner
<1>4. ASSUME NEW a \in Auths, \A b \in Auths \ {a} : Kept(b), Wronged(a)
      PROVE  Promise!Wrong(a)
  BY <1>2, <1>4 DEF Wronged, Promise!Wrong
<1>5. ASSUME NEW a \in Auths, \A b \in Auths \ {a} : Kept(b), Lapsed(a)
      PROVE  Promise!Lapse(a)
  <2>1. sale[a] # "void" /\ sale' = sale
    BY <1>5 DEF Kept, Lapsed
  <2>2. paid' = paid
    BY <1>5 DEF Kept, Lapsed
  <2>3. early' = [early EXCEPT ![a] = TRUE]
    BY <1>5 DEF TypeOK, Kept, Lapsed
  <2> QED BY <1>5, <2>1, <2>2, <2>3 DEF Lapsed, Promise!Lapse
<1> QED BY <1>1, <1>2, <1>3, <1>4, <1>5 DEF PromiseMove, Promise!Next, Promise!GiveUp,
           Promise!Charge, Promise!Serve, Promise!Right

\* Where the facilitator settles and the chain can be read, the sale implements the
\* promise of PaidSale: free or charged, then served, and one share at most; a sale
\* is wronged only after it lapsed.
THEOREM PromiseKept == ASSUME ~SelfSettled, ~Outages PROVE Spec => KeepsPromise
<1>1. ASSUME Init PROVE Promise!Init
  <2>1. \A a \in Auths : SaleState(a) = "open"
    BY <1>1 DEF Init, SaleState, Failed
  <2>2. \A a \in Auths : (points[a] > 0) = FALSE
    BY <1>1 DEF Init
  <2>3. [a \in Auths |-> SaleState(a)] = [a \in Auths |-> "open"]
    BY <2>1
  <2>4. [a \in Auths |-> points[a] > 0] = [a \in Auths |-> FALSE]
    BY <2>2, Zenon
  <2> QED BY <1>1, <2>3, <2>4 DEF Init, Promise!Init
<1>2. ASSUME TypeOK, Control, OneSeller, OnePayer, ChargedWork, ContentIsPaid,
             AgedAlone, FreeRows, FailedIsFree, [Next]_vars
      PROVE  [Promise!Next]_(Promise!vars)
  BY <1>2, TypeStep, PromiseStep, MoveIsPromised
<1> QED BY <1>1, <1>2, TypeCorrect, Controlled, OneSellerHolds, OnePayerHolds,
           ChargedWorkHolds, AgedAloneHolds, FreeRowsHold, PTL
        DEF Spec, KeepsPromise, Promise!Spec

-------------------------------------------------------------------------------
(* The owner's share until a crash.                                           *)

\* A step of w that leaves the owner's share alone.
Aside(w) == /\ UNCHANGED <<owner, crashes>>
            /\ \A v \in Workers \ {w} : pc'[v] = pc[v] /\ at'[v] = at[v]
            /\ pc[w] # "pay"

\* Which steps do.
LEMMA StepsAside ==
  ASSUME TypeOK, NEW w \in Workers
  PROVE  /\ Gate(w) \/ Content(w) \/ Settle(w) \/ Finalize(w) => Aside(w)
         /\ RecordSaleShare(w) \/ RecordShare(w) \/ ShareKept(w) \/ ShareFailed(w) => Aside(w)
         /\ Deliver(w) => Aside(w)
         /\ \A a \in Auths : Request(w, a) => Aside(w)
<1> USE DEF TypeOK, Aside, history, Goto, Enter, Read, Leave
<1>1. CASE Gate(w)
  BY <1>1 DEF Gate, Lookup, RouteNew, RouteFinalize, RouteRetry, RouteRefuse, VerifyRejected,
              Verified, BookedBefore, Valid
<1>2. CASE Content(w)
  BY <1>2 DEF Content, ContentReady, TakeSlot, Generated, ContentFailed, Proceed
<1>3. CASE Settle(w)
  BY <1>3 DEF Settle, SettleSend, SettleUnsent, SettleCall, ReplyPaid, ReplyRefused,
              ReplyReconciled, ReplyLost, AfterBooking
<1>4. CASE Finalize(w)
  BY <1>4 DEF Finalize, Reconcile, BookFinalized, StillUndecided, Reread, PassDone, AfterBooking
<1>5. CASE RecordSaleShare(w) \/ RecordShare(w) \/ ShareKept(w) \/ ShareFailed(w)
  BY <1>5 DEF RecordSaleShare, RecordShare, ShareKept, ShareFailed
<1>6. CASE Deliver(w)
  BY <1>6 DEF Deliver, FlagRead, FlagSet, FlagCleared, DeliverRead, DeliverWrite, Respond
<1>7. ASSUME NEW a \in Auths, Request(w, a) PROVE Aside(w)
  BY <1>7 DEF Request, Start
<1> QED BY <1>1, <1>2, <1>3, <1>4, <1>5, <1>6, <1>7

\* Every step keeps the markers backed.
LEMMA BackedStep ==
  ASSUME TypeOK, OnePayer, MarkerIsBacked, [Next]_vars
  PROVE  MarkerIsBacked'
<1> USE DEF TypeOK, MarkerIsBacked, owner, work, history
<1>1. ASSUME NEW w \in Workers, Aside(w) PROVE MarkerIsBacked'
  BY <1>1 DEF Aside
<1>2. ASSUME NEW w \in Workers, TakeGrant(w) PROVE MarkerIsBacked'
  BY <1>2 DEF TakeGrant, Goto, Granted
<1>3. ASSUME NEW w \in Workers, PayOwner(w) PROVE MarkerIsBacked'
  BY <1>3 DEF PayOwner, Goto
<1>4. ASSUME NEW w \in Workers, PayFailed(w) PROVE MarkerIsBacked'
  BY <1>4 DEF PayFailed, Goto, ReleaseMarker
<1>5. ASSUME crashes' = crashes + 1 PROVE MarkerIsBacked'
  BY <1>5
<1>6. ASSUME NEW w \in Workers, Abort(w) PROVE MarkerIsBacked'
  BY <1>5, <1>6 DEF Abort
<1>7. CASE Crash
  BY <1>5, <1>7 DEF Crash
<1>8. ASSUME UNCHANGED <<owner, work, crashes>> PROVE MarkerIsBacked'
  BY <1>8
<1>9. ASSUME NEW a \in Auths, Outside(a) PROVE MarkerIsBacked'
  BY <1>8, <1>9 DEF Outside, Land, Fail, Cancel, Chain, Tick, Age, Bury, Evict
<1>10. ASSUME NEW a \in Auths, AutoFinalize(a) \/ AutoShare(a) PROVE MarkerIsBacked'
  <2>1. Aside(Autopilot) /\ Autopilot \in Workers
    BY <1>10 DEF Aside, AutoFinalize, AutoShare, Start, Workers
  <2> QED BY <1>1, <2>1
<1>11. CASE UNCHANGED vars
  BY <1>8, <1>11 DEF vars
<1>12. ASSUME NEW w \in Workers, Work(w) PROVE MarkerIsBacked'
  BY <1>1, <1>2, <1>3, <1>4, <1>12, StepsAside DEF Work, Share
<1>13. ASSUME NEW w \in Requests, NEW a \in Auths, Request(w, a) PROVE MarkerIsBacked'
  <2>1. w \in Workers
    BY DEF Workers
  <2> QED BY <1>1, <1>13, <2>1, StepsAside
<1> QED BY <1>6, <1>7, <1>9, <1>10, <1>11, <1>12, <1>13 DEF Next

\* Until a crash no marker blocks an owner's share for ever: one without a payment
\* has its payer still at work, whatever failed (x402.py credit_owner).
THEOREM MarkersBacked == Spec => []MarkerIsBacked
<1>1. Init => MarkerIsBacked
  BY DEF Init, MarkerIsBacked
<1> QED BY <1>1, TypeCorrect, OnePayerHolds, BackedStep, PTL DEF Spec
===============================================================================
