------------------------------- MODULE X402Sale -------------------------------
(***************************************************************************)
(* The x402 sale of celo/routes.py and celo/x402.py: buyers present signed *)
(* authorizations to concurrent HTTP handlers, which verify, book, produce *)
(* content, settle and deliver, while the autopilot thread resolves        *)
(* settlements whose reply was lost and pays owner shares that failed.     *)
(*                                                                         *)
(* A handler is cut where another thread or coroutine can run: at every    *)
(* await, and, for the code the autopilot runs concurrently (finalize_one, *)
(* credit_owner and the SELECT-then-UPDATE of the JSON metadata), between  *)
(* its database statements.                                                *)
(***************************************************************************)
EXTENDS Naturals, FiniteSets

CONSTANTS
  Auths,        \* signed authorizations: one (payer, nonce) pair each
  Insights,     \* those that buy an agent's insight (owner share, no LLM call)
  Requests,     \* HTTP handlers that may run at the same time
  Autopilot,    \* the background thread of finalize_pending
  None,         \* no authorization at hand / no hash on the row
  SelfSettled,  \* TRUE: settle.py broadcasts; FALSE: the facilitator does
  Slots,        \* generation slots, _llm_sem
  Outages,      \* TRUE: a chain read may fail, or come after the log horizon
  MaxCrashes    \* bound on server restarts and uncaught exceptions

Workers == Requests \cup {Autopilot}

ASSUME SaleAssumption ==
  /\ Insights \subseteq Auths
  /\ Autopilot \notin Requests /\ IsFiniteSet(Requests)
  /\ None \notin Auths
  /\ SelfSettled \in BOOLEAN /\ Outages \in BOOLEAN
  /\ Slots \in Nat /\ MaxCrashes \in Nat

VARIABLES
  \* the permanent ledger, table x402_payments (and x402_receipts)
  status,    \* [Auths -> Statuses], "none": no row for this (payer, nonce)
  hash,      \* the row's tx; the transaction of a's transfer is named a
  shared,    \* the row's owner_credits > 0
  meta,      \* meta_json: the delivered and owner_share_failed flags
  receipt,   \* a stored receipt the buyer can open again
  \* the points tables
  grant,     \* the bonus_grants marker
  points,    \* how many times the owner's Gas was credited for this sale
  \* the chain and the clock
  chain,     \* what became of the authorization on chain
  left,      \* validity left: 3 (>= 60 s), 2 (>= 45 s), 1, 0 (expired)
  aged,      \* the row is more than 24 h old
  inLogs,    \* the transfer is within the last 900 blocks
  \* workers: what each does, on which authorization, in which role
  pc, at, job, snap,
  \* process memory, lost in a restart
  cache, verifying, free,
  \* observations
  calls,     \* settle calls made
  served,    \* content sent in a 200
  early,     \* the row turned a day old before its transfer was decided
  crashes

ledger  == <<status, hash, shared, meta, receipt>>
owner   == <<grant, points>>
world   == <<chain, left, aged, inLogs>>
work    == <<pc, at, job, snap>>
memory  == <<cache, verifying, free>>
history == <<calls, served, early, crashes>>
vars    == <<ledger, owner, world, work, memory, history>>

Statuses == {"none", "pending", "settled", "settle_pending",
             "settle_failed", "content_failed"}
Chains   == {"unused", "sent", "charged", "cancelled", "failed"}
Jobs     == {"none", "sale", "retry", "gate", "auto", "share"}
Steps    == {"idle", "lookup", "route", "verify", "content", "generate", "settle",
             "reply", "reconcile", "book", "giveup", "reread", "mark", "pay",
             "paid", "noshare", "unpaid", "flag", "flagwrite", "deliver",
             "deliverwrite", "receipt"}
Meta     == [delivered : BOOLEAN, flagged : BOOLEAN]
NewMeta  == [delivered |-> FALSE, flagged |-> FALSE]
Row      == [status : Statuses, meta : Meta]
NoRow    == [status |-> "none", meta |-> NewMeta]
RowOf(a) == [status |-> status[a], meta |-> meta[a]]

TypeOK ==
  /\ status \in [Auths -> Statuses]   /\ hash \in [Auths -> Auths \cup {None}]
  /\ shared \in [Auths -> BOOLEAN]    /\ meta \in [Auths -> Meta]
  /\ receipt \in [Auths -> BOOLEAN]
  /\ grant \in [Auths -> BOOLEAN]     /\ points \in [Auths -> Nat]
  /\ chain \in [Auths -> Chains]      /\ left \in [Auths -> 0..3]
  /\ aged \in [Auths -> BOOLEAN]      /\ inLogs \in [Auths -> BOOLEAN]
  /\ pc \in [Workers -> Steps]        /\ at \in [Workers -> Auths \cup {None}]
  /\ job \in [Workers -> Jobs]        /\ snap \in [Workers -> Row]
  /\ \A w \in Workers : pc[w] = "idle" <=> at[w] = None
  /\ cache \in SUBSET Auths           /\ verifying \in SUBSET Auths
  /\ free \in Nat
  /\ calls \in [Auths -> Nat]         /\ served \in [Auths -> BOOLEAN]
  /\ early \in [Auths -> BOOLEAN]       /\ crashes \in 0..MaxCrashes

Init ==
  /\ status = [a \in Auths |-> "none"]    /\ hash = [a \in Auths |-> None]
  /\ shared = [a \in Auths |-> FALSE]     /\ meta = [a \in Auths |-> NewMeta]
  /\ receipt = [a \in Auths |-> FALSE]
  /\ grant = [a \in Auths |-> FALSE]      /\ points = [a \in Auths |-> 0]
  /\ chain = [a \in Auths |-> "unused"]   /\ left = [a \in Auths |-> 3]
  /\ aged = [a \in Auths |-> FALSE]       /\ inLogs = [a \in Auths |-> TRUE]
  /\ pc = [w \in Workers |-> "idle"]      /\ at = [w \in Workers |-> None]
  /\ job = [w \in Workers |-> "none"]     /\ snap = [w \in Workers |-> NoRow]
  /\ cache = {} /\ verifying = {} /\ free = Slots
  /\ calls = [a \in Auths |-> 0]          /\ served = [a \in Auths |-> FALSE]
  /\ early = [a \in Auths |-> FALSE]     /\ crashes = 0

-------------------------------------------------------------------------------
(* Control of a worker. *)

Goto(w, step) == /\ pc' = [pc EXCEPT ![w] = step]
                 /\ UNCHANGED <<at, job, snap>>

Start(w, a, role, step) == /\ pc[w] = "idle"
                           /\ pc' = [pc EXCEPT ![w] = step]
                           /\ at' = [at EXCEPT ![w] = a]
                           /\ job' = [job EXCEPT ![w] = role]
                           /\ UNCHANGED snap

Enter(w, role, step) == /\ pc' = [pc EXCEPT ![w] = step]
                        /\ job' = [job EXCEPT ![w] = role]
                        /\ UNCHANGED <<at, snap>>

Read(w, step) == /\ snap' = [snap EXCEPT ![w] = RowOf(at[w])]
                 /\ pc' = [pc EXCEPT ![w] = step]
                 /\ UNCHANGED <<at, job>>

Leave(w) == /\ pc' = [pc EXCEPT ![w] = "idle"]
            /\ at' = [at EXCEPT ![w] = None]
            /\ job' = [job EXCEPT ![w] = "none"]
            /\ snap' = [snap EXCEPT ![w] = NoRow]

\* The statuses a row is finished with; finish() never checks the old one.
Finish(a, st) == status' = [status EXCEPT ![a] = st]

-------------------------------------------------------------------------------
(* The gate. *)

\* The window check of _gate, made before the ledger is read.
GateOpen(a) == left[a] >= 3

Request(w, a) == /\ GateOpen(a)
                 /\ Start(w, a, "none", "lookup")
                 /\ UNCHANGED <<ledger, owner, world, memory, history>>

\* get_payment runs in a thread: what it returns may be stale when used.
Lookup(w) == /\ pc[w] = "lookup"
             /\ Read(w, "route")
             /\ UNCHANGED <<ledger, owner, world, memory, history>>

\* No row: reserve the key in _verifying, then call the verifier.
RouteNew(w) == /\ pc[w] = "route"
               /\ snap[w].status = "none"
               /\ at[w] \notin verifying
               /\ verifying' = verifying \cup {at[w]}
               /\ Goto(w, "verify")
               /\ UNCHANGED <<ledger, owner, world, cache, free, history>>

\* A lost reply: decide it now, then look at the row again.
RouteFinalize(w) == /\ pc[w] = "route"
                    /\ snap[w].status = "settle_pending"
                    /\ job[w] # "gate"
                    /\ Enter(w, "gate", "reconcile")
                    /\ UNCHANGED <<ledger, owner, world, memory, history>>

\* Mutant: an undecided settlement is served too.
RecoversPending(row) == row.status \in {"settled", "settle_pending"} /\ ~row.meta.delivered
\* Paid but not delivered: the same signature gets the content.
Recovers(row) == row.status = "settled" /\ ~row.meta.delivered

RouteRetry(w) == /\ pc[w] = "route"
                 /\ Recovers(snap[w])
                 /\ Enter(w, "retry", "content")
                 /\ UNCHANGED <<ledger, owner, world, memory, history>>

\* 402, 202 or 429: no row (cooldown, attempt cap, key being verified), still
\* pending, already delivered, failed, or a signature that does not match.
RouteRefuse(w) == /\ pc[w] = "route"
                  /\ snap[w].status = "settle_pending" => job[w] = "gate"
                  /\ Leave(w)
                  /\ UNCHANGED <<ledger, owner, world, memory, history>>

VerifyRejected(w) == /\ pc[w] = "verify"
                     /\ verifying' = verifying \ {at[w]}
                     /\ Leave(w)
                     /\ UNCHANGED <<ledger, owner, world, cache, free, history>>

\* Mutant: no unique index.
InsertAnyway(a) == TRUE
\* begin(): the unique index on (payer, nonce) refuses a second row.
Insertable(a) == status[a] = "none"

\* The verifier found an unused, unexpired authorization.
Valid(w) == /\ pc[w] = "verify"
            /\ chain[at[w]] = "unused"
            /\ left[at[w]] > 0
            /\ verifying' = verifying \ {at[w]}

Verified(w) == /\ Valid(w)
               /\ Insertable(at[w])
               /\ Finish(at[w], "pending")
               /\ Enter(w, "sale", "content")
               /\ UNCHANGED <<hash, shared, meta, receipt, owner, world,
                              cache, free, history>>

BookedBefore(w) == /\ Valid(w)
                   /\ ~Insertable(at[w])
                   /\ Leave(w)
                   /\ UNCHANGED <<ledger, owner, world, cache, free, history>>

-------------------------------------------------------------------------------
(* The content. *)

\* A retry delivers at once; a sale caches the content and settles first.
Proceed(w) == /\ Goto(w, IF job[w] = "retry" THEN "deliver" ELSE "settle")
              /\ cache' = IF job[w] = "retry" THEN cache ELSE cache \cup {at[w]}

ContentReady(w) == /\ pc[w] = "content"
                   /\ at[w] \in cache \cup Insights
                   /\ Proceed(w)
                   /\ UNCHANGED <<ledger, owner, world, verifying, free, history>>

\* Mutant: generate without waiting for the semaphore.
AnySlot == TRUE
SlotFree == free > 0

\* A slot is kept only while the signature still covers generation + settle.
TakeSlot(w) == /\ pc[w] = "content"
               /\ at[w] \notin cache \cup Insights
               /\ SlotFree
               /\ left[at[w]] >= 2
               /\ free' = free - 1
               /\ Goto(w, "generate")
               /\ UNCHANGED <<ledger, owner, world, cache, verifying, history>>

\* Mutant: the slot is not given back.
KeepSlot == free
ReleaseSlot == free + 1

Generated(w) == /\ pc[w] = "generate"
                /\ free' = ReleaseSlot
                /\ Proceed(w)
                /\ UNCHANGED <<ledger, owner, world, verifying, history>>

\* Mutant: the row fails although it was settled before.
FailAnyRow(w) == Finish(at[w], "content_failed")
\* _content_failed: nothing is charged, and a settled row stays settled.
FailUnsettled(w) ==
  Finish(at[w], IF job[w] = "retry" THEN status[at[w]] ELSE "content_failed")

ContentFailed(w) == /\ \/ /\ pc[w] = "content"      \* queue full, window too
                          /\ at[w] \notin cache     \* short, no decision yet
                          /\ UNCHANGED free
                       \/ /\ pc[w] = "generate"     \* no answer from the model
                          /\ free' = ReleaseSlot
                    /\ FailUnsettled(w)
                    /\ Leave(w)
                    /\ UNCHANGED <<hash, shared, meta, receipt, owner, world,
                                   cache, verifying, history>>
-------------------------------------------------------------------------------
(* Settlement. *)

SettleCall(w) == /\ pc[w] = "settle"
                 /\ calls' = [calls EXCEPT ![at[w]] = @ + 1]
                 /\ Goto(w, "reply")
                 /\ UNCHANGED <<ledger, owner, left, aged, inLogs, memory,
                                served, early, crashes>>

\* The settler takes the authorization: it is out of our hands and may land
\* as long as it is valid.
SettleSend(w) == /\ SettleCall(w)
                 /\ chain[at[w]] \in {"unused", "failed"}
                 /\ left[at[w]] > 0
                 /\ chain' = [chain EXCEPT ![at[w]] = "sent"]

\* It fails before anything is sent.
SettleUnsent(w) == /\ SettleCall(w)
                   /\ UNCHANGED chain

\* Where a booked sale goes next: the owner's share, or on.
AfterBooking(a, otherwise) == IF a \in Insights THEN "mark" ELSE otherwise

\* The status and the hash go to the ledger first.
Book(a) == /\ Finish(a, "settled")
           /\ hash' = [hash EXCEPT ![a] = a]

ReplyPaid(w) == /\ pc[w] = "reply"
                /\ chain[at[w]] = "charged"
                /\ Book(at[w])
                /\ Goto(w, AfterBooking(at[w], "deliver"))
                /\ UNCHANGED <<shared, meta, receipt, owner, world, memory, history>>

\* A definite refusal: nothing is, or will be, on chain. A self-broadcast that
\* reverted leaves its hash on the row.
ReplyRefused(w) == /\ pc[w] = "reply"
                   /\ chain[at[w]] \notin {"sent", "charged"}
                   /\ Finish(at[w], "settle_failed")
                   /\ hash' = [hash EXCEPT ![at[w]] =
                                 IF SelfSettled /\ chain[at[w]] = "failed"
                                   THEN at[w] ELSE @]
                   /\ Leave(w)
                   /\ UNCHANGED <<shared, meta, receipt, owner, world, memory, history>>

Used(a) == chain[a] \in {"charged", "cancelled"}

IsSettlementTx(tx) == \E b \in Auths : hash[b] = tx

\* find_settlement_tx: the transfer that used exactly this nonce.
FoundTx(a) == IF chain[a] = "charged" /\ inLogs[a] THEN a ELSE None

\* Mutants: a used nonce is proof enough; only a known hash is.
UsedSuffices(a, tx) == Used(a)
ReconciledByHash(a, tx) == Used(a) /\ tx # None /\ ~IsSettlementTx(tx)
\* reconcile(): the nonce is used and a transaction not yet on the ledger,
\* known from the broadcast or found in the logs, did it.
Reconciled(a, tx) == LET known == IF tx # None THEN tx ELSE FoundTx(a)
                     IN  Used(a) /\ known # None /\ ~IsSettlementTx(known)

\* The hash a lost reply may still carry: our own broadcast's, on a timeout.
CarriedHashes(a) ==
  IF SelfSettled /\ chain[a] \notin {"unused"} THEN {a, None} ELSE {None}

\* A lost reply, decided by the chain at once ...
ReplyReconciled(w) == /\ pc[w] = "reply"
                      /\ \E tx \in CarriedHashes(at[w]) : Reconciled(at[w], tx)
                      /\ Book(at[w])
                      /\ Goto(w, AfterBooking(at[w], "deliver"))
                      /\ UNCHANGED <<shared, meta, receipt, owner, world, memory, history>>

\* Mutant: a lost reply counts as a failure.
FailLost(a) == Finish(a, "settle_failed")
\* ... or parked: the row keeps a known hash, the buyer gets a 202.
Park(a) == Finish(a, "settle_pending")

ReplyLost(w) == /\ pc[w] = "reply"
                /\ \E tx \in CarriedHashes(at[w]) :
                     /\ Outages \/ ~Reconciled(at[w], tx)
                     /\ hash' = [hash EXCEPT ![at[w]] = IF tx # None THEN tx ELSE @]
                /\ Park(at[w])
                /\ Leave(w)
                /\ UNCHANGED <<shared, meta, receipt, owner, world, memory, history>>

-------------------------------------------------------------------------------
(* finalize_one, by a gate or by the autopilot, on a row that was            *)
(* settle_pending when it was read.                                          *)

AutoFinalize(a) == /\ status[a] = "settle_pending"
                   /\ Start(Autopilot, a, "auto", "reconcile")
                   /\ UNCHANGED <<ledger, owner, world, memory, history>>

Reconcile(w) == /\ pc[w] = "reconcile"
                /\ \/ /\ Reconciled(at[w], hash[at[w]])
                      /\ Goto(w, "book")
                   \/ /\ Outages \/ ~Reconciled(at[w], hash[at[w]])
                      /\ Goto(w, "giveup")
                /\ UNCHANGED <<ledger, owner, world, memory, history>>

BookFinalized(w) == /\ pc[w] = "book"
                    /\ Book(at[w])
                    /\ Goto(w, AfterBooking(at[w], "reread"))
                    /\ UNCHANGED <<shared, meta, receipt, owner, world, memory, history>>

\* Mutants: give up at the first look; never give up.
GiveUpAtOnce(a) == Finish(a, "settle_failed")
NeverGiveUp(a) == UNCHANGED status
\* Still undecided: the row waits, until it is a day old.
GiveUpAged(a) == Finish(a, IF aged[a] THEN "settle_failed" ELSE status[a])

StillUndecided(w) == /\ pc[w] = "giveup"
                     /\ GiveUpAged(at[w])
                     /\ Goto(w, "reread")
                     /\ UNCHANGED <<hash, shared, meta, receipt, owner, world,
                                    memory, history>>

Reread(w) == /\ pc[w] = "reread"
             /\ job[w] = "gate"
             /\ Read(w, "route")
             /\ UNCHANGED <<ledger, owner, world, memory, history>>

PassDone(w) == /\ pc[w] = "reread"
               /\ job[w] = "auto"
               /\ Leave(w)
               /\ UNCHANGED <<ledger, owner, world, memory, history>>

-------------------------------------------------------------------------------
(* credit_owner, and what its three callers do with the answer.              *)

\* The autopilot retries the shares that are flagged.
AutoShare(a) == /\ status[a] = "settled" /\ a \in Insights
                /\ ~shared[a] /\ meta[a].flagged
                /\ Start(Autopilot, a, "share", "mark")
                /\ UNCHANGED <<ledger, owner, world, memory, history>>

\* Mutant: credit without looking for the marker.
IgnoreMarker(a) == FALSE
\* The marker is looked up and inserted under one lock.
Granted(a) == grant[a]

TakeGrant(w) == /\ pc[w] = "mark"
                /\ Goto(w, IF Granted(at[w]) THEN "noshare" ELSE "pay")
                /\ grant' = [grant EXCEPT ![at[w]] = TRUE]
                /\ UNCHANGED <<ledger, points, world, memory, history>>

PayOwner(w) == /\ pc[w] = "pay"
               /\ points' = [points EXCEPT ![at[w]] = @ + 1]
               /\ Goto(w, "paid")
               /\ UNCHANGED <<ledger, grant, world, memory, history>>

\* Mutant: the marker stays after a failed credit.
KeepMarker(a) == UNCHANGED grant
\* The marker must not outlive a failed credit.
ReleaseMarker(a) == grant' = [grant EXCEPT ![a] = FALSE]

PayFailed(w) == /\ pc[w] = "pay"
                /\ ReleaseMarker(at[w])
                /\ Goto(w, "unpaid")
                /\ UNCHANGED <<ledger, points, world, memory, history>>

\* _deliver writes the credits it got, 0 included.
RecordSaleShare(w) == /\ pc[w] \in {"paid", "noshare"}
                      /\ job[w] = "sale"
                      /\ Finish(at[w], "settled")
                      /\ shared' = [shared EXCEPT ![at[w]] = (pc[w] = "paid")]
                      /\ Goto(w, "deliver")
                      /\ UNCHANGED <<hash, meta, receipt, owner, world, memory, history>>

\* finalize_one and the share pass write them only when there are some.
RecordShare(w) == /\ \/ pc[w] \in {"paid", "noshare"} /\ job[w] \in {"gate", "auto"}
                     \/ pc[w] = "paid" /\ job[w] = "share"
                  /\ Finish(at[w], "settled")
                  /\ shared' = [shared EXCEPT ![at[w]] = @ \/ pc[w] = "paid"]
                  /\ Goto(w, IF job[w] = "share" THEN "flag" ELSE "reread")
                  /\ UNCHANGED <<hash, meta, receipt, owner, world, memory, history>>

\* Nothing to write, or the credit failed again: the flag stays for the next pass.
ShareKept(w) == /\ pc[w] \in {"noshare", "unpaid"}
                /\ job[w] = "share"
                /\ Leave(w)
                /\ UNCHANGED <<ledger, owner, world, memory, history>>

ShareFailed(w) == /\ pc[w] = "unpaid"
                  /\ job[w] # "share"
                  /\ Goto(w, "flag")
                  /\ UNCHANGED <<ledger, owner, world, memory, history>>

-------------------------------------------------------------------------------
(* The JSON metadata: update_meta reads it, then writes it back. Handlers do *)
(* both without an await, so on the event loop one read-write is never cut   *)
(* by another; the threads of finalize_one cut it, and are cut, anywhere.    *)

LoopWrites(r) == pc[r] = "deliverwrite" \/ (pc[r] = "flagwrite" /\ job[r] = "sale")
LoopIdle == \A r \in Requests : ~LoopWrites(r)

FlagRead(w) == /\ pc[w] = "flag"
               /\ job[w] = "sale" => LoopIdle
               /\ Read(w, "flagwrite")
               /\ UNCHANGED <<ledger, owner, world, memory, history>>

WriteMeta(w, isDelivered, isFlagged) ==
  meta' = [meta EXCEPT ![at[w]] = [delivered |-> isDelivered, flagged |-> isFlagged]]

\* owner_share_failed after a failed credit; finalize_one finishes the row as
\* settled once more.
FlagSet(w) == /\ pc[w] = "flagwrite"
              /\ job[w] # "share"
              /\ WriteMeta(w, snap[w].meta.delivered, TRUE)
              /\ status' = [status EXCEPT ![at[w]] = IF job[w] = "sale" THEN @ ELSE "settled"]
              /\ Goto(w, IF job[w] = "sale" THEN "deliver" ELSE "reread")
              /\ UNCHANGED <<hash, shared, receipt, owner, world, memory, history>>

\* The share pass clears it.
FlagCleared(w) == /\ pc[w] = "flagwrite"
                  /\ job[w] = "share"
                  /\ WriteMeta(w, snap[w].meta.delivered, FALSE)
                  /\ Leave(w)
                  /\ UNCHANGED <<status, hash, shared, receipt, owner, world,
                                 memory, history>>

DeliverRead(w) == /\ pc[w] = "deliver"
                  /\ LoopIdle
                  /\ Read(w, "deliverwrite")
                  /\ UNCHANGED <<ledger, owner, world, memory, history>>

DeliverWrite(w) == /\ pc[w] = "deliverwrite"
                   /\ WriteMeta(w, TRUE, snap[w].meta.flagged)
                   /\ Goto(w, "receipt")
                   /\ UNCHANGED <<status, hash, shared, receipt, owner, world,
                                  memory, history>>

\* INSERT OR IGNORE: a redelivery keeps the copy that is there. An exception is
\* logged, and the sale goes on without a receipt.
StoreReceipt(w) == \/ receipt' = [receipt EXCEPT ![at[w]] = TRUE]
                   \/ UNCHANGED receipt

\* The receipt, the cache entry, and the 200 with the content.
Respond(w) == /\ pc[w] = "receipt"
              /\ StoreReceipt(w)
              /\ cache' = cache \ {at[w]}
              /\ served' = [served EXCEPT ![at[w]] = TRUE]
              /\ Leave(w)
              /\ UNCHANGED <<status, hash, shared, meta, owner, world,
                             verifying, free, calls, early, crashes>>

-------------------------------------------------------------------------------
(* The chain, the clock and the process. *)

Chain(a, from, to) == /\ chain[a] \in from
                      /\ chain' = [chain EXCEPT ![a] = to]
                      /\ UNCHANGED <<left, aged, inLogs, ledger, owner, work,
                                     memory, history>>

\* The transfer is mined, within its validity window.
Land(a) == left[a] > 0 /\ Chain(a, {"sent"}, "charged")

\* It reverts, is dropped, or expires unmined.
Fail(a) == Chain(a, {"sent"}, "failed")

\* The buyer withdraws the authorization (EIP-3009 cancelAuthorization).
Cancel(a) == Chain(a, {"unused", "sent"}, "cancelled")

Tick(a) == /\ left[a] > 0
           /\ left' = [left EXCEPT ![a] = @ - 1]
           /\ UNCHANGED <<chain, aged, inLogs, ledger, owner, work, memory, history>>

\* The transfer may still land, or someone may act on an earlier look at the
\* chain: validBefore has a lower bound only, in the gate and in the settler.
StillOpen(a) == left[a] > 0 \/ \E w \in Workers : at[w] = a

\* The row turns a day old, whatever the signature's validity; this matters for
\* parked rows alone.
Age(a) == /\ status[a] = "settle_pending" /\ ~aged[a]
          /\ aged' = [aged EXCEPT ![a] = TRUE]
          /\ early' = [early EXCEPT ![a] = StillOpen(a)]
          /\ UNCHANGED <<chain, left, inLogs, ledger, owner, work, memory,
                         calls, served, crashes>>

\* The transfer falls out of the 900 blocks find_settlement_tx searches.
Bury(a) == /\ Outages
           /\ chain[a] = "charged" /\ inLogs[a]
           /\ inLogs' = [inLogs EXCEPT ![a] = FALSE]
           /\ UNCHANGED <<chain, left, aged, ledger, owner, work, memory, history>>

\* The content cache entry expires (15 minutes).
Evict(a) == /\ a \in cache
            /\ cache' = cache \ {a}
            /\ UNCHANGED <<ledger, owner, world, work, verifying, free, history>>

\* An exception nobody catches ends one handler or one autopilot pass; the
\* finally clauses give back the slot and the reserved key.
Abort(w) == /\ pc[w] # "idle"
            /\ crashes < MaxCrashes
            /\ crashes' = crashes + 1
            /\ free' = IF pc[w] = "generate" THEN ReleaseSlot ELSE free
            /\ verifying' = IF pc[w] = "verify" THEN verifying \ {at[w]} ELSE verifying
            /\ Leave(w)
            /\ UNCHANGED <<ledger, owner, world, cache, calls, served, early>>

\* The process dies and restarts: the database is all that is left.
Crash == /\ crashes < MaxCrashes
         /\ crashes' = crashes + 1
         /\ pc' = [w \in Workers |-> "idle"]  /\ at' = [w \in Workers |-> None]
         /\ job' = [w \in Workers |-> "none"] /\ snap' = [w \in Workers |-> NoRow]
         /\ cache' = {} /\ verifying' = {} /\ free' = Slots
         /\ UNCHANGED <<ledger, owner, world, calls, served, early>>

-------------------------------------------------------------------------------
Gate(w)     == Lookup(w) \/ RouteNew(w) \/ RouteFinalize(w) \/ RouteRetry(w)
                 \/ RouteRefuse(w) \/ VerifyRejected(w) \/ Verified(w) \/ BookedBefore(w)
Content(w)  == ContentReady(w) \/ TakeSlot(w) \/ Generated(w) \/ ContentFailed(w)
Settle(w)   == SettleSend(w) \/ SettleUnsent(w) \/ ReplyPaid(w) \/ ReplyRefused(w)
                 \/ ReplyReconciled(w) \/ ReplyLost(w)
Finalize(w) == Reconcile(w) \/ BookFinalized(w) \/ StillUndecided(w)
                 \/ Reread(w) \/ PassDone(w)
Share(w)    == TakeGrant(w) \/ PayOwner(w) \/ PayFailed(w) \/ RecordSaleShare(w)
                 \/ RecordShare(w) \/ ShareKept(w) \/ ShareFailed(w)
Deliver(w)  == FlagRead(w) \/ FlagSet(w) \/ FlagCleared(w) \/ DeliverRead(w)
                 \/ DeliverWrite(w) \/ Respond(w)
Work(w)     == Gate(w) \/ Content(w) \/ Settle(w) \/ Finalize(w) \/ Share(w) \/ Deliver(w)
Outside(a)  == Land(a) \/ Fail(a) \/ Cancel(a) \/ Tick(a) \/ Age(a) \/ Bury(a) \/ Evict(a)

Next == \/ \E w \in Requests, a \in Auths : Request(w, a)
        \/ \E a \in Auths : AutoFinalize(a) \/ AutoShare(a)
        \/ \E w \in Workers : Work(w) \/ Abort(w)
        \/ \E a \in Auths : Outside(a)
        \/ Crash

Spec == Init /\ [][Next]_vars

\* Started work goes on, the autopilot keeps passing over every row, the chain
\* decides what was sent, time passes, and a credit that is retried again and
\* again does not fail every time. Nobody has to send a request.
Fairness == /\ \A w \in Workers : WF_vars(Work(w)) /\ SF_vars(PayOwner(w))
            /\ \A a \in Auths : /\ SF_vars(AutoFinalize(a))
                                 /\ SF_vars(AutoShare(a))
                                 /\ WF_vars(Land(a) \/ Fail(a))
                                 /\ WF_vars(Tick(a))
                                 /\ WF_vars(Age(a))

FairSpec == Spec /\ Fairness

-------------------------------------------------------------------------------
(* Properties. *)

\* One settlement call per authorization, however many requests carry it at
\* once: _gate reads the ledger before it awaits the verifier, and only
\* begin()'s unique index decides (routes.py 238-277, x402.py 553-574).
OneSettleCall == \A a \in Auths : calls[a] <= 1

\* Content goes out, is kept as a receipt, and a sale counts as delivered, only
\* after the transfer landed (routes.py _deliver; README "settlement failures
\* never leak content").
ContentIsPaid == \A a \in Auths :
  served[a] \/ receipt[a] \/ meta[a].delivered => chain[a] = "charged"

\* A settled row is a charged authorization: "success only when the exact
\* authorization is found", never a nonce used otherwise (x402.py reconcile).
SettledIsCharged == \A a \in Auths : status[a] = "settled" => chain[a] = "charged"

\* A sale the buyer was told is free stays free, even when a transfer is
\* mined late or a retry of a settled sale cannot be given its content
\* (_content_failed, _deliver's failures, finalize_one's 24 h limit). The code
\* breaks this only for a row that turned a day old too early.
FailedIsFree == \A a \in Auths :
  status[a] \in {"content_failed", "settle_failed"} => chain[a] # "charged" \/ early[a]

\* The owner is paid at most once per sale, by whichever of the three callers
\* of credit_owner, and the ledger shows a share only if it was paid.
OwnerPaidOnce == \A a \in Auths :
  /\ points[a] <= 1
  /\ shared[a] => points[a] = 1

\* Until a crash, a grant marker without a payment has its payer still at work:
\* otherwise every later credit would be refused (x402.py 898-900).
MarkerIsBacked == crashes = 0 => \A a \in Auths :
  grant[a] /\ points[a] = 0 => \E w \in Workers : at[w] = a /\ pc[w] = "pay"

\* Every generation slot is free or held by a handler that generates.
SlotsConserved == free + Cardinality({w \in Workers : pc[w] = "generate"}) = Slots

\* Settled rows are permanent revenue records: no finaliser, share pass or
\* failed redelivery takes one back, whatever row it read before. Only on a row
\* that turned a day old too early can a finaliser's 24 h limit do so.
SettledIsFinal ==
  [][\A a \in Auths : status[a] = "settled" => status'[a] = "settled" \/ early[a]]_vars

\* An open row does not stay open: the handler finishes it, the autopilot
\* finds the settlement, or the day passes.
Open(a) == status[a] \in {"pending", "settle_pending"}
OpenRowsClose == \A a \in Auths : Open(a) ~> ~Open(a)

\* Every transfer is booked as a sale, also when the reply was lost, unless the
\* row turned a day old too early (x402.py finalize_one, finalize_pending).
ChargedIsBooked == \A a \in Auths :
  chain[a] = "charged" ~> status[a] = "settled" \/ early[a]

\* The abstract promise: what the buyer and the owner see.
Failed(a) == status[a] \in {"content_failed", "settle_failed"}
SaleState(a) == IF served[a] THEN "served"
                ELSE IF chain[a] = "charged"
                  THEN IF Failed(a) THEN "wronged" ELSE "charged"
                  ELSE IF Failed(a) THEN "void" ELSE "open"

Promise == INSTANCE PaidSale WITH sale <- [a \in Auths |-> SaleState(a)],
                                  ownerPaid <- [a \in Auths |-> points[a] > 0],
                                  lapsed <- early
KeepsPromise == Promise!Spec

-------------------------------------------------------------------------------
(* Claims of the repository's comments and tests that the code does not keep. *)

\* "Autopilot retries it": the owner of a settled insight sale is paid.
OwnerEventuallyPaid ==
  \A a \in Insights : status[a] = "settled" ~> points[a] > 0
===============================================================================
