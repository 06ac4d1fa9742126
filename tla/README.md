# Specifications of ManekiAI-Celo

TLA+ models of the payment server in `src/celo/`, the TLC instances that check
them, and TLAPS proofs about all of them. A module is named after what it models;
its definitions keep the names of the code where TLA+ allows it, and `map` in
`PROJECT.json` names the lines each definition stands for.

Run from this directory:

    tlc -workers 2 -config sale_insight.cfg MCX402Sale
    tlc -workers 2 -config runs_one.cfg MCResearchTasks
    tlc -workers 2 -config orders.cfg CeloOrders
    tlc -workers 2 -config agents.cfg AgentRegistration
    tlc -workers 2 -config deposits.cfg MCDepositScan
    tlapm X402SaleProofs.tla
    tlapm ResearchTasksProofs.tla
    tlapm CeloOrdersProofs.tla
    tlapm AgentRegistrationProofs.tla
    tlapm DepositScanProofs.tla

`PROJECT.json` names the module and the configuration of every run.

## 1. Inventory of the system

The program is a FastAPI application with a SQLite database and background
threads. HTTP handlers are coroutines: they interleave at every `await`, and
code under `asyncio.to_thread` interleaves with everything at every database
statement. The background loops (`finalize_pending`, the task runner, the agent
and deposit scanners) run in threads whose caller (`app.py`) is outside `src/`.

| Component | State | Operations | Hard behaviour | What makes it correct |
|---|---|---|---|---|
| Paid request gate and delivery, `routes.py` | `_verifying`, `_llm_sem`, content cache, attempt windows | `_gate`, content step, `_deliver`, `_content_failed`, `_refused` | two requests with one signature; a row read before an await and used after it; a slot on every way out; a crash between two writes | one settle call per signature; content only after payment; no slot lost; refused means free |
| x402 ledger, `x402.py` | tables `x402_payments`, `x402_receipts` | `begin`, `finish`, `update_meta`, `mark_delivered`, `store_receipt`, `settle`, `reconcile`, `finalize_one`, `finalize_pending` | lost replies; late transfers; a 24 h limit; unlocked read-then-write | settled means charged, failed means free, settled is final, nothing stays open |
| Owner share, `x402.credit_owner` | `bonus_grants` marker, points | credit under a marker | three concurrent callers; failure after the marker | paid once, and paid |
| Self-broadcasting settler, `settle.py` | none (the chain) | `verify`, `settle` | receipt timeout with a known hash; revert | as the ledger |
| Registrar wallet, `wallet.py` | `_send_lock`, nonce, broadcast transactions | `authorization_state`, `find_settlement_tx`, `send_and_wait`, `bump_pending` | log horizon; lost replies; replaced and forgotten transactions | answers the ledger may rely on; one nonce, one transaction |
| Paid research runs, `tasks.py` | tables `x402_tasks`, `x402_task_runs` | `create`, `activate`, `stop`, `run_due`, `run_one`, `sweep_stale`, sharing, recovery | handlers and runner on one row; retries; restarts between statements; budgets | only paid runs work; ended stays ended; work is bounded; every run ends |
| Paying in CELO, `native_pay.py`, order endpoints of `routes.py` | tables `celo_orders`, `x402_tasks` | `create`, `attach_tx`, `find_payment`, `_celo_deliver`, `store_result`, `expire_stale` | one transfer claimed by two orders; concurrent polls; a failure in the middle of a delivery | one transfer pays one order, a paid order is delivered, the buyer can open what was delivered |
| ERC-8004 registration, `agentid.py` | `celo_agent_id`, `celo_agent_tx`, `celo_registered_at`; `_inflight`, `_fail_count`, `_last_fail` | `register_agent`, `register_platform`, `_resolve_pending`, `autopilot_tick`, hook and admin batch | mint once across receipt timeouts, replacement, restart and threads | every agent registered, a second mint only by an incident, ids of the agent's own mints |
| Stablecoin deposits, `chain.py`, `x402.is_settlement_like` | none (the chain, the ledger) | `fetch_incoming`, `tx_succeeded`, exclusion of settlements | chunk borders; gateways that lag, repeat or fail; look-alikes of settlements | a scan is exact, a settlement is no deposit |
| Prices and limits | configuration, attempt windows | `quote`, `checks_for`, `atomic`, `match_offer`, rate limits | rounding, borders | the amount quoted is the amount demanded |
| Buyer tool, web pages, public reads | none of the server's | | | |

How they interact: a request passes `_gate` (which verifies with the
facilitator or `settle.py` and books a `pending` row), produces content, and
`_deliver` settles it through the facilitator or `settle.py`; an undecided
settlement is parked as `settle_pending` and decided later from the chain by
`finalize_one`, called from the autopilot's pass or from the buyer's retry. An
insight sale credits the agent's owner. A research run is sold through the same
gate; its runner then works on the row the handler activated. The CELO lane has
no ledger entry: its order row is the payment, and its delivery makes the same
research run or model answer. Registrations, fee bumps and self-broadcast
settlements send from one wallet and share its nonces under `_send_lock`. A sale
in stablecoin arrives at the treasury the deposit scan watches. All of them share
the database; only the points marker is taken under a lock.

The hazards this exposes are listed, with their lines and the properties aimed
at them, in `PROJECT.json`.

## 2. Modules

| Module | Content |
|---|---|
| `PaidSale` | What a sale promises: open, then void or charged, then served; the owner paid at most once, out of a charged sale; and what is left of it when the sale lapsed, its day over before the transfer was decided. |
| `X402Sale` | The sale as the code makes it: handlers, autopilot, ledger, settler, chain, clock, crashes. Refines `PaidSale`. |
| `MCX402Sale` | Instances of `X402Sale`, symmetry of the handlers. |
| `X402SaleProofs` | Theorems about `X402Sale`. |
| `PaidRun` | What a research run promises: no work before the sale settled, none again after it ended, its checks numbered without a gap, one more at most after it was stopped. |
| `ResearchTasks` | The paid runs: buying, activating, stopping, and the runner thread. Refines `PaidRun`. |
| `MCResearchTasks` | Instances of `ResearchTasks`, symmetry of handlers and runs. |
| `ResearchTasksProofs` | Theorems about `ResearchTasks`. |
| `PaidOrder` | What a CELO order promises: open, then void or paid by one transfer for good, then delivered; a transfer pays at most one order. |
| `CeloOrders` | The order as the code makes it: handlers, tables, chain, clock, crashes. Refines `PaidOrder`. |
| `CeloOrdersProofs` | Theorems about `CeloOrders`. |
| `AgentRegistration` | Threads that register agents, the in-flight set, the wallet's nonce chain, transactions and their versions, faults. |
| `AgentRegistrationProofs` | Theorems about `AgentRegistration`. |
| `DepositScan` | The chunked log scan over failing gateways beside the sales it must not credit. |
| `MCDepositScan` | The shapes of transactions of its instance. |
| `DepositScanProofs` | Theorems about `DepositScan`. |

### X402Sale

One authorization is a `(payer, nonce)` pair, the key of the ledger. Its row is
`status`, `hash` (`tx`), `shared` (`owner_credits > 0`), `meta` (the JSON flags
`delivered` and `owner_share_failed`) and `receipt`. `chain` is what became of
the authorization, `left` what is left of its validity window in the steps the
code distinguishes (60 s at the gate, 45 s before a slot is kept, expired),
`aged` the 24 h limit, `inLogs` the 900 block horizon. A worker is a handler or
the autopilot thread; `pc`, `at`, `job` and `snap` are its step, its row, its
role and the row as it read it. `cache`, `verifying` and `free` are process
memory and vanish in a crash. `calls` and `served` observe settle calls and
answers with content; `early` marks a row that turned a day old while its transfer
was undecided.

Actions follow the code in its order: the gate (`Request`, `Lookup`,
`RouteNew`, `Verified`, ...), the content (`TakeSlot`, `Generated`,
`ContentFailed`), settlement (`SettleSend`, `ReplyPaid`, `ReplyLost`, ...),
`finalize_one` (`Reconcile`, `BookFinalized`, `StillUndecided`), `credit_owner`
and what each caller does with its answer (`TakeGrant`, `PayOwner`,
`RecordSaleShare`, ...), delivery with the split read and write of the metadata
(`DeliverRead`, `DeliverWrite`, `Respond`), and the outside world (`Land`,
`Fail`, `Cancel`, `Tick`, `Age`, `Bury`, `Evict`, `Abort`, `Crash`). A handler is
cut at every await; code that the autopilot runs in its thread is cut between
its database statements.

Abstractions and assumptions:

- The facilitator's and the verifier's answers are trusted as the code trusts
  them: a definite refusal means nothing will land; a definite success means it
  landed. A reply may be lost at any time, and the transfer may land before or
  after that, within the validity window.
- `Age` may happen to a parked row at any time: nothing in the code bounds
  `validBefore` from above (`routes.py:216-225`, `settle.py:102`), and a request that
  is at work on the row does not stop the clock. When it happens with the window
  still open or a worker on the row, `early` remembers it. The 24 h give-up can then fail a sale whose
  transfer lands later, or one that was settled after the finaliser's look at the
  chain. The properties that this breaks name `early` as their one exception.
- `store_receipt` may fail without anybody noticing, as in the code; nothing promises
  that a delivered sale has a receipt.
- One autopilot thread runs `finalize_pending`, and only settle calls submit an
  authorization.
- The hash of a's transfer is named `a`; two transfers never share one.
- The attempt limits and strikes (429) are one refusal, `RouteRefuse`, that may
  happen whatever the ledger says except where the code serves the row.
- `finish()` is one step, although it reads `tx` and `owner_credits` before it
  writes them.
- `Outages = TRUE` lets every chain read fail and every transfer fall out of
  the searched blocks. `SelfSettled` chooses the settler.

### ResearchTasks

`status`, `done`, `meta` and `next` are the columns of `x402_tasks`, `recorded`
the rows of `x402_task_runs`; `meta` holds the check tried last, the attempts at
it and the failures in a row. `next` is none, later or due; `over` means the
window and its grace are past; `today` counts the check rows of a day. The sale
of a run is reduced to what `X402Sale` shows of it: one handler sells, a lost
reply is decided later (`Finalize`), and a settled, undelivered sale is delivered
on a retry, possibly by several handlers at once. A sale orphaned by a crash
stays pending and is refused from then on, as in the code.

The runner is one thread. `TakeBatch` is `run_due` with its budget check and its
one read of the due rows; `Call`, `Answered`, `Unanswered`, `Record`, `Count`,
`Note`, `Complete`, `StopFailing`, `Advance` and `Retry` are the statements of
`run_one` in their order, on the row as the batch read it; `SweepStart`,
`SweepOver` and `SweepKeep` are `sweep_stale`. `activate` and `stop` are cut
between their read and their write. An uncaught exception ends one handler
(`Abort`) or one pass (`AbortPass`), a restart both. `checks_failed`, which only is displayed,
is left out, as are `stop`'s metadata (it writes back after the run ended, when
nothing is decided by it) and everything about access tokens, recovery and
public links. `recorded` holds the numbers of the checks written down; after a crash
between `Record` and `Count` the table gets a second row with the same number, which
`today` counts and `recorded` does not show.

`PaidRun` sees a run as open, void or paid by its sale until it starts, and then as
working, closing or ended; `closing` is a stopped run whose check the runner has at
hand, or still in its batch, and may write down.

### CeloOrders

`status`, `tx`, `quote` and `result` are columns of `celo_orders`; `run` is the row
of `x402_tasks` a run's order makes (`("payer", "celo:" + order)`). Every delivery
issues something new, a run's access token or an answer of the model: `issued`
numbers them, `given` is what a handler issued, `handed` what the buyer was
answered with, and of a run only the last one issued opens it. `chain`, `amount`
and `recent` are the wallet's transfers, `age` the quote's validity and
`CLAIM_TTL_S`.

`Create` and `Insert` are `create()` with the count of open orders before the
insert. `SubmitTx` and `Poll` are the endpoints up to their first await; `Scan` and
`TryNext` are `find_payment`, which tries its candidates in any order; `Verified`,
`Rejected`, `Attach`, `AttachConflict` and `AttachLate` are `attach_tx`, cut between
the receipt it looks up and the update with the unique index. `Answer`, `FindRun`,
`NewToken`, `NewRun`, `RunThere`, `Activate` and `Store` are the statements of
`_celo_deliver` and of the parts of `tasks.create` and `tasks.activate` it calls.
`DeliverFailed` and `DeliverDropped` are its `except`: what fails before a token is out,
and what fails after it, with the run perhaps started and the token lost (`dropped`).
`Tick`, `Expire`, `Bury` and `Mine` are time and chain, `Abort` and `Crash` as in
`X402Sale`.

Abstractions and assumptions: one wallet; a transaction carries one Transfer log
to the treasury, or none (a native send, amount 0); the answer to a finished
handler reaches the buyer; a run's recovery of its token by a wallet signature is
not in the module. The events trail, the price feed and the RPC counters decide
nothing and are left out, as is the age of a paid order, which only refuses
hashes. What the module shows of the code beside its properties: the count of
open orders does not bound them when several are made at once, and `LimitNearlyKept` is
what is left of the limit; an `IntegrityError` of
the index is an uncaught 500; a quote is honoured up to `CLAIM_TTL_S` although it is
offered for `QUOTE_TTL_S` (the docstring of `expire_stale` says so); two concurrent
deliveries call the model twice, and the token stored last may be the older one,
so what holds is `BuyerHoldsToken` and not that the stored result opens the run; and a
token whose delivery failed after it was issued is lost, even when another delivery
of the order is answered with an older one.

### AgentRegistration

`id`, `hash` and `aged` are `celo_agent_id`, `celo_agent_tx` and
`celo_registered_at` past `PENDING_MAX_AGE_S`; `inflight`, `fails` and `resting`
are the module's memory; `lock` is `_send_lock`. A transaction is one broadcast,
`top` its last version and `won` the one that was mined; the node of this process
knows it in the pool or has forgotten it while others may still mine it
(`unknown`). A thread holds the row as it read it (`seen`, `late`), the nonce it
signed with and the hash it waits for (`mine`).

`Start`, `InFlight` and `Enter` are `register_agent` and `register_platform` up to
the place in `_inflight`, with the row read before it; the `Resolve...` actions
are `_resolve_pending`; `BumpLook`, `BumpSend`, `BumpLanded` and `BumpRefused` are
`bump_pending`, cut between its look at the transaction outside `_send_lock` and its
send under it, and `BumpRecorded` the row's update; `Sign`, `Broadcast`,
`BroadcastFails`, `Receipt...` are `send_and_wait`, `Record` its success. `Pay` is a
settlement of `settle.py` that draws a nonce of the same wallet. `Mine`, `Drop`,
`Age`, `Cool`, `Delete`, `Reset` and `Crash` are the chain, time, the owner, the
admin and the process.

Most calls are answered by the gateway that has the wallet's pool. `rpc()` may fall
back to another one, which is a fault of the model: `NonceElsewhere` is the
pending count of a node that lags, knows less of the pool or still knows what the
pool has forgotten, and `Overlooked` a look-up by a node a pooled transaction never
reached. A pool that is sent a second transaction under a nonce may keep both, as
two nodes would, or let the older go (`Enters`).

Three observations keep the properties honest about what the code cannot or does
not prevent. `slips` counts, per agent, the incidents that may cost a second mint: a
reply that was lost after the node took the transaction, a restart before a hash was
written, a transaction that another gateway overlooked, and one mined in a version
the row does not name or after the node had forgotten it. `raced` counts the entries of threads
whose row had moved between its read and the place in `_inflight`: this
needs no fault and is the code's own race. `MintsAreExplained` says that there are never more
mints than these two allow, and `NeverMintsTwice`, which is what the code's
comments promise, is refuted by `claim_mint_twice`. `stray` holds the transactions
sent under a nonce that may be taken: signed with another gateway's count, or bumped
after the pool had lost them. `NonceIsFresh` holds for all the others. Abstractions: the
platform is registered by the autopilot only, with no count, back-off or deletion;
gas prices are left out and a wallet without funds is a choice (`Unfunded`).

### DepositScan

`Begin`, `Height`, `Fetch`, `GatewayFails` and `Collect` are `fetch_incoming`: the
height of the first gateway that answers throughout, `Lag` behind or not, chunks
of `MaxRange` blocks, a gateway that may send a log twice, `seen_logs`, the sum
per transaction and token. `Credit`, `Unconfirmed` and `ScanEnds` go through the
rows with `tx_succeeded` and `is_settlement_like`, while `Sell` and `Finish` move
the ledger's row of a sale as `X402Sale` does. Assumptions: blocks stand for
seconds, so that `MaxHead` 5, `Window` 3 and `Match` 2 stand for the scan window
and the match window, of which the first is the larger; every gateway names a
log's index; the service that credits the rows is outside `src/` and credits a
transaction once (`points_tx`); all sales have one payer and price. A transaction
with two tokens makes two rows, of which that service credits one.

## 3. Runs

Passing:

| Run | Shows |
|---|---|
| `sale_insight` | One insight purchase, two handlers with the same signature, the autopilot, one crash or uncaught exception: `OneSettleCall`, `ContentIsPaid`, `SettledIsCharged`, `FailedIsFree`, `OwnerPaidOnce`, `MarkerIsBacked`, `SettledIsFinal`, and the refinement `KeepsPromise`. |
| `sale_chat` | A chat purchase, whose three handlers contend for one generation slot, with the self-broadcasting settler, failing chain reads and a crash: `TypeOK`, `SlotsConserved`, `OneSettleCall`, `SettledIsFinal`. |
| `sale_live` | Under fairness, without a crash: `OpenRowsClose`, `ChargedIsBooked`. |
| `runs_one` | One run, two handlers, one restart or uncaught exception, under fairness: `TypeOK`, `DoneIsRecorded`, `CallsAreBounded`, `ExtraChecksAreBounded`, `PaidRunStarts`, `EndedStaysEnded`, `RunsEnd`, and the refinement `KeepsPromise`. |
| `runs_batch` | Two runs of one wallet at its limit in one batch: `StartedIsPaid`, `BudgetNearlyKept`. |
| `orders` | Two orders, one of them for a run, and one transfer both try to claim; two handlers, one delivery that fails with its token out, one restart or uncaught exception, under fairness: `TypeOK`, `PaidIsCovered`, `DeliveredRunStarted`, `BuyerHoldsToken`, `PaidIsDelivered`, and the refinement `KeepsPromise`. |
| `agents` | One agent registered by the autopilot and another thread at once, beside a settlement, with one fault: `TypeOK`, `MintsAreExplained`, `NonceIsFresh`, `RecordedIsMinted`. |
| `agents_live` | Under fairness, an agent and the platform, one fault: `AgentsRegister`. |
| `deposits` | Transactions of five shapes and a sale that looks like one of them: `ScanIsExact`, `SalesAreNotDeposits`. |

Properties that a comment or document of the repository states and the code
does not keep (each run has exactly one such property and TLC's counterexample):

| Run | Disagreement |
|---|---|
| `claim_share_retried` | "autopilot retries it" (`routes.py:348`): a delivery that read the metadata before the flag was set writes it back without the flag, and no pass retries the owner's share. The same lost update, the other way round, can drop `delivered`. |
| `claim_self_timeout` | "finalize_pending() checks the chain and flips it to settled" (`x402.py:32`): a parked row's own hash is taken for another sale's, and the charged row fails after a day. |
| `claim_mint_twice` | "never mint twice" (`agentid.py:228`), "Idempotent" (`agentid.py:203`): the row is read at 206, before the place in `_inflight` is taken at 218, so a thread that read it before another one's hash was written enters when that one has left, and both transactions are mined. Two threads, no fault. |

More disagreements met on the way have no run of their own:

- "the buyer's retry with the SAME signature then gets the content" (`x402.py:34-35`,
  also `routes.py:66-67`): the gate checks the validity window (`routes.py:216-225`) before it
  reads the ledger (`routes.py:238`), so a buyer who was charged by a lost settlement and
  comes back after the window is refused, then and for ever.
- `finalize_pending()` "checks the chain and flips it to settled" (`x402.py:33-34`), and
  a settled row is a permanent revenue record (`x402.py:29-31`): the 24 h limit
  (`x402.py:644-645`) looks neither at `validBefore` nor, again, at the row. A transfer that lands
  after it is charged and never booked, and a finaliser that looked at the chain
  before the row was settled can write `settle_failed` over it. The exceptions for `early`
  in section 2 are these behaviours.
- "a registration and a settlement can never race each other into a nonce collision"
  (`wallet.py:8-10`): `bump_pending` reads the nonce it sends with outside `_send_lock`
  (`wallet.py:273`). If the transaction is dropped in between and a settlement
  takes its nonce, the bump sends it again under that nonce.
- With the self-broadcasting settler `SettledIsCharged` fails: "'nonce used' alone
  proves nothing" (`x402.py:444`), but with a hash at hand a used nonce and an unknown
  hash suffice (`x402.py:452`), and an authorization its buyer cancelled is booked as
  settled.
- When the last paid check of a run is given up, check total+1 of total
  is made (`tasks.py:591`), against "This is check {seq} of {total}"
  (`tasks.py:491`); `ExtraChecksAreBounded` bounds how many there are.

Bounds. One authorization suffices for the sale because the only things two
authorizations share are the slots and the list of known hashes, which names
each row's own; the theorems hold for any number. Two handlers and the
autopilot give every pair of callers of `finalize_one`, `credit_owner` and
`update_meta`. One crash per behaviour can fall between any two steps, and
invariants that hold across it are inductive for more (proved for any
`MaxCrashes`). For the runs, `Total = 1` with
`MAX_ATTEMPTS` 2 and `MAX_CONSECUTIVE_FAILS` 2 reaches a first check, a check
given up, the last paid check, checks past it, and the end by each of the five
ways (completed, failing, stopped, window over in a batch, swept); two handlers
race activation, retry and stop; two tasks with `MaxRunning = 1` and a batch of
two reach the refusal, and the budget of one is passed inside a batch. `called`
and `done` need no cap: the code bounds them. For the orders, the one transfer is
wanted by the order it was sent for, by a scan of the other, and by two handlers
of one; 96 and 97 of a price of 100 lie on both sides of the tolerance; a second
transfer adds nothing to compete for, and the theorems hold for any number. `LimitNearlyKept` could be
broken by three orders and two handlers at the least, which is too large an instance
beside liveness; it is proved instead. For the agents, three sends let an agent mint, mint again, and a settlement take a
nonce between them; two versions let the replaced one be mined; one fault may
fall anywhere and a second mint without one is reached too, as are a bump that takes
a nonce from another transaction and a count of another gateway that collides. `agents_live` has four
sends, so that a fault and its retry are never cut off by `MaxSends`, and the
platform besides an agent, which share the autopilot. For the deposits, a window
of three blocks in chunks of two has a border inside it and one transaction on
each side; the payloads cover a top-up equal to a sale, a sum equal to one, two
tokens, transfers to be skipped, and nothing to credit. Distinct states:
`agents` 5.25 million, `sale_insight` 2.19 million, `sale_chat` 1.74 million,
`deposits` 1.71 million, `runs_one` 252,196, `orders` 215,666, `agents_live` 123,458,
`sale_live` 22,702, the others fewer. Deadlock is not checked in any run,
since a system with nothing sold or left to sell may stop.

Invariants guarded by `crashes = 0` (`MarkerIsBacked`,
`PaidRunStarts`) do not hold across a crash in the unlucky place, and the code
has no recovery for it: a marker without a payment is never paid, a
delivered run that was not activated never starts. `OpenRowsClose` is checked without crashes because nothing looks at
a row a dead process left `pending`.

## 4. Fairness

`X402Sale!FairSpec`: workers that began go on (the event loop and the threads
are scheduled); the autopilot, one thread that passes over all rows again and
again, keeps starting on a row that keeps needing it (strong fairness, since it
is busy with others in between); the chain decides what was sent; time passes, and a
parked row turns a day old;
and a credit retried again and again does not fail for ever (strong fairness of
`PayOwner`; only `claim_share_retried` depends on it). No buyer has to send a request.

`ResearchTasks!FairSpec`: a pass of the runner goes on, the loop that calls
`run_due` and `sweep_stale` ("called from the same loop") keeps calling the sweep,
and windows pass. Handlers, answers of the model, due times and the daily budget
need no fairness.

`CeloOrders!FairSpec`: handlers go on; the buyer's page keeps polling its order
(strong fairness, as every poll is over before the next); and no step of a delivery
that is tried again and again fails every time, whichever handler is at it. Failures
after the issue of a token need no fairness, since `MaxDropped` bounds them. A buyer who goes away
leaves the order paid, which is what the code means by it.

`AgentRegistration!FairSpec`: threads go on; a thread that waits for `_send_lock`
gets it and does not find the wallet empty every time; the autopilot comes back to every
agent; a transaction in the pool is mined when its nonce is next; time passes.
What is still excepted by `AgentsRegister` are agents that were deleted or
failed `MaxFails` times, since both are left alone on purpose, and a wallet held
up by a nonce nobody uses (`Gap`).

`DepositScan` has no fairness: nothing in `src/` schedules it.

## 5. Proofs

`X402SaleProofs` proves, for every number of authorizations, handlers, slots and
crashes, under `SaleAssumption` (`Requests` finite, `Autopilot` not a request,
`None` not an authorization, the Booleans and numbers typed):

| Theorem | Property | Further assumption |
|---|---|---|
| `TypeCorrect` | `TypeOK` | |
| `SettledOnce` | `OneSettleCall` | |
| `PaidOnce` | `OwnerPaidOnce` | |
| `BookedIsCharged` | `SettledIsCharged` | facilitator (`~SelfSettled`) |
| `ServedIsPaid` | `ContentIsPaid` | facilitator |
| `GivenUpIsFree` | `FailedIsFree` | facilitator, readable chain (`~Outages`) |
| `RevenueIsFinal` | `SettledIsFinal` | |
| `SlotsKept` | `SlotsConserved` | |
| `MarkersBacked` | `MarkerIsBacked` | |
| `PromiseKept` | `KeepsPromise` | facilitator, readable chain |

The extra assumptions are where the properties really stop holding: `claim_self_timeout`
and the booked cancellation of section 3 are the counterexamples for the
self-broadcasting settler, and with outages a transfer can be buried before it is looked for.

None of the safety properties is inductive by itself. The argument, in layers,
each proved on top of the ones before it:

- `Control`: which step a worker may be at in which role; the autopilot never
  serves.
- `OneSeller`: a worker between booking and reply has the only `pending` row of
  its authorization and is alone on it; before its settle call none was made;
  whoever is further, or read a settled or parked row, is on a row past selling.
  It makes `OneSettleCall` inductive, and with the second layer makes settled
  final: a finaliser that read a parked row can only fail it once it is aged.
- `AgedAlone`: an aged row is `early`, or it has no handler on it, its window is
  over, and the autopilot's look at it is not stale. It is what stops a day-old
  give-up from taking a settled row back (`SettledIsFinal`) in every case but the one
  the code leaves open.
- `OnePayer`: a marker comes before a point, and at most one worker holds the
  right to pay. With it `OwnerPaidOnce` is inductive.
- `ChargedWork`: whoever books, shares or delivers stands on a charged
  authorization. With it follow `SettledIsCharged` and `ContentIsPaid`.
- `FreeRows`: with a readable chain a known hash belongs to a settled row, an
  authorization nobody submitted was never charged, and a row fails only when
  the transfer cannot land any more, each unless the row is `early`. With it
  `FailedIsFree` is inductive.
- `MarkerIsBacked` needs nothing more: until a crash a worker leaves the payment only
  by paying or by releasing the marker (`StepsAside`, `BackedStep`).
- `PromiseKept` shows that every step is a move of `PaidSale` or a stutter. `Land`, the
  failures, `PayOwner` and `Respond` move it, and `FailedIsFree` and `ContentIsPaid`
  supply the guards of the abstract moves. `Age` lapses a sale that is still
  undecided, and only for a lapsed one do a late `Land`, a give-up of a charged
  row or its booking afterwards become moves (`Wrong`, `Right`) instead of violations.

Each step lemma has one case per action. The finite-set theorems of the library
are used for the counting in `SlotsConserved`.

`ResearchTasksProofs` proves, for any number of runs, handlers and crashes and any
batch size, budget and limits, under `RunsAssumption` (`Tasks` finite, `None` not a
run, the limits positive numbers):

| Theorem | Property |
|---|---|
| `RunsTyped` | `TypeOK` |
| `RunsStartPaid` | `StartedIsPaid` |
| `RunsDoneRecorded` | `DoneIsRecorded` |
| `RunsCallsBounded` | `CallsAreBounded` |
| `RunsExtraBounded` | `ExtraChecksAreBounded` |
| `RunsBudgetKept` | `BudgetNearlyKept` |
| `RunsPaidStart` | `PaidRunStarts` |
| `RunsStayEnded` | `EndedStaysEnded` |
| `RunsKeepPromise` | `KeepsPromise` |

The invariant is `TypeOK /\ Paying /\ Current /\ CallsCounted /\ ExtraCounted /\
BudgetCounted /\ StartAtHand`. `Paying`: one handler sells a run, whoever delivers or
activates it stands on a settled sale, and whoever stops it, or has it in its
batch, on a run that has started; an ended run stays so because no write but
`activate`'s makes a run work, and that one looks at the status again. `Current`:
the runner alone counts checks, so what the batch read of a run is still true when
its check is recorded, and the check at hand is the next one. Two potentials bound the
work: `CallsCounted` the calls, by the attempts that are noted and the call
that is not yet accounted for, `ExtraCounted` the checks past the end, by the failures
in a row; a crash, which forgets either, pays for it with one call or
`MaxFails` checks. `BudgetCounted` charges a batch to the budget when it is taken.
`StartAtHand`: until a crash a delivered run has started or a handler is about to
activate it.

The refinement rests on `Paying`, `Current` and one part more, `InOrder`: the numbers
written down are `1..checks_done`, or one more while the check at hand is not counted.
A handler moves one run (`HandleMoves`): settlement and refusal move an open one,
`activate` a paid one, `stop` a working one, to `closing` if the runner has it at
hand. Of the runner, `Record` alone writes a check down (`RecordMoves`), with the number
that is next because `InOrder` and `Current` agree on it; whatever else it does puts one
run aside (`PutAside`), and a batch that is taken or lost ends the stopped runs in the
old one (`Dropped`).

`CeloOrdersProofs` proves, for any number of orders, transfers and handlers, any
prices and amounts and any `MaxCrashes`, under `OrdersAssumption` (orders and handlers
finite, at least one handler):

| Theorem | Property |
|---|---|
| `OrdersTyped` | `TypeOK` |
| `OrdersCovered` | `PaidIsCovered` |
| `OrdersStarted` | `DeliveredRunStarted` |
| `OrdersRunsPaid` | `RunIsPaid` |
| `OrdersTokenHeld` | `BuyerHoldsToken` |
| `OrdersKeepPromise` | `KeepsPromise` |
| `OrdersLimited` | `LimitNearlyKept` |

The invariant is `TypeOK /\ Working /\ Booked /\ PaidIsCovered /\ Started /\
TokenHeld`. `Working` is what a handler may rely on between its statements: it alone
inserts its order; the transfer it is about to write was seen mined and large
enough, and stays so; an order it delivers was paid, and stays so. `Booked` is what the
unique index adds: exactly the paid orders have a transfer, each its own, on
which the refinement rests. `Started` follows the run's row through the delivery,
`TokenHeld` the last token issued: it was answered, its handler is still there, or its
delivery failed and dropped it.
For the limit, `Counted` adds the handlers between their count and their insert to the
open orders: the sum stays below the limit and the number of handlers, since
a handler that counts finds fewer open orders than the limit, and not all handlers
were between the two already.

`AgentRegistrationProofs` proves, for any number of agents, threads, sends,
versions and faults, under `AgentsAssumption`:

| Theorem | Property |
|---|---|
| `AgentsTyped` | `TypeOK`, with `_inflight` as exactly the agents threads are at work on |
| `NoncesFresh` | `NonceIsFresh` |
| `IdsMinted` | `RecordedIsMinted` |
| `MintsExplained` | `MintsAreExplained` |

The invariant is `Typed /\ InFlightHeld /\ Nonces /\ Owned`. `InFlightHeld`: no two
threads work on one agent, and the in-flight set is theirs. `Nonces`: only the
lock's holder has signed, with a nonce that nothing in the pool has unless another
gateway gave it; what a bump puts back into the pool is `stray` if it was not there. `Owned`: the
hash in a row, in a thread's copy of it and in its hand belongs to a transaction
sent for that agent, also when the copy is stale, and what is to be recorded was
mined.

`MintsAreExplained` compares a count of transactions with what excuses them
(`Excused`), the incidents and the entries on moved rows. Its
invariant `Explained` counts the agent's live transactions instead of the mints: those
that were mined or are in the pool (`Alive`). They exceed the excuses by at most one,
and by one only while the agent is `Known`: its thread goes by the hash of a live
version, or, when no thread works on it, the row has one. A transaction is sent only
when the agent is not known, which leaves the count at the excuses or below before
it; every step that makes the code lose track of a live one is counted.

`DepositScanProofs` proves, for any chain, window, chunk size and lag, any number of
gateways, transactions and sales, under `ScanAssumption` (deposits and sales are
different transactions, `None` is no number, sizes and amounts are natural numbers):

| Theorem | Property |
|---|---|
| `ScansExact` | `ScanIsExact` |
| `SalesNotDeposits` | `SalesAreNotDeposits` |

The invariant is `Typed /\ Mined /\ Reading /\ SalesRead`. `Mined`: no transaction is in
a block above the head, and a mined sale is booked and transfers its price. `Reading`:
the distinct logs the scan has are those of the blocks from its oldest one up to the
next chunk; chunks meet without a gap or an overlap because the next one starts behind
the last (`FetchReads`), and taking each log once and summing them gives the window's
rows whatever the gateway repeated (`CollectExact`). `SalesRead`: the rows hold a sale's
transfer only with the sale's own price and payer, so that `is_settlement_like` finds
the sale's row unless it is older than the match window.

Only model-checked: liveness (`OpenRowsClose`, `ChargedIsBooked`, `RunsEnd`,
`PaidIsDelivered`, `AgentsRegister`), which is out of the prover's reach, and the three
claims, which TLC refutes (`FailedIsFree` of `claim_self_timeout` is a theorem where the
facilitator settles).

## 6. Plan

Done: `PaidSale` and `X402Sale`, `PaidRun` and `ResearchTasks`, `PaidOrder` and
`CeloOrders`, `AgentRegistration`, `DepositScan`, each with its proofs. Every safety
property that a passing run checks is a theorem. Left:

1. A composition of `X402Sale` and `ResearchTasks`, in which the payment of a run
   is the sale itself, and the proof that the reduced payment of `ResearchTasks` is
   what the sale shows of it.
2. `finish()` cut between its read of `tx` and `owner_credits` and its write.

## 7. Not modelled

- Prices, offers and rate limits (`quote`, `checks_for`, `atomic`, the attempt
  windows): conversions and in-memory counters that no other part reads. In the
  models a price is a constant and a limit is a refusal that may happen.
- Access tokens of runs bought in stablecoin, their recovery by a signature and
  the public link: one conditional update of one row each.
- The upkeep of the agents' URIs and cards: idempotent writes of one field.
- Web pages and the buyer tool: clients. A buyer is any sequence of requests with a
  signature, or of orders, transfers and polls.
- Public reads: they change no state.
- Calldata and EIP-712 encodings, gas pricing, logging and wording: data.
