------------------------------- MODULE CeloOrders -------------------------------
(***************************************************************************)
(* Orders paid in CELO: celo/native_pay.py and the /celo/orders endpoints  *)
(* of celo/routes.py. One wallet creates orders, sends transfers to the    *)
(* treasury, hands in their hashes, and polls; each poll of an unpaid      *)
(* order scans the chain for a transfer. Handlers are cut between their    *)
(* database statements, which run in threads.                              *)
(*                                                                         *)
(* An order may be for a research run, whose row in x402_tasks is made     *)
(* when the order is delivered, or for an answer of the model. Each        *)
(* delivery issues something new, a run's access token or an answer: they  *)
(* are numbered per order, the last one issued for a run is the token that *)
(* opens it.                                                               *)
(***************************************************************************)
EXTENDS Integers, FiniteSets

CONSTANTS
  Orders,      \* the orders the wallet may create
  Runs,        \* those that buy a research run
  Transfers,   \* the wallet's transactions to the treasury
  Handlers,    \* HTTP handlers that may run at the same time
  None,        \* no order or transfer at hand
  Prices,      \* the amounts an order may be quoted
  Amounts,     \* the amounts a transfer may move; 0: no Transfer log
  Tolerance,   \* TOLERANCE_BPS, in percent
  MaxOpen,     \* MAX_OPEN_PER_PAYER
  MaxDropped,  \* bound on what an order's failed deliveries had issued, with the
               \* crashes before
  MaxCrashes   \* bound on server restarts and uncaught exceptions

ASSUME OrdersAssumption ==
  /\ IsFiniteSet(Orders) /\ Runs \subseteq Orders
  /\ IsFiniteSet(Handlers) /\ Handlers # {}
  /\ None \notin Orders \cup Transfers
  /\ Prices \subseteq Nat \ {0} /\ Amounts \subseteq Nat
  /\ Tolerance \in 0..100
  /\ MaxOpen \in Nat /\ MaxDropped \in Nat /\ MaxCrashes \in Nat

VARIABLES
  \* table celo_orders
  status,    \* [Orders -> Statuses], "none": no row
  tx,        \* the transfer that paid it
  quote,     \* celo_wei
  result,    \* the number of the delivery in result_json, 0: none
  \* the run's row in x402_tasks (payer, "celo:" + order)
  run,       \* "none", "awaiting_payment" or "running"
  issued,    \* deliveries made for the order
  \* the chain and the clock
  chain,     \* [Transfers -> Chains]
  amount,    \* what a transfer moves
  recent,    \* it is within the last SCAN_BLOCKS
  age,       \* of an order: 0 quote valid, 1 claimable, 2 past CLAIM_TTL_S
  \* HTTP handlers
  pc, at,    \* step and order
  trial,     \* the transfer it tries to attach
  found,     \* the transfers its scan has still to try
  given,     \* the number of the delivery it made
  \* observations
  handed,    \* the deliveries the buyer was answered with
  dropped,   \* those a caught failure ended before their answer
  crashes

rows    == <<status, tx, quote, result>>
task    == <<run, issued>>
world   == <<chain, amount, recent, age>>
http    == <<pc, at, trial, found, given>>
history == <<handed, dropped, crashes>>
vars    == <<rows, task, world, http, history>>

Statuses == {"none", "awaiting", "paid", "delivered", "expired"}
Chains   == {"unsent", "sent", "mined", "reverted"}
Steps    == {"idle", "insert", "scan", "check", "tried", "write", "deliver",
             "rotate", "newrow", "activate", "store"}

TypeOK ==
  /\ status \in [Orders -> Statuses]      /\ tx \in [Orders -> Transfers \cup {None}]
  /\ quote \in [Orders -> Nat]            /\ result \in [Orders -> Nat]
  /\ run \in [Orders -> {"none", "awaiting_payment", "running"}]
  /\ issued \in [Orders -> Nat]
  /\ chain \in [Transfers -> Chains]      /\ amount \in [Transfers -> Nat]
  /\ recent \in [Transfers -> BOOLEAN]    /\ age \in [Orders -> 0..2]
  /\ pc \in [Handlers -> Steps]           /\ at \in [Handlers -> Orders \cup {None}]
  /\ trial \in [Handlers -> Transfers \cup {None}]
  /\ found \in [Handlers -> SUBSET Transfers]
  /\ given \in [Handlers -> Nat]
  /\ \A h \in Handlers : pc[h] = "idle" <=> at[h] = None
  /\ \A h \in Handlers : pc[h] \in {"check", "tried", "write"} => trial[h] # None
  /\ handed \in [Orders -> SUBSET Nat]    /\ dropped \in [Orders -> SUBSET Nat]
  /\ crashes \in 0..MaxCrashes

Init ==
  /\ status = [o \in Orders |-> "none"]   /\ tx = [o \in Orders |-> None]
  /\ quote = [o \in Orders |-> 0]         /\ result = [o \in Orders |-> 0]
  /\ run = [o \in Orders |-> "none"]      /\ issued = [o \in Orders |-> 0]
  /\ chain = [x \in Transfers |-> "unsent"]
  /\ amount = [x \in Transfers |-> 0]     /\ recent = [x \in Transfers |-> TRUE]
  /\ age = [o \in Orders |-> 0]
  /\ pc = [h \in Handlers |-> "idle"]     /\ at = [h \in Handlers |-> None]
  /\ trial = [h \in Handlers |-> None]    /\ found = [h \in Handlers |-> {}]
  /\ given = [h \in Handlers |-> 0]
  /\ handed = [o \in Orders |-> {}]       /\ dropped = [o \in Orders |-> {}]
  /\ crashes = 0

-------------------------------------------------------------------------------
(* Control of a handler. *)

Goto(h, step) == /\ pc' = [pc EXCEPT ![h] = step]
                 /\ UNCHANGED <<at, trial, found, given>>

Start(h, o, step) == /\ pc[h] = "idle"
                     /\ pc' = [pc EXCEPT ![h] = step]
                     /\ at' = [at EXCEPT ![h] = o]
                     /\ UNCHANGED <<found, given>>

Leave(h) == /\ pc' = [pc EXCEPT ![h] = "idle"]
            /\ at' = [at EXCEPT ![h] = None]
            /\ trial' = [trial EXCEPT ![h] = None]
            /\ found' = [found EXCEPT ![h] = {}]
            /\ given' = [given EXCEPT ![h] = 0]

-------------------------------------------------------------------------------
(* create(): the count of open orders, then the insert. *)

Open == {o \in Orders : status[o] = "awaiting" /\ age[o] = 0}

BelowLimit == Cardinality(Open) < MaxOpen

Create(h, o) == /\ status[o] = "none"
                /\ \A g \in Handlers : at[g] # o
                /\ BelowLimit
                /\ Start(h, o, "insert")
                /\ UNCHANGED <<trial, rows, task, world, history>>

Insert(h) == /\ pc[h] = "insert"
             /\ \E price \in Prices : quote' = [quote EXCEPT ![at[h]] = price]
             /\ status' = [status EXCEPT ![at[h]] = "awaiting"]
             /\ Leave(h)
             /\ UNCHANGED <<tx, result, task, world, history>>

-------------------------------------------------------------------------------
(* The buyer's hash, or a poll. Both read the row first. *)

SubmitTx(h, o, x) == /\ status[o] \in {"awaiting", "paid"}
                     /\ chain[x] # "unsent"
                     /\ Start(h, o, "check")
                     /\ trial' = [trial EXCEPT ![h] = x]
                     /\ UNCHANGED <<rows, task, world, history>>

Poll(h, o) == /\ status[o] \in {"awaiting", "paid"}
              /\ Start(h, o, IF status[o] = "awaiting" THEN "scan" ELSE "deliver")
              /\ UNCHANGED <<trial, rows, task, world, history>>

\* A delivered order answers with what it stored.
HandStored(o) == result[o]

Reopen(o) == /\ status[o] = "delivered"
             /\ handed' = [handed EXCEPT ![o] = @ \cup {HandStored(o)}]
             /\ UNCHANGED <<rows, task, world, http, dropped, crashes>>

-------------------------------------------------------------------------------
(* find_payment(): any recent transfer that is large enough and not used. A   *)
(* transaction carries one Transfer log to the treasury, or none.             *)

Enough(o, x) == /\ amount[x] > 0
                /\ amount[x] >= (quote[o] * (100 - Tolerance)) \div 100

Used(x) == \E o \in Orders : tx[o] = x

Candidates(o) == {x \in Transfers : /\ chain[x] = "mined" /\ recent[x]
                                    /\ ~Used(x) /\ Enough(o, x)}

\* The next transfer to try, or none is left: the poll ends.
TryNext(h, S) == \/ /\ S = {}
                    /\ Leave(h)
                 \/ \E x \in S : /\ pc' = [pc EXCEPT ![h] = "tried"]
                                 /\ trial' = [trial EXCEPT ![h] = x]
                                 /\ found' = [found EXCEPT ![h] = S \ {x}]
                                 /\ UNCHANGED <<at, given>>

Scan(h) == /\ pc[h] = "scan"
           /\ TryNext(h, Candidates(at[h]))
           /\ UNCHANGED <<rows, task, world, history>>

ScanFailed(h) == /\ pc[h] = "scan"
                 /\ Leave(h)
                 /\ UNCHANGED <<rows, task, world, history>>

-------------------------------------------------------------------------------
(* attach_tx(): the look-up of the hash and the receipt, then the update.    *)

PaidAnother(o, x) == \E p \in Orders \ {o} : tx[p] = x

\* Mutant: a transaction that is not mined yet will do.
AcceptableUnmined(o, x) == age[o] < 2 /\ ~PaidAnother(o, x) /\ Enough(o, x)
Acceptable(o, x) == /\ age[o] < 2
                    /\ ~PaidAnother(o, x)
                    /\ chain[x] = "mined"
                    /\ Enough(o, x)

Verified(h) == /\ pc[h] \in {"check", "tried"}
               /\ Acceptable(at[h], trial[h])
               /\ Goto(h, "write")
               /\ UNCHANGED <<rows, task, world, history>>

\* Invalid: a 400 to the buyer who sent the hash; a scan tries the next one.
Rejected(h) == /\ pc[h] \in {"check", "tried"}
               /\ ~Acceptable(at[h], trial[h])
               /\ IF pc[h] = "check" THEN Leave(h) ELSE TryNext(h, found[h])
               /\ UNCHANGED <<rows, task, world, history>>

Attachable(o) == status[o] = "awaiting"

\* Mutant: no unique index on the hash.
NoIndex(x) == FALSE
\* The unique index refuses the hash of another order.
Conflicts(x) == Used(x)

Attach(h) == /\ pc[h] = "write"
             /\ Attachable(at[h])
             /\ ~Conflicts(trial[h])
             /\ status' = [status EXCEPT ![at[h]] = "paid"]
             /\ tx' = [tx EXCEPT ![at[h]] = trial[h]]
             /\ Goto(h, "deliver")
             /\ UNCHANGED <<quote, result, task, world, history>>

\* An IntegrityError that nobody catches.
AttachConflict(h) == /\ pc[h] = "write"
                     /\ Attachable(at[h])
                     /\ Conflicts(trial[h])
                     /\ Leave(h)
                     /\ UNCHANGED <<rows, task, world, history>>

\* Paid, delivered or expired meanwhile: the update touches nothing, and the
\* row as it is now decides.
AttachLate(h) == /\ pc[h] = "write"
                 /\ ~Attachable(at[h])
                 /\ IF status[at[h]] = "paid" THEN Goto(h, "deliver") ELSE Leave(h)
                 /\ handed' = [handed EXCEPT ![at[h]] =
                      IF status[at[h]] = "delivered" THEN @ \cup {HandStored(at[h])} ELSE @]
                 /\ UNCHANGED <<rows, task, world, dropped, crashes>>

-------------------------------------------------------------------------------
(* _celo_deliver(): on a row that was read as paid.                          *)

IsRun(h) == at[h] \in Runs

Issue(h) == /\ issued' = [issued EXCEPT ![at[h]] = @ + 1]
            /\ given' = [given EXCEPT ![h] = issued[at[h]] + 1]

Onward(h, step) == /\ pc' = [pc EXCEPT ![h] = step]
                  /\ UNCHANGED <<at, trial, found>>

Answer(h) == /\ pc[h] = "deliver"
             /\ ~IsRun(h)
             /\ Issue(h)
             /\ Onward(h, "store")
             /\ UNCHANGED <<run, rows, world, history>>

\* Mutants: a failed delivery fails the order; it gives the order up.
FailPaid(o) == status' = [status EXCEPT ![o] = "failed"]
GiveUp(o) == status' = [status EXCEPT ![o] = "expired"]
\* Paid but undelivered: the order stays claimable.
KeepPaid(o) == UNCHANGED status

\* tasks.create(): look for the row, then a new token or a new row.
FindRun(h) == /\ pc[h] = "deliver"
              /\ IsRun(h)
              /\ Goto(h, IF run[at[h]] = "none" THEN "newrow" ELSE "rotate")
              /\ UNCHANGED <<rows, task, world, history>>

NewToken(h) == /\ pc[h] = "rotate"
               /\ Issue(h)
               /\ Onward(h, "activate")
               /\ UNCHANGED <<run, rows, world, history>>

NewRun(h) == /\ pc[h] = "newrow"
             /\ run[at[h]] = "none"
             /\ run' = [run EXCEPT ![at[h]] = "awaiting_payment"]
             /\ Issue(h)
             /\ Onward(h, "activate")
             /\ UNCHANGED <<rows, world, history>>

\* The unique index on (payer, nonce): the delivery fails.
RunThere(h) == /\ pc[h] = "newrow"
               /\ run[at[h]] # "none"
               /\ Leave(h)
               /\ UNCHANGED <<rows, task, world, history>>

\* Mutant: the run waits for somebody else to start it.
LeaveWaiting(o) == run' = run
StartRun(o) == run' = [run EXCEPT ![o] = "running"]

Activate(h) == /\ pc[h] = "activate"
               /\ StartRun(at[h])
               /\ Goto(h, "store")
               /\ UNCHANGED <<issued, rows, world, history>>

\* Whatever is raised before the result is stored is caught here: the model is
\* busy, the payload is refused, or a statement of tasks.py fails.
DeliverFailed(h) == /\ pc[h] \in {"deliver", "rotate", "newrow"}
                    /\ KeepPaid(at[h])
                    /\ Leave(h)
                    /\ UNCHANGED <<tx, quote, result, task, world, history>>

\* The same once a token is out: it reaches nobody. The run may have been started.
DeliverDropped(h) == /\ pc[h] = "activate"
                     /\ Cardinality(dropped[at[h]]) + crashes < MaxDropped
                     /\ run' = run \/ StartRun(at[h])
                     /\ dropped' = [dropped EXCEPT ![at[h]] = @ \cup {given[h]}]
                     /\ KeepPaid(at[h])
                     /\ Leave(h)
                     /\ UNCHANGED <<tx, quote, result, issued, world, handed, crashes>>

\* Mutant: a late delivery answers with the result stored first.
HandFirst(h) == IF result[at[h]] # 0 THEN result[at[h]] ELSE given[h]
\* Every delivery answers with what it made itself.
HandOwn(h) == given[h]

\* store_result(), then the answer to the buyer.
Store(h) == /\ pc[h] = "store"
            /\ status' = [status EXCEPT ![at[h]] = "delivered"]
            /\ result' = [result EXCEPT ![at[h]] = given[h]]
            /\ handed' = [handed EXCEPT ![at[h]] = @ \cup {HandOwn(h)}]
            /\ Leave(h)
            /\ UNCHANGED <<tx, quote, task, world, dropped, crashes>>

-------------------------------------------------------------------------------
(* The buyer's wallet, the chain, the clock and the process. *)

Send(x) == /\ chain[x] = "unsent"
           /\ chain' = [chain EXCEPT ![x] = "sent"]
           /\ \E wei \in Amounts : amount' = [amount EXCEPT ![x] = wei]
           /\ UNCHANGED <<recent, age, rows, task, http, history>>

Mine(x) == /\ chain[x] = "sent"
           /\ \E outcome \in {"mined", "reverted"} : chain' = [chain EXCEPT ![x] = outcome]
           /\ UNCHANGED <<amount, recent, age, rows, task, http, history>>

Bury(x) == /\ chain[x] = "mined" /\ recent[x]
           /\ recent' = [recent EXCEPT ![x] = FALSE]
           /\ UNCHANGED <<chain, amount, age, rows, task, http, history>>

\* Once an order is paid its age only refuses hashes nobody needs any more.
Tick(o) == /\ status[o] = "awaiting" /\ age[o] < 2
           /\ age' = [age EXCEPT ![o] = @ + 1]
           /\ UNCHANGED <<chain, amount, recent, rows, task, http, history>>

\* expire_stale(), from the host's loop.
Expire(o) == /\ status[o] = "awaiting" /\ age[o] = 2
             /\ status' = [status EXCEPT ![o] = "expired"]
             /\ UNCHANGED <<tx, quote, result, task, world, http, history>>

\* An exception nobody catches ends one handler.
Abort(h) == /\ pc[h] # "idle"
            /\ crashes < MaxCrashes
            /\ crashes' = crashes + 1
            /\ Leave(h)
            /\ UNCHANGED <<rows, task, world, handed, dropped>>

\* The process dies and restarts: the tables are all that is left.
Crash == /\ crashes < MaxCrashes
         /\ crashes' = crashes + 1
         /\ pc' = [h \in Handlers |-> "idle"]     /\ at' = [h \in Handlers |-> None]
         /\ trial' = [h \in Handlers |-> None]    /\ found' = [h \in Handlers |-> {}]
         /\ given' = [h \in Handlers |-> 0]
         /\ UNCHANGED <<rows, task, world, handed, dropped>>

-------------------------------------------------------------------------------
Request(h, o) == Create(h, o) \/ Poll(h, o) \/ \E x \in Transfers : SubmitTx(h, o, x)
Pay(h)     == Scan(h) \/ ScanFailed(h) \/ Verified(h) \/ Rejected(h)
                \/ Attach(h) \/ AttachConflict(h) \/ AttachLate(h)
Deliver(h) == Answer(h) \/ FindRun(h) \/ NewToken(h) \/ NewRun(h) \/ RunThere(h)
                \/ Activate(h) \/ DeliverFailed(h) \/ DeliverDropped(h) \/ Store(h)
Work(h)    == Insert(h) \/ Pay(h) \/ Deliver(h)

Next == \/ \E h \in Handlers, o \in Orders : Request(h, o)
        \/ \E h \in Handlers : Work(h) \/ Abort(h)
        \/ \E o \in Orders : Reopen(o) \/ Tick(o) \/ Expire(o)
        \/ \E x \in Transfers : Send(x) \/ Mine(x) \/ Bury(x)
        \/ Crash

Spec == Init /\ [][Next]_vars

\* Handlers go on, the buyer's page keeps polling its order, and no step of a
\* delivery that is tried again and again fails every time.
Fairness == /\ \A h \in Handlers : WF_vars(Work(h))
            /\ \A o \in Orders :
                 /\ SF_vars(\E h \in Handlers : Poll(h, o))
                 /\ SF_vars(\E h \in Handlers : at[h] = o /\ (Answer(h) \/ FindRun(h)))
            /\ \A o \in Runs :
                 SF_vars(\E h \in Handlers : at[h] = o /\ (NewToken(h) \/ NewRun(h)))

FairSpec == Spec /\ Fairness

-------------------------------------------------------------------------------
(* Properties. *)

AtRest(o) == \A h \in Handlers : at[h] # o

\* Whatever hashes and scans compete for it, an order counts as paid by a mined
\* transfer worth its own quote, less the tolerance (attach_tx).
PaidIsCovered == \A o \in Orders :
  status[o] \in {"paid", "delivered"} =>
    /\ tx[o] \in Transfers
    /\ chain[tx[o]] = "mined"
    /\ Enough(o, tx[o])

\* A delivered order has its run started, also across a crash between any two
\* statements of the delivery (_celo_deliver: the result is stored last).
DeliveredRunStarted == \A o \in Runs : status[o] = "delivered" => run[o] = "running"

\* Nobody gets a run for an order that was not paid (_celo_deliver).
RunIsPaid == \A o \in Orders : run[o] # "none" => status[o] \in {"paid", "delivered"}

\* Two deliveries may issue two tokens and store the first one last; the token
\* that opens the run was then in the other answer, so the buyer holds it, unless the
\* delivery that issued it failed before its answer.
BuyerHoldsToken == crashes = 0 => \A o \in Runs :
  status[o] = "delivered" /\ AtRest(o) => issued[o] \in handed[o] \cup dropped[o]

\* Requests that count the wallet's open orders at the same time pass the limit
\* together, but by no more than there are other handlers: whoever counts after
\* them sees what they inserted (create: MAX_OPEN_PER_PAYER).
LimitNearlyKept == Cardinality(Open) <= MaxOpen + Cardinality(Handlers) - 1

\* A paid order whose buyer keeps polling is delivered, whatever failed before:
\* "a failure keeps the order 'paid' so a retry can still deliver".
PaidIsDelivered == \A o \in Orders : status[o] = "paid" ~> status[o] = "delivered"

\* The abstract promise.
OrderState(o) == CASE status[o] \in {"none", "awaiting"} -> "open"
                   [] status[o] = "expired" -> "void"
                   [] OTHER -> status[o]

Promise == INSTANCE PaidOrder WITH state <- [o \in Orders |-> OrderState(o)],
                                   payment <- tx
KeepsPromise == Promise!Spec
===============================================================================
