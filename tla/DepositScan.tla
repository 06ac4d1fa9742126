------------------------------ MODULE DepositScan ------------------------------
(***************************************************************************)
(* Stablecoin deposits (celo/chain.py) beside the sales of the x402 ledger *)
(* (x402.is_settlement_like): a sale is a transfer to the same treasury,   *)
(* and must not be credited to its payer as a top-up. One scan asks for    *)
(* the chain's height and then for its logs, chunk by chunk, of the first  *)
(* gateway that answers throughout; the service that credits the rows is   *)
(* not in this repository.                                                 *)
(*                                                                         *)
(* Blocks stand for seconds. A log is known by its transaction and index.  *)
(***************************************************************************)
EXTENDS Integers, Sequences, FiniteSetsExt

CONSTANTS
  Deposits,  \* transactions of users
  Sales,     \* settlements of x402 payments
  Payloads,  \* what a user's transaction may log: sequences of transfers
  Price,     \* the transfer of a sale
  Treasury,  \* the sender of a transfer from the treasury to itself
  Tokens,    \* the registered stablecoins
  None,
  MaxRange,  \* blocks a gateway answers for at once
  Window,    \* _scan_window()
  Match,     \* SETTLEMENT_MATCH_WINDOW_S
  Lag,       \* bound on how far a gateway is behind
  MaxHead    \* bound on the chain's height

Txs      == Deposits \cup Sales
Gateways == 1..2  \* SCAN_RPCS

ASSUME ScanAssumption ==
  /\ Deposits \cap Sales = {} /\ None \notin Int
  /\ MaxRange \in Nat \ {0} /\ {Window, Match, Lag, MaxHead} \subseteq Nat
  /\ \A p \in Payloads \cup {<<Price>>}, i \in 1..2 : i <= Len(p) => p[i].amount \in Nat

VARIABLES
  head, height, logs,           \* the chain: its height, a transaction's block and logs
  status, born, hashed,         \* the ledger's row of a sale: status, ts, whether tx is its hash
  pc, gateway, latest, frm, got, rows,  \* the scan; got: <<transaction, index, copy>>
  credited                      \* the row a transaction was credited for (points_tx)

chain  == <<head, height, logs>>
ledger == <<status, born, hashed>>
scan   == <<pc, gateway, latest, frm, got, rows>>
vars   == <<chain, ledger, scan, credited>>

Init ==
  /\ head = 0
  /\ height = [x \in Txs |-> None]     /\ logs = [x \in Txs |-> <<>>]
  /\ status = [s \in Sales |-> "none"] /\ born = [s \in Sales |-> 0]
  /\ hashed = [s \in Sales |-> FALSE]
  /\ pc = "idle" /\ gateway = 1 /\ latest = 0 /\ frm = 0 /\ got = {} /\ rows = {}
  /\ credited = [x \in Txs |-> None]

-------------------------------------------------------------------------------
(* The chain and the sales. *)

\* A block with at most one transaction to the treasury. A sale's is broadcast
\* once its row is written; it may be mined long after.
Block == /\ head < MaxHead
         /\ head' = head + 1
         /\ \/ UNCHANGED <<height, logs>>
            \/ \E x \in Txs, p \in Payloads \cup {<<Price>>} :
                 /\ height[x] = None
                 /\ x \in Sales => status[x] # "none" /\ p = <<Price>>
                 /\ x \in Deposits => p \in Payloads
                 /\ height' = [height EXCEPT ![x] = head']
                 /\ logs' = [logs EXCEPT ![x] = p]
         /\ UNCHANGED <<ledger, scan, credited>>

\* begin(): the row is pending before anything is settled.
Sell(s) == /\ status[s] = "none"
           /\ status' = [status EXCEPT ![s] = "pending"]
           /\ born' = [born EXCEPT ![s] = head]
           /\ UNCHANGED <<hashed, chain, scan, credited>>

\* What a settlement or a later reconciliation leaves in the row; a reply that
\* was lost leaves no hash.
Outcomes(s) ==
  CASE status[s] = "pending"        -> {"settled", "settle_pending", "settle_failed"}
    [] status[s] = "settle_pending" -> {"settled", "settle_failed"}
    [] OTHER                        -> {}

Finish(s) == /\ \E end \in Outcomes(s), h \in BOOLEAN :
                  /\ end = "settled" => height[s] # None /\ h
                  /\ status' = [status EXCEPT ![s] = end]
                  /\ hashed' = [hashed EXCEPT ![s] = @ \/ h]
             /\ UNCHANGED <<born, chain, scan, credited>>

-------------------------------------------------------------------------------
(* fetch_incoming(). *)

Rest == pc' = "idle" /\ gateway' = 1 /\ latest' = 0 /\ frm' = 0 /\ got' = {}

Begin == /\ pc = "idle"
         /\ pc' = "head" /\ gateway' = 1
         /\ UNCHANGED <<latest, frm, got, rows, chain, ledger, credited>>

\* eth_blockNumber; every gateway starts over.
Height == /\ pc = "head"
          /\ \E h \in Max({0, head - Lag})..head :
               latest' = h /\ frm' = Max({0, h - Window})
          /\ got' = {}
          /\ pc' = "logs"
          /\ UNCHANGED <<gateway, rows, chain, ledger, credited>>

Last == Min({frm + MaxRange - 1, latest})

\* eth_getLogs of one chunk; the gateway may send a log twice.
Fetch == LET logged == {l \in Txs \X (1..2) :
                          height[l[1]] \in frm..Last /\ l[2] <= Len(logs[l[1]])}
         IN /\ pc = "logs" /\ frm <= latest
            /\ \E again \in {{}, logged} :
                 got' = got \cup {<<l[1], l[2], 1>> : l \in logged}
                            \cup {<<l[1], l[2], 2>> : l \in again}
            /\ frm' = Last + 1
            /\ UNCHANGED <<pc, gateway, latest, rows, chain, ledger, credited>>

\* The gateway does not answer: the next one, or the scan fails.
GatewayFails == /\ pc \in {"head", "logs"}
                /\ IF gateway + 1 \in Gateways
                   THEN pc' = "head" /\ gateway' = gateway + 1 /\ UNCHANGED <<latest, frm, got>>
                   ELSE Rest
                /\ UNCHANGED <<rows, chain, ledger, credited>>

Transfer(l) == logs[l[1]][l[2]]
Accepted(l) == /\ Transfer(l).token \in Tokens
               /\ Transfer(l).sender # Treasury
               /\ Transfer(l).amount > 0

\* Mutant: the copies of a log are counted.
EveryCopy(sent) == sent
\* seen_logs: one entry per (transaction, logIndex).
Distinct(sent) == {<<l[1], l[2], 1>> : l \in sent}

Total(ls) == LET Amount(l) == Transfer(l).amount IN MapThenSumSet(Amount, ls)

\* One row per transaction and token, with the tokens' sum under the first sender.
RowOf(x, token, ls) ==
  [tx |-> x, token |-> token, amount |-> Total(ls),
   sender |-> logs[x][Min({l[2] : l \in ls})].sender]

Collect == LET accepted == {l \in Distinct(got) : Accepted(l)}
               Of(x, token) == {l \in accepted : l[1] = x /\ Transfer(l).token = token}
           IN /\ pc = "logs" /\ frm > latest
              /\ rows' = {RowOf(p[1], p[2], Of(p[1], p[2])) :
                            p \in {q \in Txs \X Tokens : Of(q[1], q[2]) # {}}}
              /\ pc' = "rows"
              /\ UNCHANGED <<gateway, latest, frm, got, chain, ledger, credited>>

-------------------------------------------------------------------------------
(* The rows, one by one. *)

\* is_settlement_tx()
SettlementTx(x) == \E s \in Sales : s = x /\ hashed[s]

\* Mutant: only rows that are through count.
ThroughOnly == {"settled", "settle_pending", "settle_failed"}
NotFailed == {"pending", "settled", "settle_pending", "settle_failed"}

\* is_settlement_like(): a recent sale of this payer, token and amount.
SettlementLike(r) ==
  \/ SettlementTx(r.tx)
  \/ \E s \in Sales : /\ status[s] \in NotFailed /\ head - born[s] < Match
                      /\ r.sender = Price.sender /\ r.token = Price.token /\ r.amount = Price.amount

\* The service credits a transaction once. tx_succeeded() is FALSE when no
\* gateway answers: the row is left to the next scan.
Credit == /\ pc = "rows"
          /\ \E r \in rows :
               /\ credited' = IF ~SettlementLike(r) /\ credited[r.tx] = None
                              THEN [credited EXCEPT ![r.tx] = r] ELSE credited
               /\ rows' = rows \ {r}
               /\ UNCHANGED <<pc, gateway, latest, frm, got>>
          /\ UNCHANGED <<chain, ledger>>

Unconfirmed == /\ pc = "rows"
               /\ \E r \in rows : rows' = rows \ {r}
               /\ UNCHANGED <<pc, gateway, latest, frm, got, chain, ledger, credited>>

ScanEnds == /\ pc = "rows" /\ rows = {}
            /\ Rest
            /\ UNCHANGED <<rows, chain, ledger, credited>>

-------------------------------------------------------------------------------
Next == \/ Block
        \/ \E s \in Sales : Sell(s) \/ Finish(s)
        \/ Begin \/ Height \/ Fetch \/ GatewayFails \/ Collect
        \/ Credit \/ Unconfirmed \/ ScanEnds

Spec == Init /\ [][Next]_vars

-------------------------------------------------------------------------------
(* Properties. *)

\* What users and sales sent in the window's blocks, straight from the chain.
WindowRows ==
  LET In(x, token) == {l \in {x} \X (1..2) \X {1} :
                         l[2] <= Len(logs[x]) /\ Accepted(l) /\ Transfer(l).token = token}
  IN {RowOf(p[1], p[2], In(p[1], p[2])) :
        p \in {q \in Txs \X Tokens : /\ height[q[1]] \in (latest - Window)..latest
                                    /\ In(q[1], q[2]) # {}}}

\* A scan that succeeds returns every transfer of its window, whole and once:
\* across the borders of the chunks, a gateway that gives up half way, one that
\* repeats itself, and a chain that grows meanwhile (fetch_incoming).
ScanIsExact == [][pc' = "rows" /\ pc # "rows" => rows' = WindowRows]_vars

\* A sale is credited to its payer as a top-up at most when the reply of its
\* settlement was lost and the ledger has not learned its hash in Match seconds,
\* whatever the sale's row and the scan's rows went through (is_settlement_like:
\* "the deposit scanner must never credit it as a Gas top-up").
SalesAreNotDeposits == [][\A s \in Sales :
  credited'[s] # credited[s] => ~hashed[s] /\ head - born[s] >= Match]_vars

===============================================================================
