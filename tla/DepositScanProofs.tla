--------------------------- MODULE DepositScanProofs ---------------------------
(***************************************************************************)
(* Theorems about DepositScan, for every set of transactions, every range, *)
(* window and lag: a scan that succeeds is exact, and a sale is credited   *)
(* as a deposit only as its ledger row allows.                             *)
(***************************************************************************)
EXTENDS DepositScan, TLAPS

LEMMA ConstantTypes ==
  /\ MaxRange \in Nat /\ MaxRange > 0 /\ Window \in Nat /\ Match \in Nat /\ Lag \in Nat
  /\ None \notin Int /\ Price.amount \in Nat
<1>1. <<Price>> \in Payloads \cup {<<Price>>} /\ Len(<<Price>>) = 1 /\ <<Price>>[1] = Price
  OBVIOUS
<1>2. 1 \in 1..2 /\ 1 <= Len(<<Price>>)
  BY <1>1
<1>3. <<Price>>[1].amount \in Nat
  BY <1>1, <1>2, ScanAssumption
<1> QED BY <1>1, <1>3, ScanAssumption

\* A block counted back from another, and the smaller of two.
LEMMA NotBelowZero ==
  ASSUME NEW n \in Int
  PROVE  Max({0, n}) \in {0, n} /\ Max({0, n}) >= 0 /\ Max({0, n}) >= n
BY DEF Max
LEMMA SmallerOfTwo ==
  ASSUME NEW m \in Int, NEW n \in Int
  PROVE  Min({m, n}) \in {m, n} /\ Min({m, n}) <= m /\ Min({m, n}) <= n
BY DEF Min
LEMMA SmallestOfOne == ASSUME NEW n \in Int PROVE Min({n}) = n
BY DEF Min

\* One transfer is its own total.
LEMMA TotalOfOne ==
  ASSUME NEW l, Transfer(l).amount \in Int
  PROVE  Total({l}) = Transfer(l).amount
<1> DEFINE amount == Transfer(l).amount
           Sums(f) == f = [s \in SUBSET {l} |->
                             IF s = {} THEN 0
                             ELSE LET x == CHOOSE y \in s : TRUE IN Transfer(x).amount + f[s \ {x}]]
           sum == [s \in SUBSET {l} |-> IF s = {} THEN 0 ELSE amount]
<1>1. SUBSET {l} = {{}, {l}} /\ (CHOOSE y \in {l} : TRUE) = l
  OBVIOUS
<1>2. Sums(sum)
  BY <1>1
<1>3. ASSUME NEW f, Sums(f) PROVE f[{l}] = amount
  <2>1. f[{}] = 0 /\ f[{l}] = amount + f[{l} \ {l}]
    BY <1>1, <1>3
  <2> QED BY <2>1
<1>4. Total({l}) = (CHOOSE f : Sums(f))[{l}]
  BY DEF Total, MapThenSumSet, MapThenFoldSet
<1> QED BY <1>2, <1>3, <1>4

-------------------------------------------------------------------------------
(* The types, and the blocks that sales are mined in.                         *)

Typed ==
  /\ head \in Nat                                /\ height \in [Txs -> Nat \cup {None}]
  /\ logs \in [Txs -> Payloads \cup {<<Price>>, <<>>}]
  /\ status \in [Sales -> NotFailed \cup {"none"}]
  /\ born \in [Sales -> Nat]                     /\ hashed \in [Sales -> BOOLEAN]
  /\ pc \in {"idle", "head", "logs", "rows"}     /\ latest \in Nat /\ frm \in Nat
  /\ credited = [x \in Txs |-> credited[x]]

\* A sale is in a block only with its row in the ledger.
Mined == /\ \A x \in Txs : height[x] # None => height[x] <= head
         /\ \A s \in Sales : height[s] # None => status[s] # "none" /\ logs[s] = <<Price>>

\* The height a scan goes by is one the chain has reached.
LEMMA HeightReached ==
  ASSUME Typed, Height
  PROVE  /\ latest' \in Nat /\ latest' <= head
         /\ frm' = Max({0, latest' - Window}) /\ frm' \in Nat /\ frm' <= latest'
<1>1. PICK h \in Max({0, head - Lag})..head : latest' = h /\ frm' = Max({0, h - Window})
  BY DEF Height
<1>2. Max({0, head - Lag}) \in Nat
  <2>1. head - Lag \in Int
    BY ConstantTypes DEF Typed
  <2> QED BY <2>1, NotBelowZero
<1>3. h \in Nat /\ h <= head
  BY <1>2 DEF Typed
<1>4. h - Window \in Int /\ h - Window <= h
  BY <1>3, ConstantTypes
<1>5. Max({0, h - Window}) \in {0, h - Window} /\ Max({0, h - Window}) >= 0
  BY <1>4, NotBelowZero
<1> QED BY <1>1, <1>3, <1>4, <1>5

\* A chunk ends at the latest where the scan does.
LEMMA LastReached ==
  ASSUME Typed, frm <= latest
  PROVE  Last \in Nat /\ frm <= Last /\ Last <= latest
<1>1. frm + MaxRange - 1 \in Int /\ frm + MaxRange - 1 >= frm
  BY ConstantTypes DEF Typed
<1>2. Last \in {frm + MaxRange - 1, latest} /\ Last <= latest
  BY <1>1, SmallerOfTwo DEF Last, Typed
<1> QED BY <1>1, <1>2 DEF Typed

LEMMA TypedStep ==
  ASSUME Typed, [Next]_vars
  PROVE  Typed'
<1> USE ScanAssumption DEF Typed, chain, ledger, scan
<1>1. CASE Block
  <2>1. head + 1 \in Nat
    OBVIOUS
  <2>2. /\ height' \in [Txs -> Nat \cup {None}]
        /\ logs' \in [Txs -> Payloads \cup {<<Price>>, <<>>}]
    <3>1. CASE UNCHANGED <<height, logs>>
      BY <3>1
    <3>2. CASE ~UNCHANGED <<height, logs>>
      <4>1. PICK x \in Txs, p \in Payloads \cup {<<Price>>} :
              height' = [height EXCEPT ![x] = head'] /\ logs' = [logs EXCEPT ![x] = p]
        BY <1>1, <3>2 DEF Block
      <4>2. head' \in Nat
        BY <1>1, <2>1 DEF Block
      <4> QED BY <4>1, <4>2
    <3> QED BY <3>1, <3>2
  <2> QED BY <1>1, <2>1, <2>2 DEF Block
<1>2. ASSUME NEW s \in Sales, Sell(s) PROVE Typed'
  BY <1>2 DEF Sell, NotFailed
<1>3. ASSUME NEW s \in Sales, Finish(s) PROVE Typed'
  BY <1>3 DEF Finish, Outcomes, NotFailed
<1>4. CASE Height
  BY <1>4, HeightReached DEF Height
<1>5. CASE Fetch
  BY <1>5, LastReached DEF Fetch
<1>6. CASE Credit
  BY <1>6 DEF Credit
<1>7. CASE Begin \/ GatewayFails \/ Collect \/ Unconfirmed \/ ScanEnds
  BY <1>7 DEF Begin, GatewayFails, Collect, Unconfirmed, ScanEnds, Rest
<1>8. CASE UNCHANGED vars
  BY <1>8 DEF vars
<1> QED BY <1>1, <1>2, <1>3, <1>4, <1>5, <1>6, <1>7, <1>8 DEF Next

LEMMA MinedStep ==
  ASSUME Typed, Mined, [Next]_vars
  PROVE  Mined'
<1> USE ScanAssumption DEF Typed, Mined, chain, ledger
<1>1. CASE Block
  <2>1. CASE UNCHANGED <<height, logs>>
    BY <1>1, <2>1 DEF Block
  <2>2. ASSUME NEW x \in Txs, NEW p, x \in Sales => status[x] # "none" /\ p = <<Price>>,
               height' = [height EXCEPT ![x] = head'], logs' = [logs EXCEPT ![x] = p]
        PROVE  Mined'
    BY <1>1, <2>2 DEF Block, Txs
  <2> QED BY <1>1, <2>1, <2>2 DEF Block
<1>2. ASSUME NEW s \in Sales, Sell(s) PROVE Mined'
  BY <1>2 DEF Sell
<1>3. ASSUME NEW s \in Sales, Finish(s) PROVE Mined'
  BY <1>3 DEF Finish, Outcomes
<1>4. CASE UNCHANGED <<chain, ledger>>
  BY <1>4
<1>5. CASE Begin \/ Height \/ Fetch \/ GatewayFails \/ Collect \/ Credit \/ Unconfirmed \/ ScanEnds
  BY <1>4, <1>5 DEF Begin, Height, Fetch, GatewayFails, Collect, Credit, Unconfirmed, ScanEnds
<1> QED BY <1>1, <1>2, <1>3, <1>4, <1>5 DEF Next, vars

-------------------------------------------------------------------------------
(* What a scan has read.                                                      *)

Oldest == Max({0, latest - Window})

\* The logs of the blocks up to where the next chunk starts.
Fetched == {l \in Txs \X (1..2) \X {1} :
              height[l[1]] \in Oldest..(frm - 1) /\ l[2] <= Len(logs[l[1]])}

\* Every chunk is read whole and once, in blocks that no longer change.
Reading == pc = "logs" => /\ latest <= head
                          /\ frm \in Oldest..(latest + 1)
                          /\ Distinct(got) = Fetched

\* The window starts in the chain.
LEMMA OldestBlock ==
  ASSUME Typed
  PROVE  Oldest \in Nat /\ Oldest \in {0, latest - Window} /\ Oldest >= latest - Window
<1>1. latest - Window \in Int
  BY ConstantTypes DEF Typed
<1>2. /\ Oldest \in {0, latest - Window} /\ Oldest >= 0 /\ Oldest >= latest - Window
  BY <1>1, NotBelowZero DEF Oldest
<1> QED BY <1>1, <1>2

\* The next chunk.
LEMMA FetchReads ==
  ASSUME Typed, Reading, Fetch
  PROVE  Reading'
<1> DEFINE logged == {l \in Txs \X (1..2) : height[l[1]] \in frm..Last /\ l[2] <= Len(logs[l[1]])}
<1>1. /\ pc = "logs" /\ frm <= latest /\ frm' = Last + 1
      /\ UNCHANGED <<latest, head, height, logs>>
  BY DEF Fetch, chain
<1>2. PICK again \in {{}, logged} :
        got' = got \cup {<<l[1], l[2], 1>> : l \in logged} \cup {<<l[1], l[2], 2>> : l \in again}
  BY DEF Fetch
<1>3. Last \in Nat /\ frm <= Last /\ Last <= latest /\ Oldest \in Nat /\ Oldest <= frm
  BY <1>1, LastReached, OldestBlock DEF Typed, Reading
<1>4. Distinct(got') = Distinct(got) \cup {<<l[1], l[2], 1>> : l \in logged}
  BY <1>2 DEF Distinct
<1>5. Fetched' = Fetched \cup {<<l[1], l[2], 1>> : l \in logged}
  <2>1. \A x \in Txs : height[x] \in Oldest..Last <=> height[x] \in Oldest..(frm - 1) \/ height[x] \in frm..Last
    BY <1>3, ConstantTypes DEF Typed
  <2>2. Oldest' = Oldest /\ frm' - 1 = Last
    BY <1>1, <1>3 DEF Oldest
  <2>3. Fetched' = {l \in Txs \X (1..2) \X {1} : height[l[1]] \in Oldest..Last /\ l[2] <= Len(logs[l[1]])}
    BY <1>1, <2>2 DEF Fetched
  <2>4. ASSUME NEW l \in Txs \X (1..2) \X {1}, height[l[1]] \in frm..Last, l[2] <= Len(logs[l[1]])
        PROVE  l \in {<<k[1], k[2], 1>> : k \in logged}
    <3>1. <<l[1], l[2]>> \in logged /\ l = <<l[1], l[2], 1>>
      BY <2>4
    <3> QED BY <3>1
  <2>5. ASSUME NEW k \in logged
        PROVE  /\ <<k[1], k[2], 1>> \in Txs \X (1..2) \X {1}
               /\ height[k[1]] \in frm..Last /\ k[2] <= Len(logs[k[1]])
    BY <2>5
  <2> HIDE DEF logged
  <2> QED BY <2>1, <2>3, <2>4, <2>5 DEF Fetched
<1>6. Distinct(got)' = Fetched'
  BY <1>1, <1>4, <1>5 DEF Reading, Distinct
<1> QED BY <1>1, <1>3, <1>6, ScanAssumption DEF Reading, Oldest, Typed

\* A block mined meanwhile is beyond what the scan reads.
LEMMA BlockUnread ==
  ASSUME Typed, Reading, Block
  PROVE  Reading'
<1>1. head' = head + 1 /\ UNCHANGED <<pc, latest, frm, got>>
  BY DEF Block, scan
<1>2. ASSUME pc = "logs" PROVE Fetched' = Fetched
  <2>1. CASE UNCHANGED <<height, logs>>
    BY <1>1, <2>1 DEF Fetched, Oldest
  <2>2. ASSUME NEW x \in Txs, NEW p, height[x] = None,
               height' = [height EXCEPT ![x] = head'], logs' = [logs EXCEPT ![x] = p]
        PROVE  Fetched' = Fetched
    <3>1. frm - 1 < head + 1 /\ Oldest \in Nat /\ frm \in Nat
      BY <1>2, OldestBlock DEF Reading, Typed
    <3>2. height[x] \notin Oldest..(frm - 1) /\ height'[x] \notin Oldest..(frm - 1)
      BY <1>1, <2>2, <3>1, ConstantTypes DEF Typed
    <3>3. \A y \in Txs \ {x} : height'[y] = height[y] /\ logs'[y] = logs[y]
      BY <2>2 DEF Typed
    <3> HIDE DEF Oldest
    <3>4. Oldest' = Oldest
      BY <1>1 DEF Oldest
    <3> QED BY <1>1, <3>2, <3>3, <3>4 DEF Fetched
  <2> QED BY <2>1, <2>2 DEF Block
<1> QED BY <1>1, <1>2 DEF Reading, Distinct, Oldest, Typed

\* Every step keeps what a scan has read.
LEMMA ReadingStep ==
  ASSUME Typed, Reading, [Next]_vars
  PROVE  Reading'
<1>1. CASE Block
  BY <1>1, BlockUnread
<1>2. CASE UNCHANGED <<chain, pc, latest, frm, got>>
  BY <1>2 DEF Reading, Oldest, Fetched, Distinct, chain
<1>3. CASE \E s \in Sales : Sell(s) \/ Finish(s)
  BY <1>2, <1>3 DEF Sell, Finish, scan
<1>4. CASE Height
  <2>1. got' = {} /\ UNCHANGED <<head, height, logs>>
    BY <1>4 DEF Height, chain
  <2>2. Fetched' = {} /\ Distinct(got)' = {}
    BY <1>4, <2>1, HeightReached, ScanAssumption DEF Fetched, Distinct, Oldest, Typed
  <2> QED BY <1>4, <2>1, <2>2, HeightReached DEF Reading, Oldest, Typed
<1>5. CASE Fetch
  BY <1>5, FetchReads
<1>6. CASE Begin \/ GatewayFails \/ Collect \/ ScanEnds
  BY <1>6 DEF Begin, GatewayFails, Collect, ScanEnds, Rest, Reading
<1>7. CASE Credit \/ Unconfirmed
  BY <1>2, <1>7 DEF Credit, Unconfirmed
<1>8. CASE UNCHANGED vars
  BY <1>2, <1>8 DEF vars, scan
<1> QED BY <1>1, <1>3, <1>4, <1>5, <1>6, <1>7, <1>8 DEF Next

\* What is collected is what is in the window.
LEMMA CollectExact ==
  ASSUME Typed, Reading, Collect
  PROVE  rows' = WindowRows
<1> DEFINE accepted == {l \in Distinct(got) : Accepted(l)}
           Of(x, token) == {l \in accepted : l[1] = x /\ Transfer(l).token = token}
           In(x, token) == {l \in {x} \X (1..2) \X {1} :
                              l[2] <= Len(logs[x]) /\ Accepted(l) /\ Transfer(l).token = token}
           Seen(x) == height[x] \in (latest - Window)..latest
<1>1. pc = "logs" /\ frm = latest + 1 /\ Oldest \in {0, latest - Window} /\ Oldest >= 0 /\ Oldest >= latest - Window
  BY OldestBlock DEF Collect, Reading, Typed
<1>2. \A x \in Txs : Seen(x) <=> height[x] \in Oldest..(frm - 1)
  BY <1>1, ScanAssumption DEF Typed
<1>3. Distinct(got) = Fetched
  BY <1>1 DEF Reading
<1>4. ASSUME NEW x \in Txs, NEW token, Seen(x) PROVE Of(x, token) = In(x, token)
  BY <1>2, <1>3, <1>4 DEF Fetched
<1>5. ASSUME NEW x \in Txs, NEW token, ~Seen(x) PROVE Of(x, token) = {}
  BY <1>2, <1>3, <1>5 DEF Fetched
<1>6. rows' = {RowOf(p[1], p[2], Of(p[1], p[2])) : p \in {q \in Txs \X Tokens : Of(q[1], q[2]) # {}}}
  BY DEF Collect
<1>7. WindowRows = {RowOf(p[1], p[2], In(p[1], p[2])) :
                      p \in {q \in Txs \X Tokens : Seen(q[1]) /\ In(q[1], q[2]) # {}}}
  BY DEF WindowRows
<1> HIDE DEF Of, In, Seen
<1> DEFINE found == {q \in Txs \X Tokens : Of(q[1], q[2]) # {}}
<1>8. found = {q \in Txs \X Tokens : Seen(q[1]) /\ In(q[1], q[2]) # {}}
  BY <1>4, <1>5
<1>9. \A p \in found : Of(p[1], p[2]) = In(p[1], p[2])
  BY <1>4, <1>5
<1>10. /\ rows' = {RowOf(p[1], p[2], Of(p[1], p[2])) : p \in found}
       /\ WindowRows = {RowOf(p[1], p[2], In(p[1], p[2])) : p \in found}
  BY <1>6, <1>7, <1>8
<1> HIDE DEF found
<1> QED BY <1>9, <1>10

-------------------------------------------------------------------------------
(* Sales among the rows.                                                      *)

\* A row of a sale shows the sale as its ledger row does.
SalesRead == \A r \in rows : r.tx \in Sales =>
  /\ height[r.tx] # None
  /\ r.sender = Price.sender /\ r.token = Price.token /\ r.amount = Price.amount

LEMMA CollectSales ==
  ASSUME Typed, Mined, Reading, Collect
  PROVE  SalesRead'
<1> DEFINE accepted == {l \in Distinct(got) : Accepted(l)}
           Of(x, token) == {l \in accepted : l[1] = x /\ Transfer(l).token = token}
<1>1. rows' = {RowOf(p[1], p[2], Of(p[1], p[2])) : p \in {q \in Txs \X Tokens : Of(q[1], q[2]) # {}}}
  BY DEF Collect
<1>2. UNCHANGED height /\ Distinct(got) = Fetched
  BY DEF Collect, Reading, chain
<1>3. ASSUME NEW s \in Sales, NEW token \in Tokens, Of(s, token) # {}
      PROVE  LET r == RowOf(s, token, Of(s, token)) IN
             height[s] # None /\ r.sender = Price.sender /\ token = Price.token /\ r.amount = Price.amount
  <2>1. Of(s, token) \subseteq Fetched
    BY <1>2
  <2>2. height[s] # None /\ logs[s] = <<Price>>
    <3>1. PICK l \in Of(s, token) : l \in Fetched /\ l[1] = s
      BY <1>3, <2>1
    <3>2. height[s] \in Oldest..(frm - 1)
      BY <3>1 DEF Fetched
    <3> QED BY <3>2, OldestBlock, ConstantTypes DEF Mined, Typed
  <2>3. Of(s, token) = {<<s, 1, 1>>}
    <3>1. \A l \in Of(s, token) : l \in Txs \X (1..2) \X {1} /\ l[1] = s /\ l[2] <= 1
      <4>1. ASSUME NEW l \in Of(s, token) PROVE l \in Txs \X (1..2) \X {1} /\ l[1] = s /\ l[2] <= 1
        <5>1. l \in Fetched /\ l[1] = s
          BY <2>1
        <5>2. Len(logs[l[1]]) = 1
          BY <2>2, <5>1
        <5> QED BY <5>1, <5>2 DEF Fetched
      <4> QED BY <4>1
    <3>2. \A l \in Of(s, token) : l = <<s, 1, 1>>
      BY <3>1
    <3> HIDE DEF Of
    <3> QED BY <1>3, <3>2
  <2>4. Transfer(<<s, 1, 1>>) = Price
    BY <2>2 DEF Transfer
  <2>5. token = Price.token
    BY <2>3, <2>4
  <2>6. Price.amount \in Nat
    BY ConstantTypes
  <2>7. Total(Of(s, token)) = Price.amount
    BY <2>3, <2>4, <2>6, TotalOfOne
  <2>8. {l[2] : l \in Of(s, token)} = {1}
    <3> HIDE DEF Of
    <3> QED BY <2>3
  <2> HIDE DEF Of
  <2> QED BY <2>2, <2>5, <2>7, <2>8, SmallestOfOne DEF RowOf
<1> HIDE DEF Of
<1>4. \A p \in Txs \X Tokens : RowOf(p[1], p[2], Of(p[1], p[2])).tx = p[1] /\ RowOf(p[1], p[2], Of(p[1], p[2])).token = p[2]
  BY DEF RowOf
<1> QED BY <1>1, <1>2, <1>3, <1>4 DEF SalesRead

\* Every step keeps the rows of sales.
LEMMA SalesReadStep ==
  ASSUME Typed, Mined, Reading, SalesRead, [Next]_vars
  PROVE  SalesRead'
<1>1. CASE Block
  <2>1. \A x \in Txs : height[x] # None => height'[x] = height[x]
    BY <1>1 DEF Block, Typed
  <2> QED BY <1>1, <2>1 DEF Block, SalesRead, scan, Txs
<1>2. CASE rows' \subseteq rows /\ UNCHANGED height
  BY <1>2 DEF SalesRead
<1>3. CASE \E s \in Sales : Sell(s) \/ Finish(s)
  BY <1>2, <1>3 DEF Sell, Finish, scan, chain
<1>4. CASE Collect
  BY <1>4, CollectSales
<1>5. CASE Begin \/ Height \/ Fetch \/ GatewayFails \/ Credit \/ Unconfirmed \/ ScanEnds
  BY <1>2, <1>5 DEF Begin, Height, Fetch, GatewayFails, Credit, Unconfirmed, ScanEnds, chain
<1>6. CASE UNCHANGED vars
  BY <1>2, <1>6 DEF vars, scan, chain
<1> QED BY <1>1, <1>3, <1>4, <1>5, <1>6 DEF Next

-------------------------------------------------------------------------------
\* The inductive invariant: types, sales in blocks only with a row, chunks read whole
\* and once, and rows of sales that match them.
Invariant == Typed /\ Mined /\ Reading /\ SalesRead

LEMMA DepositsInvariant == Spec => []Invariant
<1>1. Init => Invariant
  <2>1. ASSUME Init PROVE Typed
    BY <2>1 DEF Init, Typed
  <2>2. ASSUME Init PROVE Mined
    BY <2>2 DEF Init, Mined, Txs
  <2> QED BY <2>1, <2>2 DEF Init, Invariant, Reading, SalesRead
<1>2. Invariant /\ [Next]_vars => Invariant'
  BY TypedStep, MinedStep, ReadingStep, SalesReadStep DEF Invariant
<1> QED BY <1>1, <1>2, PTL DEF Spec

\* A scan that succeeds returns what is in its window, whole and once, for every
\* chunk size, window, gateway that gives up or repeats itself, and growing chain.
THEOREM ScansExact == Spec => ScanIsExact
<1>1. ASSUME Invariant, [Next]_vars, pc' = "rows", pc # "rows" PROVE rows' = WindowRows
  <2>1. Collect
    BY <1>1 DEF Next, vars, scan, Block, Sell, Finish, Begin, Height, Fetch, GatewayFails, Credit, Unconfirmed, ScanEnds, Rest
  <2> QED BY <1>1, <2>1, CollectExact DEF Invariant
<1>2. Invariant /\ [Next]_vars => [pc' = "rows" /\ pc # "rows" => rows' = WindowRows]_vars
  BY <1>1
<1> QED BY DepositsInvariant, <1>2, PTL DEF Spec, ScanIsExact

\* A sale is credited as a top-up only when the ledger has no hash of it and its row
\* is old, whatever the settlement and the scan went through.
THEOREM SalesNotDeposits == Spec => SalesAreNotDeposits
<1>1. ASSUME Invariant, [Next]_vars, NEW s \in Sales, credited'[s] # credited[s]
      PROVE  ~hashed[s] /\ head - born[s] >= Match
  <2>1. Credit
    BY <1>1 DEF Next, vars, Block, Sell, Finish, Begin, Height, Fetch, GatewayFails, Collect, Unconfirmed, ScanEnds
  <2>2. PICK r \in rows :
          credited' = IF ~SettlementLike(r) /\ credited[r.tx] = None
                      THEN [credited EXCEPT ![r.tx] = r] ELSE credited
    BY <2>1 DEF Credit
  <2>3. r.tx = s /\ ~SettlementLike(r)
    BY <1>1, <2>2 DEF Invariant, Typed, Txs
  <2>4. /\ status[s] \in NotFailed
        /\ r.sender = Price.sender /\ r.token = Price.token /\ r.amount = Price.amount
    BY <1>1, <2>3 DEF Invariant, Typed, Mined, SalesRead
  <2> QED BY <1>1, <2>3, <2>4, ScanAssumption DEF SettlementLike, SettlementTx, Invariant, Typed
<1>2. Invariant /\ [Next]_vars =>
        [\A s \in Sales : credited'[s] # credited[s] => ~hashed[s] /\ head - born[s] >= Match]_vars
  BY <1>1
<1> QED BY DepositsInvariant, <1>2, PTL DEF Spec, SalesAreNotDeposits

===============================================================================
