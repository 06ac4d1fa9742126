--------------------------- MODULE AgentRegistration ---------------------------
(***************************************************************************)
(* ERC-8004 registration of agents: celo/agentid.py and the registrar's    *)
(* nonce chain of celo/wallet.py. The autopilot, the create and edit hooks *)
(* and the admin batch call register_agent in threads of their own; the    *)
(* settler sends its payments from the same wallet. Threads are cut at     *)
(* their database statements, RPC calls and locks.                         *)
(*                                                                         *)
(* A transaction is a broadcast of send_and_wait; replacing its fee gives  *)
(* it another version under the same nonce. Its hash is <<tx, version>>.   *)
(* A node may forget a transaction that others still mine, and a call that *)
(* falls back to another gateway may meet a node that never saw it.        *)
(***************************************************************************)
EXTENDS Integers, FiniteSets

CONSTANTS
  Agents,     \* what is registered: rows of table agents, and the platform
  Platform,   \* the platform's own agent, kept in the admin store
  Threads,    \* threads of this process
  Autopilot,  \* the one that runs autopilot_tick; the others serve requests
  None,       \* no hash, no agent
  MaxFails,   \* MAX_CONSECUTIVE_FAILS
  MaxSends,   \* bound on broadcasts
  MaxPays,    \* bound on payments settled from the same wallet
  MaxBumps,   \* bound on the versions of one transaction
  MaxFaults   \* bound on restarts, reverts, failed or lost calls, forgotten txs

Txs    == 1..MaxSends
Hashes == Txs \X (1..MaxBumps)

ASSUME AgentsAssumption ==
  /\ Autopilot \in Threads
  /\ None \notin Agents \cup Threads \cup Hashes
  /\ MaxFails \in Nat \ {0} /\ MaxSends \in Nat /\ MaxPays \in Nat /\ MaxBumps \in Nat \ {0}
  /\ MaxFaults \in Nat

VARIABLES
  \* the agent's row (the platform's records)
  id,        \* [Agents -> Txs or 0]: the mint celo_agent_id comes from
  hash,      \* celo_agent_tx while there is no id
  aged,      \* celo_registered_at is more than PENDING_MAX_AGE_S ago
  deleted,   \* deleted_at
  \* module memory
  inflight, fails, resting,  \* _inflight, _fail_count, _last_fail < RETRY_BACKOFF_S
  lock,      \* holder of wallet._send_lock
  \* threads
  pc, at,
  seen,      \* the hash in the row it read
  late,      \* and whether it had aged
  nonce,     \* the nonce it signed with
  elsewhere, \* that nonce comes from another gateway than the last broadcast
  mine,      \* its broadcast, the hash of it
  \* the chain
  state, of, slot, top, won,  \* per transaction: for whom, nonce, last and mined version
  base,      \* the wallet's nonce: transactions mined so far
  \* observations
  slips,     \* incidents that may cost the agent a second mint
  raced,     \* entries on a row that had moved since it was read
  stray,     \* transactions sent under a nonce that may be taken
  faults

row     == <<id, hash, aged, deleted>>
memory  == <<inflight, fails, resting>>
threads == <<pc, at, seen, late, nonce, elsewhere, mine>>
chain   == <<state, of, slot, top, won, base>>
marks   == <<slips, raced, stray>>
history == <<marks, faults>>
vars    == <<row, memory, lock, threads, chain, history>>

Steps  == {"idle", "enter", "resolve", "bump", "bumping", "bumped", "send", "signed", "await", "record"}
States == {"unsent", "pool", "unknown", "mined", "reverted"}

\* Threads that hold their agent's place in _inflight.
Working(t, a) == at[t] = a /\ pc[t] \notin {"idle", "enter"}

TypeOK ==
  /\ id \in [Agents -> Txs \cup {0}]      /\ hash \in [Agents -> Hashes \cup {None}]
  /\ aged \in [Agents -> BOOLEAN]         /\ deleted \in [Agents -> BOOLEAN]
  /\ inflight \subseteq Agents            /\ fails \in [Agents -> Nat]
  /\ resting \in [Agents -> BOOLEAN]      /\ lock \in Threads \cup {None}
  /\ pc \in [Threads -> Steps]            /\ at \in [Threads -> Agents \cup {None}]
  /\ seen \in [Threads -> Hashes \cup {None}]
  /\ late \in [Threads -> BOOLEAN]       /\ elsewhere \in [Threads -> BOOLEAN]
  /\ nonce \in [Threads -> Nat]           /\ mine \in [Threads -> Hashes \cup {None}]
  /\ state \in [Txs -> States]            /\ of \in [Txs -> Agents \cup {None}]
  /\ slot \in [Txs -> Nat]                /\ top \in [Txs -> 1..MaxBumps]
  /\ won \in [Txs -> 0..MaxBumps]         /\ base \in Nat
  /\ slips \in [Agents -> Nat]            /\ raced \in [Agents -> Nat]
  /\ stray \subseteq Txs                  /\ faults \in 0..MaxFaults
  /\ \A a \in Agents : a \in inflight <=> \E t \in Threads : Working(t, a)

Init ==
  /\ id = [a \in Agents |-> 0]            /\ hash = [a \in Agents |-> None]
  /\ aged = [a \in Agents |-> FALSE]      /\ deleted = [a \in Agents |-> FALSE]
  /\ inflight = {}                        /\ fails = [a \in Agents |-> 0]
  /\ resting = [a \in Agents |-> FALSE]   /\ lock = None
  /\ pc = [t \in Threads |-> "idle"]      /\ at = [t \in Threads |-> None]
  /\ seen = [t \in Threads |-> None]      /\ late = [t \in Threads |-> FALSE]
  /\ nonce = [t \in Threads |-> 0]        /\ elsewhere = [t \in Threads |-> FALSE]
  /\ mine = [t \in Threads |-> None]
  /\ state = [x \in Txs |-> "unsent"]     /\ of = [x \in Txs |-> None]
  /\ slot = [x \in Txs |-> 0]             /\ top = [x \in Txs |-> 1]
  /\ won = [x \in Txs |-> 0]              /\ base = 0
  /\ slips = [a \in Agents |-> 0]         /\ raced = [a \in Agents |-> 0]
  /\ stray = {}                           /\ faults = 0

-------------------------------------------------------------------------------
(* Threads and their agents. *)

Goto(t, step) == pc' = [pc EXCEPT ![t] = step] /\ UNCHANGED <<at, seen, late, nonce, elsewhere, mine>>

\* The row it read matters no longer, the hash h does.
Onward(t, step, h) == /\ pc' = [pc EXCEPT ![t] = step]
                      /\ seen' = [seen EXCEPT ![t] = None]
                      /\ late' = [late EXCEPT ![t] = FALSE]
                      /\ nonce' = [nonce EXCEPT ![t] = 0]
                      /\ elsewhere' = [elsewhere EXCEPT ![t] = FALSE]
                      /\ mine' = [mine EXCEPT ![t] = h]
                      /\ UNCHANGED at

Idle(t) == /\ pc' = [pc EXCEPT ![t] = "idle"]     /\ at' = [at EXCEPT ![t] = None]
           /\ seen' = [seen EXCEPT ![t] = None]   /\ late' = [late EXCEPT ![t] = FALSE]
           /\ nonce' = [nonce EXCEPT ![t] = 0]    /\ mine' = [mine EXCEPT ![t] = None]
           /\ elsewhere' = [elsewhere EXCEPT ![t] = FALSE]

\* Mutant: an early return that keeps the place.
KeepPlace(a) == UNCHANGED inflight
\* The finally clause.
Discard(a) == inflight' = inflight \ {a}

Leave(t) == Idle(t) /\ Discard(at[t]) /\ UNCHANGED <<fails, resting>>

\* The registration failed: count it and back off. The platform keeps no count.
Fail(t) == /\ Idle(t) /\ Discard(at[t])
           /\ IF at[t] \in Agents \ {Platform}
              THEN /\ fails' = [fails EXCEPT ![at[t]] = @ + 1]
                   /\ resting' = [resting EXCEPT ![at[t]] = TRUE]
              ELSE UNCHANGED <<fails, resting>>

Fault   == faults < MaxFaults /\ faults' = faults + 1
Slip(a) == slips' = IF a \in Agents THEN [slips EXCEPT ![a] = @ + 1] ELSE slips

-------------------------------------------------------------------------------
(* register_agent(), register_platform(). *)

\* The row is read before the place in _inflight is taken. The autopilot minds
\* the backoff, the admin batch does not; the platform is the autopilot's alone.
Start(t, a) == /\ pc[t] = "idle"
               /\ t # Autopilot => a # Platform
               /\ t = Autopilot => ~resting[a]
               /\ ~deleted[a] /\ id[a] = 0 /\ fails[a] < MaxFails
               /\ pc' = [pc EXCEPT ![t] = "enter"]
               /\ at' = [at EXCEPT ![t] = a]
               /\ seen' = [seen EXCEPT ![t] = hash[a]]
               /\ late' = [late EXCEPT ![t] = aged[a]]
               /\ UNCHANGED <<row, memory, lock, nonce, elsewhere, mine, chain, history>>

InFlight(t) == /\ pc[t] = "enter" /\ at[t] \in inflight
               /\ Idle(t)
               /\ UNCHANGED <<row, memory, lock, chain, history>>

\* Another thread sent, resent or recorded between the two.
RowMoved(t) == id[at[t]] # 0 \/ hash[at[t]] # seen[t]

Enter(t) == /\ pc[t] = "enter" /\ at[t] \notin inflight
            /\ inflight' = inflight \cup {at[t]}
            /\ Goto(t, IF seen[t] = None THEN "send" ELSE "resolve")
            /\ raced' = [raced EXCEPT ![at[t]] = @ + IF RowMoved(t) THEN 1 ELSE 0]
            /\ UNCHANGED <<row, fails, resting, lock, chain, slips, stray, faults>>

-------------------------------------------------------------------------------
(* _resolve_pending(): what became of the persisted hash. *)

SameVersion(h, v) == v = h[2]
\* In a block, whatever its status.
Landed(h)   == state[h[1]] \in {"mined", "reverted"} /\ SameVersion(h, won[h[1]])
Minted(h)   == state[h[1]] = "mined" /\ SameVersion(h, won[h[1]])
Reverted(h) == state[h[1]] = "reverted" /\ SameVersion(h, won[h[1]])
Pooled(h)   == state[h[1]] = "pool" /\ SameVersion(h, top[h[1]])
\* A gateway that lags does not know a fresh transaction either.
Unknown(t)  == \/ ~Minted(seen[t]) /\ ~Reverted(seen[t]) /\ ~Pooled(seen[t])
               \/ Pooled(seen[t]) /\ ~late[t]
\* Nor does, after any time, another gateway that it never reached.
Overlooked(t) == Fault /\ Slip(at[t]) /\ UNCHANGED <<raced, stray>>

\* Mutants: an unknown hash is given up at once; it is waited for for ever.
GivenUpAtOnce(t) == TRUE
NeverGivenUp(t) == FALSE
\* A hash the node does not know is waited for, then given up.
GivenUp(t) == late[t]

ResolveMinted(t) == /\ pc[t] = "resolve" /\ Minted(seen[t])
                    /\ Onward(t, "record", seen[t])
                    /\ UNCHANGED <<row, memory, lock, chain, history>>

Persist(a, h) == /\ hash' = [hash EXCEPT ![a] = h]
                 /\ aged' = [aged EXCEPT ![a] = FALSE]
                 /\ UNCHANGED <<id, deleted>>
Forget(a) == Persist(a, None)

ResolveReverted(t) == /\ pc[t] = "resolve" /\ Reverted(seen[t])
                      /\ Forget(at[t])
                      /\ Fail(t)
                      /\ UNCHANGED <<lock, chain, history>>

\* Dropped by the node: nothing is in flight, send again now.
ResolveDropped(t) == /\ pc[t] \in {"resolve", "bump"}
                     /\ GivenUp(t)
                     /\ \/ Unknown(t) /\ UNCHANGED history
                        \/ Overlooked(t)
                     /\ Forget(at[t])
                     /\ Onward(t, "send", None)
                     /\ UNCHANGED <<memory, lock, chain>>

ResolveWait(t) == /\ pc[t] = "resolve"
                  /\ Unknown(t) /\ ~GivenUp(t)
                  /\ Leave(t)
                  /\ UNCHANGED <<row, lock, chain, history>>

ResolveStuck(t) == /\ pc[t] = "resolve" /\ Pooled(seen[t]) /\ late[t]
                   /\ Goto(t, "bump")
                   /\ UNCHANGED <<row, memory, lock, chain, history>>

\* No gateway answers.
ResolveFails(t) == /\ pc[t] = "resolve"
                   /\ Fault /\ Fail(t)
                   /\ UNCHANGED <<row, lock, chain, marks>>

-------------------------------------------------------------------------------
(* bump_pending(): the same nonce at a higher price. *)

\* The pool takes x under nonce n; of what it held there it may let anything go.
Rivals(x, n) == {y \in Txs \ {x} : state[y] = "pool" /\ slot[y] = n}
Enters(x, n) == \E gone \in SUBSET Rivals(x, n) :
  state' = [y \in Txs |-> IF y = x THEN "pool" ELSE IF y \in gone THEN "unknown" ELSE state[y]]

\* The transaction and with it the nonce are read outside _send_lock.
BumpLook(t) == /\ pc[t] = "bump" /\ Pooled(seen[t])
               /\ Goto(t, "bumping")
               /\ UNCHANGED <<row, memory, lock, chain, history>>

\* And sent under it, although the pool may have lost the transaction meanwhile and
\* given its nonce to another.
BumpSend(t) == LET x == seen[t][1] IN
  /\ pc[t] = "bumping" /\ lock = None
  /\ state[x] \in {"pool", "unknown"} /\ slot[x] >= base /\ top[x] < MaxBumps
  /\ top' = [top EXCEPT ![x] = @ + 1]
  /\ Enters(x, slot[x])
  /\ stray' = IF state[x] = "pool" THEN stray ELSE stray \cup {x}
  /\ \/ Onward(t, "bumped", <<x, top[x] + 1>>) /\ UNCHANGED <<memory, slips, faults>>
     \/ Fault /\ Slip(at[t]) /\ Leave(t)   \* the reply is lost
  /\ UNCHANGED <<row, lock, of, slot, won, base, raced>>

\* It was mined meanwhile: its own hash is the answer.
BumpLanded(t) == /\ pc[t] = "bump" /\ Landed(seen[t])
                 /\ Persist(at[t], seen[t])
                 /\ Leave(t)
                 /\ UNCHANGED <<lock, chain, history>>

\* The node refuses the price or the nonce, or no gateway answers: wait for the
\* next pass.
BumpRefused(t) == /\ pc[t] \in {"bump", "bumping"}
                  /\ Leave(t)
                  /\ UNCHANGED <<row, lock, chain, history>>

BumpRecorded(t) == /\ pc[t] = "bumped"
                   /\ Persist(at[t], mine[t])
                   /\ Leave(t)
                   /\ UNCHANGED <<lock, chain, history>>

-------------------------------------------------------------------------------
(* send_and_wait(): one nonce chain under _send_lock. *)

Sent(a) == {x \in Txs : of[x] = a /\ state[x] # "unsent"}

\* A handler settles a payment (settle.py).
Pay(t) == /\ pc[t] = "idle" /\ t # Autopilot
          /\ Cardinality(Sent(None)) < MaxPays
          /\ Goto(t, "send")
          /\ UNCHANGED <<row, memory, lock, chain, history>>

InPool(n) == \E x \in Txs : state[x] = "pool" /\ slot[x] = n

\* eth_getTransactionCount(pending), from the node that has the wallet's pool.
NextNonce(n) == /\ n >= base /\ ~InPool(n)
                /\ \A k \in base..(n - 1) : InPool(k)
\* From another gateway: it may lag, know less than that pool, or still know what
\* the pool has forgotten.
NonceElsewhere(n) == \A k \in base..(n - 1) :
                       \E x \in Txs : state[x] \in {"pool", "unknown"} /\ slot[x] = k

\* Mutant: the nonce is read outside the lock.
NoLock == TRUE
LockFree == lock = None

Unfunded(t) == /\ pc[t] = "send"
               /\ Leave(t)
               /\ UNCHANGED <<row, lock, chain, history>>

Sign(t) == /\ pc[t] = "send" /\ LockFree
           /\ lock' = t
           /\ \E n \in 0..MaxSends :
                /\ nonce' = [nonce EXCEPT ![t] = n]
                /\ \/ NextNonce(n) /\ UNCHANGED <<elsewhere, faults>>
                   \/ /\ NonceElsewhere(n) /\ Fault
                      /\ elsewhere' = [elsewhere EXCEPT ![t] = TRUE]
           /\ pc' = [pc EXCEPT ![t] = "signed"]
           /\ UNCHANGED <<row, memory, at, seen, late, mine, chain, marks>>

Post(x, t) == /\ state[x] = "unsent" /\ \A y \in 1..(x - 1) : state[y] # "unsent"
              /\ Enters(x, nonce[t])
              /\ of' = [of EXCEPT ![x] = at[t]]
              /\ slot' = [slot EXCEPT ![x] = nonce[t]]
              /\ stray' = IF elsewhere[t] THEN stray \cup {x} ELSE stray
              /\ UNCHANGED <<top, won, base, raced>>

Broadcast(t) == /\ pc[t] = "signed" /\ nonce[t] >= base
                /\ lock' = None
                /\ \E x \in Txs :
                     /\ Post(x, t)
                     /\ \/ /\ at[t] # None
                           /\ Onward(t, "await", <<x, 1>>)
                           /\ UNCHANGED <<memory, slips, faults>>
                        \/ at[t] = None /\ Leave(t) /\ UNCHANGED <<slips, faults>>
                        \/ Fault /\ Slip(at[t]) /\ Fail(t)   \* the reply is lost
                /\ UNCHANGED row

\* The node refuses the nonce or the price, or no gateway answers.
BroadcastFails(t) == /\ pc[t] = "signed"
                     /\ lock' = None
                     /\ Fail(t)
                     /\ \/ (nonce[t] < base \/ InPool(nonce[t])) /\ UNCHANGED history
                        \/ Fault /\ UNCHANGED marks
                     /\ UNCHANGED <<row, chain>>

Receipt(t) == /\ pc[t] = "await" /\ Minted(mine[t])
              /\ Goto(t, "record")
              /\ UNCHANGED <<row, memory, lock, chain, history>>

ReceiptReverted(t) == /\ pc[t] = "await" /\ Reverted(mine[t])
                      /\ Fail(t)
                      /\ UNCHANGED <<row, lock, chain, history>>

\* No receipt in time, whatever becomes of it: the hash is persisted.
ReceiptTimeout(t) == /\ pc[t] = "await"
                     /\ Persist(at[t], mine[t])
                     /\ Leave(t)
                     /\ UNCHANGED <<lock, chain, history>>

Record(t) == /\ pc[t] = "record"
             /\ id' = [id EXCEPT ![at[t]] = mine[t][1]]
             /\ hash' = [hash EXCEPT ![at[t]] = mine[t]]
             /\ fails' = [fails EXCEPT ![at[t]] = 0]
             /\ resting' = [resting EXCEPT ![at[t]] = FALSE]
             /\ aged' = [aged EXCEPT ![at[t]] = FALSE]
             /\ Idle(t) /\ Discard(at[t])
             /\ UNCHANGED <<deleted, lock, chain, history>>

-------------------------------------------------------------------------------
(* The chain, the clock, the owner, the admin and the process. *)

\* The next nonce is mined, in the version the pool has or, unseen by our node,
\* in another; whatever else used the nonce is void.
Mine(x) == /\ state[x] \in {"pool", "unknown"} /\ slot[x] = base
           /\ base' = base + 1
           /\ \E v \in 1..top[x], end \in {"mined", "reverted"} :
                LET asExpected == state[x] = "pool" /\ v = top[x] IN
                /\ won' = [won EXCEPT ![x] = v]
                /\ state' = [y \in Txs |-> IF y = x THEN end
                                           ELSE IF state[y] = "pool" /\ slot[y] = base THEN "unknown"
                                           ELSE state[y]]
                /\ IF asExpected THEN UNCHANGED slips ELSE Slip(of[x])
                /\ IF asExpected /\ end = "mined" THEN UNCHANGED faults ELSE Fault
           /\ UNCHANGED <<row, memory, lock, threads, of, slot, top, raced, stray>>

\* The node drops a registration from its pool.
Drop(x) == /\ state[x] = "pool" /\ of[x] # None
           /\ Fault
           /\ state' = [state EXCEPT ![x] = "unknown"]
           /\ UNCHANGED <<row, memory, lock, threads, of, slot, top, won, base, marks>>

Age(a) == /\ hash[a] # None /\ id[a] = 0 /\ ~aged[a]
          /\ aged' = [aged EXCEPT ![a] = TRUE]
          /\ UNCHANGED <<id, hash, deleted, memory, lock, threads, chain, history>>

\* RETRY_BACKOFF_S is over.
Cool(a) == /\ resting[a]
           /\ resting' = [resting EXCEPT ![a] = FALSE]
           /\ UNCHANGED <<row, inflight, fails, lock, threads, chain, history>>

Delete(a) == /\ ~deleted[a] /\ a # Platform
             /\ deleted' = [deleted EXCEPT ![a] = TRUE]
             /\ UNCHANGED <<id, hash, aged, memory, lock, threads, chain, history>>

\* reset_fail_counts(), when the admin sees that an agent needs it.
Reset == /\ \E a \in Agents : fails[a] >= MaxFails
         /\ fails' = [a \in Agents |-> 0]
         /\ resting' = [a \in Agents |-> FALSE]
         /\ UNCHANGED <<row, inflight, lock, threads, chain, history>>

\* A mint that no row knows of is lost with its thread.
Unrecorded(t) == \/ pc[t] \in {"await", "bumped"}
                 \/ pc[t] = "record" /\ hash[at[t]] # mine[t]

Crash == /\ Fault
         /\ pc' = [t \in Threads |-> "idle"]    /\ at' = [t \in Threads |-> None]
         /\ seen' = [t \in Threads |-> None]    /\ late' = [t \in Threads |-> FALSE]
         /\ nonce' = [t \in Threads |-> 0]      /\ mine' = [t \in Threads |-> None]
         /\ elsewhere' = [t \in Threads |-> FALSE]
         /\ lock' = None                         /\ inflight' = {}
         /\ fails' = [a \in Agents |-> 0]       /\ resting' = [a \in Agents |-> FALSE]
         /\ slips' = [a \in Agents |-> slips[a] +
              IF \E t \in Threads : at[t] = a /\ Unrecorded(t) THEN 1 ELSE 0]
         /\ UNCHANGED <<row, chain, raced, stray>>

-------------------------------------------------------------------------------
Resolve(t) == ResolveMinted(t) \/ ResolveReverted(t) \/ ResolveDropped(t) \/ ResolveWait(t)
                \/ ResolveStuck(t) \/ ResolveFails(t)
Replace(t) == BumpLook(t) \/ BumpSend(t) \/ BumpLanded(t) \/ BumpRefused(t) \/ BumpRecorded(t)
Send(t)    == Unfunded(t) \/ Sign(t) \/ Broadcast(t) \/ BroadcastFails(t)
Await(t)   == Receipt(t) \/ ReceiptReverted(t) \/ ReceiptTimeout(t) \/ Record(t)
Work(t)    == InFlight(t) \/ Enter(t) \/ Resolve(t) \/ Replace(t) \/ Send(t) \/ Await(t)

Next == \/ \E t \in Threads, a \in Agents : Start(t, a)
        \/ \E t \in Threads : Pay(t) \/ Work(t)
        \/ \E x \in Txs : Mine(x) \/ Drop(x)
        \/ \E a \in Agents : Age(a) \/ Cool(a) \/ Delete(a)
        \/ Reset \/ Crash

Spec == Init /\ [][Next]_vars

\* Threads go on, the chain mines, time passes, and the autopilot comes back to
\* every agent with a funded wallet.
Fairness ==
  /\ \A t \in Threads : WF_vars(Work(t))
  /\ \A t \in Threads, a \in Agents : SF_vars(at[t] = a /\ Sign(t))
  /\ \A a \in Agents : SF_vars(Start(Autopilot, a)) /\ WF_vars(Age(a)) /\ WF_vars(Cool(a))
  /\ \A x \in Txs : WF_vars(state[x] = "pool" /\ Mine(x))

FairSpec == Spec /\ Fairness

-------------------------------------------------------------------------------
(* Properties. *)

Mints(a) == {x \in Sent(a) : state[x] = "mined"}

\* Every mint of an agent beyond the first has an incident of its own: a restart
\* before the hash is written, a lost reply, a transaction that was given up and
\* others mined, or that another gateway overlooked; or a thread that entered on a row
\* that had moved, which the code allows (NeverMintsTwice).
MintsAreExplained == \A a \in Agents : Cardinality(Mints(a)) <= 1 + slips[a] + raced[a]

\* register_agent is "Idempotent": an agent is never minted twice. The row is read
\* before the place in _inflight is taken, so two threads are enough to break it.
NeverMintsTwice == \A a \in Agents : Cardinality(Mints(a)) <= 1

\* No two transactions of the wallet compete for one nonce, unless one was sent under
\* a nonce of another gateway, or by a fee bump after the pool had lost it: those two
\* ways past _send_lock are all there are (send_and_wait, bump_pending).
NonceIsFresh == \A x, y \in Txs :
  state[x] = "pool" /\ state[y] = "pool" /\ slot[x] = slot[y] =>
    x = y \/ x \in stray \/ y \in stray

\* The id in an agent's row comes from a transaction of that agent that was mined,
\* through every version, timeout and resend (register_agent).
RecordedIsMinted == \A a \in Agents :
  id[a] # 0 => of[id[a]] = a /\ state[id[a]] = "mined"

\* A dropped transaction that nobody sends again leaves its nonce open; later ones
\* queue behind it until the wallet's next send.
Gap == ~InPool(base) /\ \E x \in Txs : state[x] = "unknown" /\ slot[x] = base

\* Every live agent is registered in the end, unless it failed too often or the
\* wallet is held up by a gap: no lost reply, timeout or dropped transaction blocks
\* it for ever (autopilot_tick, _resolve_pending).
AgentsRegister == \A a \in Agents :
  <>(id[a] # 0 \/ deleted[a] \/ fails[a] >= MaxFails \/ []Gap)
===============================================================================
