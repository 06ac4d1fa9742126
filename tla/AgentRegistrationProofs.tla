------------------------ MODULE AgentRegistrationProofs ------------------------
(***************************************************************************)
(* Theorems about AgentRegistration, for every number of agents, threads,  *)
(* broadcasts and faults: types and the in-flight set, what shares a       *)
(* nonce, that recorded ids were minted, and that mints are explained by   *)
(* incidents and stale entries.                                            *)
(***************************************************************************)
EXTENDS AgentRegistration, FiniteSetTheorems, TLAPS

\* The types, without the in-flight set.
TypedRow == /\ id \in [Agents -> Txs \cup {0}]    /\ hash \in [Agents -> Hashes \cup {None}]
            /\ aged \in [Agents -> BOOLEAN]       /\ deleted \in [Agents -> BOOLEAN]
TypedMemory == /\ inflight \subseteq Agents       /\ fails \in [Agents -> Nat]
               /\ resting \in [Agents -> BOOLEAN]
TypedThreads == /\ pc \in [Threads -> Steps]      /\ at \in [Threads -> Agents \cup {None}]
                /\ seen \in [Threads -> Hashes \cup {None}]
                /\ late \in [Threads -> BOOLEAN]  /\ nonce \in [Threads -> Nat]
                /\ elsewhere \in [Threads -> BOOLEAN]
                /\ mine \in [Threads -> Hashes \cup {None}]
TypedChain == /\ state \in [Txs -> States]        /\ of \in [Txs -> Agents \cup {None}]
              /\ slot \in [Txs -> Nat]            /\ top \in [Txs -> 1..MaxBumps]
              /\ won \in [Txs -> 0..MaxBumps]     /\ base \in Nat
TypedHistory == /\ slips \in [Agents -> Nat]     /\ raced \in [Agents -> Nat]
                /\ stray \subseteq Txs           /\ faults \in 0..MaxFaults
TypedLock == lock \in Threads \cup {None}

\* What a thread holds at each of its steps.
Roles == \A t \in Threads :
  /\ pc[t] = "idle" => at[t] = None
  /\ pc[t] \notin {"idle", "send", "signed"} => at[t] \in Agents
  /\ pc[t] \in {"resolve", "bump", "bumping"} => seen[t] \in Hashes
  /\ pc[t] \in {"bumped", "await", "record"} => mine[t] \in Hashes

Typed == TypedRow /\ TypedMemory /\ TypedThreads /\ TypedChain /\ TypedHistory /\ TypedLock /\ Roles

\* A failed registration keeps the types of what it touches.
LEMMA FailTyped ==
  ASSUME TypedMemory, TypedThreads, Roles, NEW t \in Threads, Fail(t)
  PROVE  TypedMemory' /\ TypedThreads' /\ Roles'
<1>1. TypedThreads' /\ Roles'
  BY DEF Fail, Idle, TypedThreads, Roles, Steps
<1>2. inflight' \subseteq Agents
  BY DEF Fail, Discard, TypedMemory
<1>3. CASE at[t] \in Agents \ {Platform}
  <2>1. fails[at[t]] + 1 \in Nat
    BY <1>3 DEF TypedMemory
  <2>2. fails' = [fails EXCEPT ![at[t]] = @ + 1] /\ resting' = [resting EXCEPT ![at[t]] = TRUE]
    BY <1>3 DEF Fail
  <2>3. fails' \in [Agents -> Nat] /\ resting' \in [Agents -> BOOLEAN]
    BY <2>1, <2>2 DEF TypedMemory
  <2> QED BY <1>1, <1>2, <2>3 DEF TypedMemory
<1>4. CASE at[t] \notin Agents \ {Platform}
  BY <1>1, <1>2, <1>4 DEF Fail, TypedMemory
<1> QED BY <1>3, <1>4

\* So does a registration that ends.
LEMMA LeaveTyped ==
  ASSUME TypedMemory, TypedThreads, Roles, NEW t \in Threads, Leave(t)
  PROVE  TypedMemory' /\ TypedThreads' /\ Roles'
BY DEF Leave, Idle, Discard, TypedMemory, TypedThreads, Roles, Steps

\* An incident is counted, a fault too.
LEMMA SlipTyped ==
  ASSUME TypedHistory, NEW a, Slip(a)
  PROVE  slips' \in [Agents -> Nat]
BY DEF Slip, TypedHistory
LEMMA FaultTyped ==
  ASSUME TypedHistory, Fault
  PROVE  faults' \in 0..MaxFaults
BY AgentsAssumption DEF Fault, TypedHistory

\* What is in the pool once it has taken a transaction.
LEMMA Pooling ==
  ASSUME TypedChain, NEW x \in Txs, NEW n, Enters(x, n)
  PROVE  /\ state' \in [Txs -> States] /\ state'[x] = "pool"
         /\ \A y \in Txs \ {x} : \/ state'[y] = state[y]
                                 \/ state[y] = "pool" /\ slot[y] = n /\ state'[y] = "unknown"
BY DEF Enters, Rivals, TypedChain, States

\* Every step keeps the types.
LEMMA TypedStep ==
  ASSUME Typed, [Next]_vars
  PROVE  Typed'
<1> USE DEF Typed
<1>1. ASSUME NEW t \in Threads, NEW a \in Agents, Start(t, a) PROVE Typed'
  BY <1>1 DEF Start, TypedRow, TypedMemory, TypedThreads,
       TypedChain, TypedHistory, TypedLock, Roles, Steps, Hashes, row, memory, threads, chain, history, marks
<1>2. ASSUME NEW t \in Threads, Pay(t) PROVE Typed'
  BY <1>2 DEF Pay, Goto, TypedRow, TypedMemory, TypedThreads,
       TypedChain, TypedHistory, TypedLock, Roles, Steps, Hashes, row, memory, threads, chain, history, marks
<1>3. ASSUME NEW t \in Threads, InFlight(t) PROVE Typed'
  BY <1>3 DEF InFlight, Idle, TypedRow, TypedMemory, TypedThreads,
       TypedChain, TypedHistory, TypedLock, Roles, Steps, Hashes, row, memory, threads, chain, history, marks
<1>4. ASSUME NEW t \in Threads, Enter(t) PROVE Typed'
  <2>1. at[t] \in Agents
    BY <1>4 DEF Enter, Roles
  <2>2. TypedHistory'
    BY <1>4, <2>1 DEF Enter, TypedHistory
  <2>3. TypedMemory'
    BY <1>4, <2>1 DEF Enter, TypedMemory
  <2>4. TypedThreads' /\ Roles'
    BY <1>4, <2>1 DEF Enter, Goto, TypedThreads, Roles, Steps
  <2> QED BY <1>4, <2>2, <2>3, <2>4 DEF Enter, TypedRow, TypedChain, TypedLock, row, chain
<1>5. ASSUME NEW t \in Threads, Resolve(t) PROVE Typed'
  <2>1. CASE ResolveMinted(t)
    BY <2>1 DEF ResolveMinted, Onward, TypedRow, TypedMemory, TypedThreads,
       TypedChain, TypedHistory, TypedLock, Roles, Steps, Hashes, row, memory, threads, chain, history, marks
  <2>2. CASE ResolveReverted(t)
    <3>1. TypedRow'
      BY <2>2 DEF ResolveReverted, Forget, Persist, TypedRow, TypedThreads
    <3> QED BY <2>2, <3>1, FailTyped DEF ResolveReverted, TypedChain, TypedHistory, TypedLock, chain, history, marks
  <2>3. CASE ResolveDropped(t)
    <3>1. TypedHistory'
      BY <2>3, SlipTyped, FaultTyped DEF ResolveDropped, Overlooked, TypedHistory, history, marks
    <3>2. TypedThreads' /\ Roles'
      BY <2>3 DEF ResolveDropped, Onward, TypedThreads, Roles, Steps
    <3> QED BY <2>3, <3>1, <3>2 DEF ResolveDropped, Forget, Persist, TypedRow, TypedMemory, TypedThreads,
                    TypedChain, TypedLock, Roles, memory, chain
  <2>4. CASE ResolveWait(t)
    BY <2>4, LeaveTyped DEF ResolveWait, Persist, TypedRow, TypedChain, TypedHistory, TypedLock, row, chain, history, marks, Roles, Hashes
  <2>5. CASE ResolveStuck(t)
    BY <2>5 DEF ResolveStuck, Goto, TypedRow, TypedMemory, TypedThreads,
       TypedChain, TypedHistory, TypedLock, Roles, Steps, Hashes, row, memory, threads, chain, history, marks
  <2>6. CASE ResolveFails(t)
    BY <2>6, FailTyped, FaultTyped DEF ResolveFails, TypedRow, TypedChain, TypedHistory, TypedLock, row, chain, history, marks
  <2> QED BY <1>5, <2>1, <2>2, <2>3, <2>4, <2>5, <2>6 DEF Resolve
<1>6. ASSUME NEW t \in Threads, Replace(t) PROVE Typed'
  <2>0. CASE BumpLook(t)
    BY <2>0 DEF BumpLook, Goto, TypedRow, TypedMemory, TypedThreads,
       TypedChain, TypedHistory, TypedLock, Roles, Steps, row, memory, chain, history, marks
  <2>1. CASE BumpSend(t)
    <3> DEFINE b == seen[t][1]
    <3>1. b \in Txs /\ top[b] + 1 \in 1..MaxBumps /\ <<b, top[b] + 1>> \in Hashes
      BY <2>1, AgentsAssumption DEF BumpSend, Roles, Hashes, TypedChain
    <3>2. TypedChain'
      <4>1. state' \in [Txs -> States]
        BY <2>1, <3>1, Pooling DEF BumpSend
      <4> QED BY <2>1, <3>1, <4>1 DEF BumpSend, TypedChain
    <3>3. stray' \subseteq Txs /\ UNCHANGED raced
      BY <2>1, <3>1 DEF BumpSend, TypedHistory
    <3>4. CASE Onward(t, "bumped", <<b, top[b] + 1>>) /\ UNCHANGED <<memory, slips, faults>>
      <4>1. TypedThreads' /\ Roles'
        BY <2>1, <3>1, <3>4 DEF BumpSend, Onward, TypedThreads, Roles, Steps
      <4> QED BY <2>1, <3>2, <3>3, <3>4, <4>1 DEF BumpSend, TypedRow, TypedMemory, TypedHistory, TypedLock, row, memory
    <3>5. CASE Fault /\ Slip(at[t]) /\ Leave(t)
      BY <2>1, <3>2, <3>3, <3>5, LeaveTyped, SlipTyped, FaultTyped DEF BumpSend, TypedRow, TypedHistory, TypedLock, row
    <3> QED BY <2>1, <3>4, <3>5 DEF BumpSend
  <2>2. CASE BumpLanded(t)
    <3>1. TypedRow'
      BY <2>2 DEF BumpLanded, Persist, TypedRow, TypedThreads
    <3> QED BY <2>2, <3>1, LeaveTyped DEF BumpLanded, TypedChain, TypedHistory, TypedLock, chain, history, marks
  <2>3. CASE BumpRefused(t)
    BY <2>3, LeaveTyped DEF BumpRefused, Persist, TypedRow, TypedChain, TypedHistory, TypedLock, row, chain, history, marks, Roles, Hashes
  <2>4. CASE BumpRecorded(t)
    <3>1. TypedRow'
      BY <2>4 DEF BumpRecorded, Persist, TypedRow, TypedThreads
    <3> QED BY <2>4, <3>1, LeaveTyped DEF BumpRecorded, TypedChain, TypedHistory, TypedLock, chain, history, marks
  <2> QED BY <1>6, <2>0, <2>1, <2>2, <2>3, <2>4 DEF Replace
<1>7. ASSUME NEW t \in Threads, Send(t) PROVE Typed'
  <2>1. CASE Unfunded(t)
    BY <2>1, LeaveTyped DEF Unfunded, Persist, TypedRow, TypedChain, TypedHistory, TypedLock, row, chain, history, marks, Roles, Hashes
  <2>2. CASE Sign(t)
    <3>1. nonce' \in [Threads -> Nat] /\ elsewhere' \in [Threads -> BOOLEAN]
      <4>1. PICK n \in 0..MaxSends :
              /\ nonce' = [nonce EXCEPT ![t] = n]
              /\ elsewhere' = elsewhere \/ elsewhere' = [elsewhere EXCEPT ![t] = TRUE]
        BY <2>2 DEF Sign
      <4>2. n \in Nat
        BY AgentsAssumption
      <4> QED BY <4>1, <4>2 DEF TypedThreads
    <3>2. faults' \in 0..MaxFaults
      BY <2>2, FaultTyped DEF Sign, TypedHistory
    <3> QED BY <2>2, <3>1, <3>2 DEF Sign, Typed, TypedRow, TypedMemory, TypedThreads, TypedChain, TypedHistory, TypedLock,
                      Roles, Steps, row, memory, chain, history, marks
  <2>3. CASE Broadcast(t)
    <3>1. PICK x \in Txs :
            /\ Post(x, t)
            /\ \/ at[t] # None /\ Onward(t, "await", <<x, 1>>) /\ UNCHANGED <<memory, slips, faults>>
               \/ at[t] = None /\ Leave(t) /\ UNCHANGED <<slips, faults>>
               \/ Fault /\ Slip(at[t]) /\ Fail(t)
      BY <2>3 DEF Broadcast
    <3>2. TypedChain'
      <4>1. at[t] \in Agents \cup {None} /\ nonce[t] \in Nat
        BY DEF TypedThreads
      <4>2. Post(x, t)
        BY <3>1
      <4>3. state' \in [Txs -> States]
        BY <4>2, Pooling DEF Post
      <4> QED BY <4>1, <4>2, <4>3 DEF Post, TypedChain
    <3>3. TypedRow' /\ TypedLock' /\ stray' \subseteq Txs /\ UNCHANGED raced
      BY <2>3, <3>1 DEF Broadcast, Post, TypedRow, TypedLock, TypedHistory, row
    <3>4. CASE at[t] # None /\ Onward(t, "await", <<x, 1>>) /\ UNCHANGED <<memory, slips, faults>>
      <4>1. <<x, 1>> \in Hashes
        BY AgentsAssumption DEF Hashes
      <4>2. TypedThreads' /\ Roles'
        BY <3>4, <4>1 DEF Onward, TypedThreads, Roles, Steps
      <4> QED BY <3>2, <3>3, <3>4, <4>2 DEF TypedMemory, TypedHistory, memory
    <3>5. CASE at[t] = None /\ Leave(t) /\ UNCHANGED <<slips, faults>>
      BY <3>2, <3>3, <3>5, LeaveTyped DEF TypedHistory
    <3>6. CASE Fault /\ Slip(at[t]) /\ Fail(t)
      BY <3>2, <3>3, <3>6, FailTyped, SlipTyped, FaultTyped DEF TypedHistory
    <3> QED BY <3>1, <3>4, <3>5, <3>6
  <2>4. CASE BroadcastFails(t)
    BY <2>4, FailTyped, FaultTyped DEF BroadcastFails, TypedRow, TypedChain, TypedHistory, TypedLock, row, chain, history, marks
  <2> QED BY <1>7, <2>1, <2>2, <2>3, <2>4 DEF Send
<1>8. ASSUME NEW t \in Threads, Await(t) PROVE Typed'
  <2>1. CASE Receipt(t)
    BY <2>1 DEF Receipt, Goto, TypedRow, TypedMemory, TypedThreads,
       TypedChain, TypedHistory, TypedLock, Roles, Steps, Hashes, row, memory, threads, chain, history, marks
  <2>2. CASE ReceiptReverted(t)
    BY <2>2, FailTyped, FaultTyped DEF ReceiptReverted, Forget, Persist, TypedRow, TypedChain, TypedHistory, TypedLock, row, chain, history, marks
  <2>3. CASE ReceiptTimeout(t)
    <3>1. TypedRow'
      BY <2>3 DEF ReceiptTimeout, Persist, TypedRow, TypedThreads
    <3> QED BY <2>3, <3>1, LeaveTyped DEF ReceiptTimeout, TypedChain, TypedHistory, TypedLock, chain, history, marks
  <2>4. CASE Record(t)
    BY <2>4 DEF Record, Idle, Discard, TypedRow, TypedMemory, TypedThreads,
       TypedChain, TypedHistory, TypedLock, Roles, Steps, Hashes, row, memory, threads, chain, history, marks
  <2> QED BY <1>8, <2>1, <2>2, <2>3, <2>4 DEF Await
<1>9. ASSUME NEW x \in Txs, Mine(x) PROVE Typed'
  <2>1. PICK v \in 1..top[x], end \in {"mined", "reverted"} :
          LET asExpected == state[x] = "pool" /\ v = top[x] IN
          /\ won' = [won EXCEPT ![x] = v]
          /\ state' = [y \in Txs |-> IF y = x THEN end
                                     ELSE IF state[y] = "pool" /\ slot[y] = base THEN "unknown"
                                     ELSE state[y]]
          /\ IF asExpected THEN UNCHANGED slips ELSE Slip(of[x])
          /\ IF asExpected /\ end = "mined" THEN UNCHANGED faults ELSE Fault
    BY <1>9 DEF Mine
  <2>2. v \in 0..MaxBumps
    BY AgentsAssumption DEF TypedChain
  <2>3. TypedChain'
    BY <1>9, <2>1, <2>2 DEF Mine, TypedChain, States
  <2>4. TypedHistory'
    BY <1>9, <2>1, SlipTyped, FaultTyped DEF Mine, TypedHistory
  <2> QED BY <1>9, <2>3, <2>4 DEF Mine, TypedRow, TypedMemory, TypedThreads, TypedLock, Roles, row, memory, threads
<1>10. ASSUME NEW x \in Txs, Drop(x) PROVE Typed'
  <2>1. TypedHistory'
    BY <1>10, FaultTyped DEF Drop, TypedHistory, marks
  <2>2. TypedChain'
    BY <1>10 DEF Drop, TypedChain, States
  <2> QED BY <1>10, <2>1, <2>2 DEF Drop, TypedRow, TypedMemory, TypedThreads, TypedLock, Roles, row, memory, threads
<1>11. ASSUME NEW a \in Agents, Age(a) PROVE Typed'
  BY <1>11 DEF Age, TypedRow, TypedMemory, TypedThreads,
       TypedChain, TypedHistory, TypedLock, Roles, Steps, Hashes, row, memory, threads, chain, history, marks
<1>12. ASSUME NEW a \in Agents, Cool(a) PROVE Typed'
  BY <1>12 DEF Cool, TypedRow, TypedMemory, TypedThreads,
       TypedChain, TypedHistory, TypedLock, Roles, Steps, Hashes, row, memory, threads, chain, history, marks
<1>13. ASSUME NEW a \in Agents, Delete(a) PROVE Typed'
  BY <1>13 DEF Delete, TypedRow, TypedMemory, TypedThreads,
       TypedChain, TypedHistory, TypedLock, Roles, Steps, Hashes, row, memory, threads, chain, history, marks
<1>14. CASE Reset
  BY <1>14 DEF Reset, TypedRow, TypedMemory, TypedThreads,
       TypedChain, TypedHistory, TypedLock, Roles, Steps, Hashes, row, memory, threads, chain, history, marks
<1>15. CASE Crash
  <2>1. TypedHistory'
    BY <1>15, FaultTyped DEF Crash, TypedHistory
  <2>2. TypedThreads' /\ Roles' /\ TypedMemory' /\ TypedLock'
    BY <1>15 DEF Crash, TypedThreads, Roles, TypedMemory, TypedLock, Steps
  <2> QED BY <1>15, <2>1, <2>2 DEF Crash, TypedRow, TypedChain, row, chain
<1>16. CASE UNCHANGED vars
  BY <1>16 DEF vars, TypedRow, TypedMemory, TypedThreads, TypedChain, TypedHistory, TypedLock, Roles,
       row, memory, threads, chain, history, marks
<1> QED BY <1>1, <1>2, <1>3, <1>4, <1>5, <1>6, <1>7, <1>8, <1>9, <1>10, <1>11, <1>12, <1>13, <1>14, <1>15, <1>16 DEF Next, Work

-------------------------------------------------------------------------------
(* A place in _inflight belongs to one thread.                                *)

InFlightHeld ==
  /\ \A a \in Agents : a \in inflight <=> \E t \in Threads : Working(t, a)
  /\ \A t, u \in Threads, a \in Agents : Working(t, a) /\ Working(u, a) => t = u

\* Every step keeps the in-flight set in step with the threads.
LEMMA InFlightStep ==
  ASSUME Typed, InFlightHeld, [Next]_vars
  PROVE  InFlightHeld'
<1> USE AgentsAssumption DEF InFlightHeld, Working, Typed, TypedThreads, TypedMemory, Roles, row, memory, threads, chain, history, marks
<1>1. ASSUME NEW t \in Threads, NEW a \in Agents, Start(t, a) PROVE InFlightHeld'
  BY <1>1 DEF Start
<1>2. ASSUME NEW t \in Threads, Pay(t) PROVE InFlightHeld'
  BY <1>2 DEF Pay, Goto
<1>3. ASSUME NEW t \in Threads, InFlight(t) PROVE InFlightHeld'
  BY <1>3 DEF InFlight, Idle
<1>4. ASSUME NEW t \in Threads, Enter(t) PROVE InFlightHeld'
  BY <1>4 DEF Enter, Goto
<1>5. ASSUME NEW t \in Threads, Resolve(t) PROVE InFlightHeld'
  <2>1. CASE ResolveMinted(t)
    BY <2>1 DEF ResolveMinted, Onward
  <2>2. CASE ResolveReverted(t)
    BY <2>2 DEF ResolveReverted, Forget, Persist, Fail, Idle, Discard
  <2>3. CASE ResolveDropped(t)
    BY <2>3 DEF ResolveDropped, Forget, Persist, Onward
  <2>4. CASE ResolveWait(t)
    BY <2>4 DEF ResolveWait, Leave, Idle, Discard
  <2>5. CASE ResolveStuck(t)
    BY <2>5 DEF ResolveStuck, Goto
  <2>6. CASE ResolveFails(t)
    BY <2>6 DEF ResolveFails, Fault, Fail, Idle, Discard
  <2> QED BY <1>5, <2>1, <2>2, <2>3, <2>4, <2>5, <2>6 DEF Resolve
<1>6. ASSUME NEW t \in Threads, Replace(t) PROVE InFlightHeld'
  <2>0. CASE BumpLook(t)
    BY <2>0 DEF BumpLook, Goto
  <2>1. CASE BumpSend(t)
    BY <2>1 DEF BumpSend, Onward, Leave, Idle, Discard
  <2>2. CASE BumpLanded(t)
    BY <2>2 DEF BumpLanded, Persist, Leave, Idle, Discard
  <2>3. CASE BumpRefused(t)
    BY <2>3 DEF BumpRefused, Leave, Idle, Discard
  <2>4. CASE BumpRecorded(t)
    BY <2>4 DEF BumpRecorded, Persist, Leave, Idle, Discard
  <2> QED BY <1>6, <2>0, <2>1, <2>2, <2>3, <2>4 DEF Replace
<1>7. ASSUME NEW t \in Threads, Send(t) PROVE InFlightHeld'
  <2>1. CASE Unfunded(t)
    BY <2>1 DEF Unfunded, Leave, Idle, Discard
  <2>2. CASE Sign(t)
    BY <2>2 DEF Sign, LockFree
  <2>3. CASE Broadcast(t)
    BY <2>3 DEF Broadcast, Post, Onward, Leave, Fault, Slip, Fail, Idle, Discard
  <2>4. CASE BroadcastFails(t)
    BY <2>4 DEF BroadcastFails, Fail, Idle, Discard, Fault
  <2> QED BY <1>7, <2>1, <2>2, <2>3, <2>4 DEF Send
<1>8. ASSUME NEW t \in Threads, Await(t) PROVE InFlightHeld'
  <2>1. CASE Receipt(t)
    BY <2>1 DEF Receipt, Goto
  <2>2. CASE ReceiptReverted(t)
    BY <2>2 DEF ReceiptReverted, Fail, Idle, Discard
  <2>3. CASE ReceiptTimeout(t)
    BY <2>3 DEF ReceiptTimeout, Persist, Leave, Idle, Discard
  <2>4. CASE Record(t)
    BY <2>4 DEF Record, Idle, Discard
  <2> QED BY <1>8, <2>1, <2>2, <2>3, <2>4 DEF Await
<1>9. ASSUME NEW x \in Txs, Mine(x) PROVE InFlightHeld'
  BY <1>9 DEF Mine, Fault, Slip
<1>10. ASSUME NEW x \in Txs, Drop(x) PROVE InFlightHeld'
  BY <1>10 DEF Drop, Fault
<1>11. ASSUME NEW a \in Agents, Age(a) PROVE InFlightHeld'
  BY <1>11 DEF Age
<1>12. ASSUME NEW a \in Agents, Cool(a) PROVE InFlightHeld'
  BY <1>12 DEF Cool
<1>13. ASSUME NEW a \in Agents, Delete(a) PROVE InFlightHeld'
  BY <1>13 DEF Delete
<1>14. CASE Reset
  BY <1>14 DEF Reset
<1>15. CASE Crash
  BY <1>15 DEF Crash, Fault
<1>16. CASE UNCHANGED vars
  BY <1>16 DEF vars
<1> QED BY <1>1, <1>2, <1>3, <1>4, <1>5, <1>6, <1>7, <1>8, <1>9, <1>10, <1>11, <1>12, <1>13, <1>14, <1>15, <1>16 DEF Next, Work

-------------------------------------------------------------------------------
(* One nonce chain: the lock is held from the reading of a nonce to its use.   *)

Nonces ==
  /\ \A t \in Threads : pc[t] = "signed" <=> lock = t
  /\ \A t \in Threads : pc[t] = "signed" /\ ~elsewhere[t] => ~InPool(nonce[t])
  /\ NonceIsFresh

\* Every step keeps the wallet's transactions on nonces of their own.
LEMMA NoncesStep ==
  ASSUME Typed, Nonces, [Next]_vars
  PROVE  Nonces'
<1> USE AgentsAssumption DEF Nonces, NonceIsFresh, InPool, Typed, TypedThreads, TypedChain, TypedHistory, TypedLock, Roles, row, memory, threads, chain, history, marks
<1>1. ASSUME NEW t \in Threads, NEW a \in Agents, Start(t, a) PROVE Nonces'
  BY <1>1 DEF Start
<1>2. ASSUME NEW t \in Threads, Pay(t) PROVE Nonces'
  BY <1>2 DEF Pay, Goto
<1>3. ASSUME NEW t \in Threads, InFlight(t) PROVE Nonces'
  BY <1>3 DEF InFlight, Idle
<1>4. ASSUME NEW t \in Threads, Enter(t) PROVE Nonces'
  BY <1>4 DEF Enter, Goto
<1>5. ASSUME NEW t \in Threads, Resolve(t) PROVE Nonces'
  <2>1. CASE ResolveMinted(t)
    BY <2>1 DEF ResolveMinted, Onward
  <2>2. CASE ResolveReverted(t)
    BY <2>2 DEF ResolveReverted, Forget, Persist, Fail, Idle, Discard
  <2>3. CASE ResolveDropped(t)
    BY <2>3 DEF ResolveDropped, Overlooked, Forget, Persist, Onward
  <2>4. CASE ResolveWait(t)
    BY <2>4 DEF ResolveWait, Leave, Idle, Discard
  <2>5. CASE ResolveStuck(t)
    BY <2>5 DEF ResolveStuck, Goto
  <2>6. CASE ResolveFails(t)
    BY <2>6 DEF ResolveFails, Fault, Fail, Idle, Discard
  <2> QED BY <1>5, <2>1, <2>2, <2>3, <2>4, <2>5, <2>6 DEF Resolve
<1>6. ASSUME NEW t \in Threads, Replace(t) PROVE Nonces'
  <2>0. CASE BumpLook(t)
    BY <2>0 DEF BumpLook, Goto
  <2>1. CASE BumpSend(t)
    <3> DEFINE x == seen[t][1]
    <3>1. /\ x \in Txs /\ \A u \in Threads : pc[u] # "signed"
          /\ lock' = lock /\ slot' = slot
          /\ stray' = IF state[x] = "pool" THEN stray ELSE stray \cup {x}
      BY <2>1 DEF BumpSend, Hashes
    <3>2. \A y \in Txs \ {x} : state'[y] = "pool" => state[y] = "pool"
      BY <2>1, <3>1, Pooling DEF BumpSend
    <3>3. NonceIsFresh'
      BY <3>1, <3>2
    <3>4. \A u \in Threads : pc'[u] # "signed"
      BY <2>1, <3>1 DEF BumpSend, Onward, Leave, Idle
    <3>5. \A u \in Threads : lock' # u
      BY <2>1, <3>1 DEF BumpSend
    <3> QED BY <3>3, <3>4, <3>5
  <2>2. CASE BumpLanded(t)
    BY <2>2 DEF BumpLanded, Persist, Leave, Idle, Discard
  <2>3. CASE BumpRefused(t)
    BY <2>3 DEF BumpRefused, Leave, Idle, Discard
  <2>4. CASE BumpRecorded(t)
    BY <2>4 DEF BumpRecorded, Persist, Leave, Idle, Discard
  <2> QED BY <1>6, <2>0, <2>1, <2>2, <2>3, <2>4 DEF Replace
<1>7. ASSUME NEW t \in Threads, Send(t) PROVE Nonces'
  <2>1. CASE Unfunded(t)
    BY <2>1 DEF Unfunded, Leave, Idle, Discard
  <2>2. CASE Sign(t)
    <3>1. UNCHANGED <<state, slot, stray>> /\ lock = None /\ lock' = t /\ pc' = [pc EXCEPT ![t] = "signed"]
      BY <2>2 DEF Sign, LockFree, marks
    <3>2. PICK n \in 0..MaxSends :
            /\ nonce' = [nonce EXCEPT ![t] = n]
            /\ NextNonce(n) \/ elsewhere' = [elsewhere EXCEPT ![t] = TRUE]
      BY <2>2 DEF Sign
    <3>3. ~elsewhere'[t] => ~InPool(n)
      BY <3>2 DEF NextNonce
    <3> QED BY <3>1, <3>2, <3>3
  <2>3. CASE Broadcast(t)
    <3>1. PICK x \in Txs : Post(x, t)
      BY <2>3 DEF Broadcast
    <3>2. /\ slot' = [slot EXCEPT ![x] = nonce[t]] /\ state[x] = "unsent"
          /\ stray' = IF elsewhere[t] THEN stray \cup {x} ELSE stray
      BY <3>1 DEF Post
    <3>3. \A y \in Txs \ {x} : state'[y] = "pool" => state[y] = "pool"
      BY <3>1, Pooling DEF Post
    <3>4. ~elsewhere[t] => ~InPool(nonce[t])
      BY <2>3 DEF Broadcast
    <3>5. NonceIsFresh'
      BY <3>2, <3>3, <3>4
    <3>6. pc[t] = "signed" /\ lock = t /\ lock' = None /\ \A u \in Threads \ {t} : pc[u] # "signed"
      BY <2>3 DEF Broadcast
    <3>7. \A u \in Threads : pc'[u] # "signed"
      BY <2>3, <3>6 DEF Broadcast, Onward, Leave, Fail, Idle
    <3>8. \A u \in Threads : lock' # u
      BY <3>6
    <3> QED BY <3>5, <3>7, <3>8
  <2>4. CASE BroadcastFails(t)
    BY <2>4 DEF BroadcastFails, Fail, Idle, Discard, Fault
  <2> QED BY <1>7, <2>1, <2>2, <2>3, <2>4 DEF Send
<1>8. ASSUME NEW t \in Threads, Await(t) PROVE Nonces'
  <2>1. CASE Receipt(t)
    BY <2>1 DEF Receipt, Goto
  <2>2. CASE ReceiptReverted(t)
    BY <2>2 DEF ReceiptReverted, Fail, Idle, Discard
  <2>3. CASE ReceiptTimeout(t)
    BY <2>3 DEF ReceiptTimeout, Persist, Leave, Idle, Discard
  <2>4. CASE Record(t)
    BY <2>4 DEF Record, Idle, Discard
  <2> QED BY <1>8, <2>1, <2>2, <2>3, <2>4 DEF Await
<1>9. ASSUME NEW x \in Txs, Mine(x) PROVE Nonces'
  BY <1>9 DEF Mine, Fault, Slip
<1>10. ASSUME NEW x \in Txs, Drop(x) PROVE Nonces'
  BY <1>10 DEF Drop, Fault
<1>11. ASSUME NEW a \in Agents, Age(a) PROVE Nonces'
  BY <1>11 DEF Age
<1>12. ASSUME NEW a \in Agents, Cool(a) PROVE Nonces'
  BY <1>12 DEF Cool
<1>13. ASSUME NEW a \in Agents, Delete(a) PROVE Nonces'
  BY <1>13 DEF Delete
<1>14. CASE Reset
  BY <1>14 DEF Reset
<1>15. CASE Crash
  BY <1>15 DEF Crash, Fault
<1>16. CASE UNCHANGED vars
  BY <1>16 DEF vars
<1> QED BY <1>1, <1>2, <1>3, <1>4, <1>5, <1>6, <1>7, <1>8, <1>9, <1>10, <1>11, <1>12, <1>13, <1>14, <1>15, <1>16 DEF Next, Work

-------------------------------------------------------------------------------
(* Hashes keep to their agents.                                               *)

Owns(a, h) == of[h[1]] = a /\ state[h[1]] # "unsent"

\* Every hash in a row or with a thread is of a transaction of that agent, and a
\* thread that records saw it mined.
Owned ==
  /\ \A a \in Agents : hash[a] # None => Owns(a, hash[a])
  /\ \A t \in Threads : seen[t] # None => Owns(at[t], seen[t])
  /\ \A t \in Threads : mine[t] # None => Owns(at[t], mine[t])
  /\ \A t \in Threads : pc[t] = "idle" => mine[t] = None
  /\ \A t \in Threads : pc[t] = "record" => mine[t] # None /\ state[mine[t][1]] = "mined"
  /\ RecordedIsMinted

\* Every step keeps the hashes with their agents.
LEMMA OwnedStep ==
  ASSUME Typed, Owned, [Next]_vars
  PROVE  Owned'
<1> USE AgentsAssumption DEF Owned, Owns, RecordedIsMinted, Typed, TypedRow, TypedThreads, TypedChain, Roles, Hashes, Txs, States, row, memory, threads, chain, history, marks
<1>1. ASSUME NEW t \in Threads, NEW a \in Agents, Start(t, a) PROVE Owned'
  BY <1>1, SMTT(60) DEF Start
<1>2. ASSUME NEW t \in Threads, Pay(t) PROVE Owned'
  BY <1>2 DEF Pay, Goto
<1>3. ASSUME NEW t \in Threads, InFlight(t) PROVE Owned'
  BY <1>3 DEF InFlight, Idle
<1>4. ASSUME NEW t \in Threads, Enter(t) PROVE Owned'
  BY <1>4 DEF Enter, Goto
<1>5. ASSUME NEW t \in Threads, Resolve(t) PROVE Owned'
  <2>1. CASE ResolveMinted(t)
    <3>1. seen[t] \in Hashes /\ state[seen[t][1]] = "mined" /\ seen[t] # None
      BY <2>1 DEF ResolveMinted, Minted
    <3> QED BY <2>1, <3>1 DEF ResolveMinted, Onward
  <2>2. CASE ResolveReverted(t)
    BY <2>2 DEF ResolveReverted, Forget, Persist, Fail, Idle, Discard
  <2>3. CASE ResolveDropped(t)
    BY <2>3 DEF ResolveDropped, Forget, Persist, Onward
  <2>4. CASE ResolveWait(t)
    BY <2>4 DEF ResolveWait, Leave, Idle, Discard
  <2>5. CASE ResolveStuck(t)
    BY <2>5, SMTT(30) DEF ResolveStuck, Goto
  <2>6. CASE ResolveFails(t)
    BY <2>6, SMTT(30) DEF ResolveFails, Fault, Fail, Idle, Discard
  <2> QED BY <1>5, <2>1, <2>2, <2>3, <2>4, <2>5, <2>6 DEF Resolve
<1>6. ASSUME NEW t \in Threads, Replace(t) PROVE Owned'
  <2>0. CASE BumpLook(t)
    BY <2>0 DEF BumpLook, Goto
  <2>1. CASE BumpSend(t)
    <3> DEFINE b == seen[t][1]
    <3>1. b \in Txs /\ of[b] = at[t] /\ state[b] \in {"pool", "unknown"} /\ UNCHANGED <<of, row>>
      BY <2>1 DEF BumpSend
    <3>2. Enters(b, slot[b])
      BY <2>1 DEF BumpSend
    <3>3. /\ state'[b] = "pool"
          /\ \A y \in Txs \ {b} : state'[y] = state[y] \/ (state[y] = "pool" /\ state'[y] = "unknown")
      <4> HIDE DEF b
      <4> QED BY <3>1, <3>2, Pooling
    <3>4. \A y \in Txs : /\ state[y] # "unsent" => state'[y] # "unsent"
                         /\ state[y] = "mined" => state'[y] = "mined"
      <4> HIDE DEF b
      <4> QED BY <3>1, <3>3
    <3>5. \A h \in Hashes : h[1] \in Txs
      BY DEF Hashes
    <3>6. \A h \in Hashes : \A a : Owns(a, h) => Owns(a, h)'
      BY <3>1, <3>4, <3>5
    <3>7. \A u \in Threads : pc[u] = "record" => mine[u] # None /\ state'[mine[u][1]] = "mined"
      BY <3>4, <3>5
    <3>8. RecordedIsMinted'
      BY <3>1, <3>4
    <3>9. CASE Onward(t, "bumped", <<b, top[b] + 1>>)
      <4>1. of'[b] = at[t] /\ state'[b] # "unsent"
        <5> HIDE DEF b
        <5> QED BY <3>1, <3>3
      <4>2. ASSUME NEW h, h = <<b, top[b] + 1>>, NEW a, a = at[t] PROVE Owns(a, h)'
        <5>1. h[1] = b
          BY <4>2
        <5> HIDE DEF b
        <5> QED BY <4>1, <4>2, <5>1
      <4>3. \A h, a : h = <<b, top[b] + 1>> /\ a = at[t] => Owns(a, h)'
        BY <4>2
      <4> HIDE DEF Owns, RecordedIsMinted, Hashes, b
      <4> QED BY <3>1, <3>6, <3>7, <3>8, <3>9, <4>3 DEF Onward
    <3>10. CASE Leave(t)
      <4> HIDE DEF Owns, RecordedIsMinted, Hashes, b
      <4> QED BY <3>1, <3>6, <3>7, <3>8, <3>10 DEF Leave, Idle
    <3> QED BY <2>1, <3>9, <3>10 DEF BumpSend
  <2>2. CASE BumpLanded(t)
    BY <2>2 DEF BumpLanded, Persist, Leave, Idle, Discard
  <2>3. CASE BumpRefused(t)
    BY <2>3 DEF BumpRefused, Leave, Idle, Discard
  <2>4. CASE BumpRecorded(t)
    BY <2>4 DEF BumpRecorded, Persist, Leave, Idle, Discard
  <2> QED BY <1>6, <2>0, <2>1, <2>2, <2>3, <2>4 DEF Replace
<1>7. ASSUME NEW t \in Threads, Send(t) PROVE Owned'
  <2>1. CASE Unfunded(t)
    BY <2>1 DEF Unfunded, Leave, Idle, Discard
  <2>2. CASE Sign(t)
    BY <2>2 DEF Sign, LockFree
  <2>3. CASE Broadcast(t)
    <3>1. PICK x \in Txs :
            /\ Post(x, t)
            /\ \/ at[t] # None /\ Onward(t, "await", <<x, 1>>) /\ UNCHANGED <<memory, slips, faults>>
               \/ at[t] = None /\ Leave(t) /\ UNCHANGED <<slips, faults>>
               \/ Fault /\ Slip(at[t]) /\ Fail(t)
      BY <2>3 DEF Broadcast
    <3>2. \A y \in Txs : state[y] # "unsent" =>
            of'[y] = of[y] /\ state'[y] # "unsent" /\ (state[y] = "mined" => state'[y] = "mined")
      <4>1. state[x] = "unsent" /\ Enters(x, nonce[t]) /\ of' = [of EXCEPT ![x] = at[t]]
        BY <3>1 DEF Post
      <4>2. \A y \in Txs \ {x} : state'[y] = state[y] \/ (state[y] = "pool" /\ state'[y] = "unknown")
        <5>1. TypedChain
          BY DEF TypedChain
        <5> HIDE DEF TypedChain
        <5> QED BY <4>1, <5>1, Pooling
      <4> QED BY <4>1, <4>2
    <3>3. UNCHANGED row
      BY <2>3 DEF Broadcast
    <3>7. \A h \in Hashes : h[1] \in Txs
      BY DEF Hashes
    <3>8. \A h \in Hashes : \A a : Owns(a, h) => Owns(a, h)'
      BY <3>2, <3>7
    <3>9. \A u \in Threads : pc[u] = "record" => mine[u] # None /\ state'[mine[u][1]] = "mined"
      BY <3>2, <3>7
    <3>10. RecordedIsMinted'
      BY <3>2, <3>3
    <3>4. CASE at[t] # None /\ Onward(t, "await", <<x, 1>>) /\ UNCHANGED <<memory, slips, faults>>
      <4>1. Owns(at[t], <<x, 1>>)'
        <5>1. Enters(x, nonce[t]) /\ of' = [of EXCEPT ![x] = at[t]] /\ at' = at
          BY <3>1, <3>4 DEF Post, Onward
        <5>2. state'[x] = "pool"
          BY <5>1, Pooling
        <5> QED BY <5>1, <5>2
      <4> HIDE DEF Owns, RecordedIsMinted, Hashes
      <4> QED BY <3>3, <3>4, <3>8, <3>9, <3>10, <4>1 DEF Onward
    <3>5. CASE at[t] = None /\ Leave(t) /\ UNCHANGED <<slips, faults>>
      BY <3>2, <3>3, <3>5, SMTT(30) DEF Leave, Idle
    <3>6. CASE Fault /\ Slip(at[t]) /\ Fail(t)
      <4> HIDE DEF Owns, RecordedIsMinted, Hashes
      <4> QED BY <3>3, <3>6, <3>8, <3>9, <3>10 DEF Fail, Idle
    <3> QED BY <3>1, <3>4, <3>5, <3>6
  <2>4. CASE BroadcastFails(t)
    BY <2>4 DEF BroadcastFails, Fail, Idle, Discard, Fault
  <2> QED BY <1>7, <2>1, <2>2, <2>3, <2>4 DEF Send
<1>8. ASSUME NEW t \in Threads, Await(t) PROVE Owned'
  <2>1. CASE Receipt(t)
    <3>1. mine[t] \in Hashes /\ state[mine[t][1]] = "mined" /\ mine[t] # None
      BY <2>1, AgentsAssumption DEF Receipt, Minted, Hashes
    <3> QED BY <2>1, <3>1 DEF Receipt, Goto
  <2>2. CASE ReceiptReverted(t)
    BY <2>2 DEF ReceiptReverted, Fail, Idle, Discard
  <2>3. CASE ReceiptTimeout(t)
    BY <2>3 DEF ReceiptTimeout, Persist, Leave, Idle, Discard
  <2>4. CASE Record(t)
    BY <2>4 DEF Record, Idle, Discard
  <2> QED BY <1>8, <2>1, <2>2, <2>3, <2>4 DEF Await
<1>9. ASSUME NEW x \in Txs, Mine(x) PROVE Owned'
  <2>1. PICK v \in 1..top[x], end \in {"mined", "reverted"} :
          state' = [y \in Txs |-> IF y = x THEN end
                                  ELSE IF state[y] = "pool" /\ slot[y] = base THEN "unknown"
                                  ELSE state[y]]
    BY <1>9 DEF Mine
  <2>2. state[x] # "unsent" /\ state[x] # "mined" /\ UNCHANGED <<of, row, threads>>
    BY <1>9 DEF Mine
  <2>3. \A y \in Txs : state[y] # "unsent" =>
          of'[y] = of[y] /\ state'[y] # "unsent" /\ (state[y] = "mined" => state'[y] = "mined")
    BY <2>1, <2>2
  <2>4. \A h \in Hashes : h[1] \in Txs
    BY DEF Hashes
  <2>5. \A h \in Hashes : \A a : Owns(a, h) => Owns(a, h)'
    BY <2>3, <2>4
  <2>6. \A t \in Threads : pc[t] = "record" => mine[t] # None /\ state'[mine[t][1]] = "mined"
    BY <2>3, <2>4
  <2>7. ASSUME NEW a \in Agents, id[a] # 0 PROVE of'[id[a]] = a /\ state'[id[a]] = "mined"
    <3>1. id[a] \in Txs /\ of[id[a]] = a /\ state[id[a]] = "mined"
      BY <2>7
    <3> QED BY <2>3, <3>1
  <2>8. RecordedIsMinted'
    BY <2>2, <2>7
  <2> HIDE DEF Owns, RecordedIsMinted, Hashes
  <2> QED BY <2>2, <2>5, <2>6, <2>8
<1>10. ASSUME NEW x \in Txs, Drop(x) PROVE Owned'
  BY <1>10, SMTT(30) DEF Drop, Fault
<1>11. ASSUME NEW a \in Agents, Age(a) PROVE Owned'
  BY <1>11 DEF Age
<1>12. ASSUME NEW a \in Agents, Cool(a) PROVE Owned'
  BY <1>12 DEF Cool
<1>13. ASSUME NEW a \in Agents, Delete(a) PROVE Owned'
  BY <1>13 DEF Delete
<1>14. CASE Reset
  BY <1>14 DEF Reset
<1>15. CASE Crash
  BY <1>15 DEF Crash, Fault
<1>16. CASE UNCHANGED vars
  BY <1>16 DEF vars
<1> QED BY <1>1, <1>2, <1>3, <1>4, <1>5, <1>6, <1>7, <1>8, <1>9, <1>10, <1>11, <1>12, <1>13, <1>14, <1>15, <1>16 DEF Next, Work

\* The inductive invariant: types, the in-flight set, the wallet's nonces, and
\* whose hashes the rows and the threads hold.
Invariant == Typed /\ InFlightHeld /\ Nonces /\ Owned

LEMMA InvariantBegins ==
  ASSUME Init
  PROVE  Invariant
<1>1. Typed
  BY AgentsAssumption DEF Init, Typed, TypedRow, TypedMemory, TypedThreads, TypedChain, TypedHistory,
     TypedLock, Roles, Steps, States
<1>2. InFlightHeld
  BY DEF Init, InFlightHeld, Working
<1>3. Nonces
  BY AgentsAssumption DEF Init, Nonces, NonceIsFresh, InPool
<1>4. Owned
  BY DEF Init, Owned, RecordedIsMinted
<1> QED BY <1>1, <1>2, <1>3, <1>4 DEF Invariant

LEMMA AgentsInvariant == Spec => []Invariant
<1>1. Invariant /\ [Next]_vars => Invariant'
  BY TypedStep, InFlightStep, NoncesStep, OwnedStep DEF Invariant
<1> QED BY InvariantBegins, <1>1, PTL DEF Spec

\* The types, and the in-flight set is the agents a thread works on: no early
\* return, failure or restart leaves an agent in _inflight, which would keep it
\* from being registered until the next restart.
THEOREM AgentsTyped == Spec => []TypeOK
<1>1. Invariant => TypeOK
  BY DEF Invariant, Typed, TypedRow, TypedMemory, TypedThreads, TypedChain, TypedHistory,
     TypedLock, InFlightHeld, TypeOK
<1> QED BY AgentsInvariant, <1>1, PTL

\* Registrations, fee bumps and settlements of any number of threads put two
\* transactions under one nonce of the pool only when one was signed with another
\* gateway's count, or was bumped after the pool had lost it.
THEOREM NoncesFresh == Spec => []NonceIsFresh
<1>1. Invariant => NonceIsFresh
  BY DEF Invariant, Nonces
<1> QED BY AgentsInvariant, <1>1, PTL

\* Whatever is bumped, resumed, timed out or resent, the id that ends up in an
\* agent's row was minted by a transaction sent for that agent.
THEOREM IdsMinted == Spec => []RecordedIsMinted
<1>1. Invariant => RecordedIsMinted
  BY DEF Invariant, Owned
<1> QED BY AgentsInvariant, <1>1, PTL

-------------------------------------------------------------------------------
(* Mints against incidents and entries on rows that had moved.                *)

\* What excuses further mints of an agent.
Excused(a) == slips[a] + raced[a]

\* The mints of an agent, and what will be one when it is mined as expected.
Alive(a) == {x \in Txs : of[x] = a /\ state[x] \in {"pool", "mined"}}

\* The transaction is alive, and in this version.
Tracks(h) == h # None /\ (Pooled(h) \/ Minted(h))

\* What keeps an agent from being sent again: the hash its thread goes by, or the one
\* in its row when no thread works on it.
Known(a) ==
  /\ \A t \in Threads : Working(t, a) =>
       /\ pc[t] \in {"resolve", "bump", "bumping"} => Tracks(seen[t]) /\ seen[t] = hash[a]
       /\ pc[t] \in {"await", "bumped", "record"} => Tracks(mine[t])
       /\ pc[t] \notin {"send", "signed"}
  /\ (\A t \in Threads : ~Working(t, a)) => Tracks(hash[a])

\* More transactions than incidents are alive only by one, which is known.
Accounted(a) == \/ Cardinality(Alive(a)) <= Excused(a)
                \/ Cardinality(Alive(a)) <= 1 + Excused(a) /\ Known(a)

Explained == /\ \A a \in Agents : Accounted(a)
             /\ \A x \in Txs : state[x] = "unsent" => top[x] = 1

\* The transactions can be counted.
LEMMA AliveCounted ==
  ASSUME Typed, NEW a \in Agents
  PROVE  /\ IsFiniteSet(Alive(a)) /\ Cardinality(Alive(a)) \in Nat
         /\ Excused(a) \in Nat
<1>1. IsFiniteSet(Txs)
  BY FS_Interval, AgentsAssumption DEF Txs
<1>2. IsFiniteSet(Alive(a))
  BY <1>1, FS_Subset DEF Alive
<1> QED BY <1>2, FS_CardinalityType DEF Typed, TypedHistory, Excused

\* The same in the next state.
LEMMA AliveCountedNext ==
  ASSUME Typed', NEW a \in Agents
  PROVE  /\ IsFiniteSet(Alive(a)') /\ Cardinality(Alive(a)') \in Nat
         /\ Excused(a)' \in Nat
<1>1. IsFiniteSet(Txs)
  BY FS_Interval, AgentsAssumption DEF Txs
<1>2. IsFiniteSet(Alive(a)')
  BY <1>1, FS_Subset DEF Alive
<1> QED BY <1>2, FS_CardinalityType DEF Typed, TypedHistory, Excused

\* An agent stays accounted for when nothing comes alive, unless it is no longer known
\* what is.
LEMMA Shrunk ==
  ASSUME Typed, Typed', NEW a \in Agents, Accounted(a),
         Alive(a)' \subseteq Alive(a), Excused(a)' >= Excused(a),
         (Known(a) => Known(a)') \/ Excused(a)' > Excused(a) \/ Alive(a)' # Alive(a)
  PROVE  Accounted(a)'
<1>1. /\ Cardinality(Alive(a)') <= Cardinality(Alive(a))
      /\ Alive(a)' # Alive(a) => Cardinality(Alive(a)') < Cardinality(Alive(a))
  BY AliveCounted, AliveCountedNext, FS_Subset
<1> QED BY <1>1, AliveCounted, AliveCountedNext DEF Accounted

\* A transaction that comes alive is an incident, or the first that is known.
LEMMA Grown ==
  ASSUME Typed, Typed', NEW a \in Agents, Accounted(a), NEW x,
         Alive(a)' \subseteq Alive(a) \cup {x}, Excused(a)' >= Excused(a),
         \/ Excused(a)' > Excused(a) /\ ((Known(a) => Known(a)') \/ \E y \in Alive(a) : y \notin Alive(a)')
         \/ ~Known(a) /\ Known(a)'
  PROVE  Accounted(a)'
<1>1. ASSUME NEW S, S \subseteq Alive(a), Alive(a)' \subseteq S \cup {x}
      PROVE  Cardinality(Alive(a)') <= Cardinality(S) + 1
  <2>1. /\ IsFiniteSet(S \cup {x}) /\ Cardinality(S) \in Nat
        /\ Cardinality(S \cup {x}) \in {Cardinality(S), Cardinality(S) + 1}
    BY <1>1, AliveCounted, FS_Subset, FS_AddElement, FS_CardinalityType
  <2>2. Cardinality(Alive(a)') <= Cardinality(S \cup {x})
    BY <1>1, <2>1, FS_Subset
  <2> QED BY <2>1, <2>2, AliveCountedNext
<1>2. Cardinality(Alive(a)') <= Cardinality(Alive(a)) + 1
  BY <1>1
<1>3. ASSUME NEW y \in Alive(a), y \notin Alive(a)'
      PROVE  Cardinality(Alive(a)') <= Cardinality(Alive(a))
  <2>1. Cardinality(Alive(a) \ {y}) = Cardinality(Alive(a)) - 1
    BY <1>3, AliveCounted, FS_RemoveElement
  <2>2. Cardinality(Alive(a)') <= Cardinality(Alive(a) \ {y}) + 1
    BY <1>1, <1>3
  <2> QED BY <2>1, <2>2, AliveCounted, AliveCountedNext
<1>4. CASE \E y \in Alive(a) : y \notin Alive(a)'
  BY <1>2, <1>3, <1>4, AliveCounted, AliveCountedNext DEF Accounted
<1>5. CASE ~ \E y \in Alive(a) : y \notin Alive(a)'
  BY <1>2, <1>5, AliveCounted, AliveCountedNext DEF Accounted
<1> QED BY <1>4, <1>5

\* While the chain stands still only the threads and the row matter.
LEMMA Still ==
  ASSUME Typed, Typed', Explained, UNCHANGED chain,
         \A a \in Agents : /\ Excused(a)' >= Excused(a)
                           /\ (Known(a) => Known(a)') \/ Excused(a)' > Excused(a)
  PROVE  Explained'
<1>1. ASSUME NEW a \in Agents PROVE Accounted(a)'
  <2>1. Alive(a)' = Alive(a)
    BY DEF Alive, chain
  <2> QED BY <2>1, Shrunk DEF Explained
<1> QED BY <1>1 DEF Explained, chain

\* The same hashes are tracked.
LEMMA SameTracked == ASSUME UNCHANGED chain PROVE \A h : Tracks(h)' <=> Tracks(h)
BY DEF Tracks, Pooled, Minted, SameVersion, chain

\* A thread that takes up or gives up an agent without a word on the chain.
LEMMA ThreadsExplained ==
  ASSUME Typed, Typed', InFlightHeld, Explained, NEW t \in Threads,
         \/ \E a \in Agents : Start(t, a)
         \/ Pay(t) \/ InFlight(t) \/ Enter(t)
  PROVE  Explained'
<1> USE AgentsAssumption DEF Typed, TypedThreads, TypedHistory, Roles, Known, Working, Excused, row, threads, history, marks
<1>1. ASSUME NEW a \in Agents, Start(t, a) PROVE Explained'
  BY <1>1, Still, SameTracked DEF Start
<1>2. CASE Pay(t)
  BY <1>2, Still, SameTracked DEF Pay, Goto
<1>3. CASE InFlight(t)
  BY <1>3, Still, SameTracked DEF InFlight, Idle
<1>4. CASE Enter(t)
  <2>1. UNCHANGED <<chain, row>> /\ (\A h : Tracks(h)' <=> Tracks(h))
    BY <1>4, SameTracked DEF Enter
  <2>2. \A u \in Threads : ~Working(u, at[t])
    BY <1>4 DEF Enter, InFlightHeld
  <2>3. /\ UNCHANGED <<at, seen, mine>>
        /\ pc' = [pc EXCEPT ![t] = IF seen[t] = None THEN "send" ELSE "resolve"]
    BY <1>4 DEF Enter, Goto
  <2>4. ASSUME NEW a \in Agents, a # at[t] PROVE Excused(a)' >= Excused(a) /\ (Known(a) => Known(a)')
    BY <1>4, <2>1, <2>3, <2>4 DEF Enter
  <2>5. ASSUME NEW a \in Agents, a = at[t]
        PROVE  Excused(a)' >= Excused(a) /\ ((Known(a) => Known(a)') \/ Excused(a)' > Excused(a))
    <3>1. CASE RowMoved(t)
      BY <1>4, <2>5, <3>1 DEF Enter
    <3>2. CASE ~RowMoved(t)
      <4>1. hash[a] = seen[t] /\ Excused(a)' = Excused(a)
        BY <1>4, <2>5, <3>2 DEF RowMoved, Enter
      <4>2. Known(a) => Known(a)'
        BY <1>4, <2>1, <2>2, <2>3, <2>5, <4>1 DEF Enter, Tracks
      <4> QED BY <1>4, <4>1, <4>2 DEF Enter
    <3> QED BY <3>1, <3>2
  <2>6. \A a \in Agents : /\ Excused(a)' >= Excused(a)
                          /\ (Known(a) => Known(a)') \/ Excused(a)' > Excused(a)
    BY <2>4, <2>5
  <2> HIDE DEF Known, Typed, Excused
  <2> QED BY <2>1, <2>6, Still
<1> QED BY <1>1, <1>2, <1>3, <1>4

\* A thread that hears what became of the hash it works with.
LEMMA RepliesExplained ==
  ASSUME Typed, Typed', InFlightHeld, Explained, NEW t \in Threads, Resolve(t) \/ Await(t)
  PROVE  Explained'
<1> USE AgentsAssumption DEF Typed, TypedThreads, TypedRow, TypedHistory, Roles, InFlightHeld, Known, Working,
                             Forget, Persist, Fail, Leave, Idle, Excused, threads, history, marks
<1>1. ASSUME UNCHANGED chain PROVE \A h : Tracks(h)' <=> Tracks(h)
  BY <1>1, SameTracked
<1>2. \A h : ~Reverted(h) \/ ~Tracks(h)
  BY DEF Reverted, Tracks, Pooled, Minted
<1>3. ASSUME UNCHANGED <<chain, slips, raced>>, \A a \in Agents : Known(a) => Known(a)'
      PROVE  Explained'
  <2>1. \A a \in Agents : Excused(a)' >= Excused(a)
    BY <1>3
  <2> HIDE DEF Known, Typed, Excused
  <2> QED BY <1>3, <2>1, Still
<1>4. CASE ResolveMinted(t)
  BY <1>1, <1>3, <1>4 DEF ResolveMinted, Onward, row
<1>5. CASE ResolveReverted(t)
  BY <1>1, <1>2, <1>3, <1>5 DEF ResolveReverted
<1>6. CASE ResolveDropped(t)
  <2>1. CASE Unknown(t) /\ UNCHANGED history
    <3>1. ~Tracks(seen[t])
      BY <1>6, <2>1 DEF ResolveDropped, Unknown, GivenUp, Tracks
    <3> QED BY <1>1, <1>3, <1>6, <2>1, <3>1 DEF ResolveDropped, Onward
  <2>2. CASE Overlooked(t)
    <3>1. ASSUME NEW a \in Agents
          PROVE  Excused(a)' >= Excused(a) /\ ((Known(a) => Known(a)') \/ Excused(a)' > Excused(a))
      <4>1. CASE a = at[t]
        BY <2>2, <4>1 DEF Overlooked, Slip
      <4>2. CASE a # at[t]
        BY <1>1, <1>6, <2>2, <4>2 DEF ResolveDropped, Overlooked, Slip, Onward
      <4> QED BY <4>1, <4>2
    <3>2. UNCHANGED chain
      BY <1>6 DEF ResolveDropped
    <3> HIDE DEF Known, Typed, Excused
    <3> QED BY <3>1, <3>2, Still
  <2> QED BY <1>6, <2>1, <2>2 DEF ResolveDropped
<1>7. CASE ResolveWait(t)
  BY <1>1, <1>3, <1>7 DEF ResolveWait, row
<1>8. CASE ResolveStuck(t)
  BY <1>1, <1>3, <1>8 DEF ResolveStuck, Goto, row
<1>9. CASE ResolveFails(t)
  BY <1>1, <1>3, <1>9 DEF ResolveFails, row
<1>10. CASE Receipt(t)
  BY <1>1, <1>3, <1>10 DEF Receipt, Goto, row
<1>11. CASE ReceiptReverted(t)
  BY <1>1, <1>2, <1>3, <1>11 DEF ReceiptReverted, row
<1>12. CASE ReceiptTimeout(t)
  BY <1>1, <1>3, <1>12 DEF ReceiptTimeout
<1>13. CASE Record(t)
  BY <1>1, <1>3, <1>13 DEF Record
<1> QED BY <1>4, <1>5, <1>6, <1>7, <1>8, <1>9, <1>10, <1>11, <1>12, <1>13 DEF Resolve, Await

\* What stays tracked of an agent's own stays known.
LEMMA StillKnown ==
  ASSUME Typed, Owned, NEW a \in Agents, UNCHANGED <<row, threads>>,
         \A h \in Hashes : Owns(a, h) /\ Tracks(h) => Tracks(h)'
  PROVE  Known(a) => Known(a)'
<1>1. ASSUME NEW t \in Threads, Working(t, a)
      PROVE  /\ pc[t] \in {"resolve", "bump", "bumping"} => seen[t] \in Hashes /\ Owns(a, seen[t])
             /\ pc[t] \in {"bumped", "await", "record"} => mine[t] \in Hashes /\ Owns(a, mine[t])
  BY <1>1, AgentsAssumption DEF Typed, Roles, Owned, Working
<1>2. Tracks(hash[a]) => hash[a] \in Hashes /\ Owns(a, hash[a])
  BY DEF Tracks, Typed, TypedRow, Owned
<1>3. \A t \in Threads : Working(t, a)' <=> Working(t, a)
  BY DEF Working, threads
<1> HIDE DEF Tracks, Owns, Working
<1> QED BY <1>1, <1>2, <1>3 DEF Known, row, threads

\* A thread that moves on leaves what is known of the other agents alone.
LEMMA OthersKnown ==
  ASSUME Typed, Owned, NEW t \in Threads, NEW a \in Agents, a # at[t],
         \A u \in Threads \ {t} : /\ pc'[u] = pc[u] /\ at'[u] = at[u]
                                  /\ seen'[u] = seen[u] /\ mine'[u] = mine[u],
         at'[t] \in {at[t], None}, hash' = hash,
         \A h \in Hashes : Owns(a, h) /\ Tracks(h) => Tracks(h)'
  PROVE  Known(a) => Known(a)'
<1>1. \A u \in Threads : Working(u, a)' <=> Working(u, a)
  BY AgentsAssumption DEF Working, Typed, TypedThreads
<1>2. \A u \in Threads : Working(u, a) => u # t
  BY DEF Working
<1>3. Tracks(hash[a]) => hash[a] \in Hashes /\ Owns(a, hash[a])
  BY DEF Tracks, Typed, TypedRow, Owned
<1>4. \A u \in Threads : Working(u, a) =>
        /\ pc[u] \in {"resolve", "bump", "bumping"} => seen[u] \in Hashes /\ Owns(a, seen[u])
        /\ pc[u] \in {"bumped", "await", "record"} => mine[u] \in Hashes /\ Owns(a, mine[u])
  BY AgentsAssumption DEF Typed, Roles, Owned, Working
<1> HIDE DEF Working, Tracks, Owns
<1> QED BY <1>1, <1>2, <1>3, <1>4 DEF Known

\* What a transaction that enters the pool changes: it is alive, and what else was
\* tracked stays so with its transaction.
LEMMA EnterExplained ==
  ASSUME Typed, NEW x \in Txs, NEW n, Enters(x, n), UNCHANGED won,
         \A y \in Txs \ {x} : top'[y] = top[y] /\ of'[y] = of[y]
  PROVE  /\ \A a : Alive(a)' \subseteq Alive(a) \cup {x}
         /\ \A a : \A h \in Hashes : Owns(a, h) /\ Tracks(h) /\ h[1] # x /\ Alive(a) \subseteq Alive(a)' => Tracks(h)'
<1>1. \A y \in Txs \ {x} : state'[y] = state[y] \/ (state[y] = "pool" /\ state'[y] = "unknown")
  BY Pooling DEF Typed
<1>2. \A a : Alive(a)' \subseteq Alive(a) \cup {x}
  BY <1>1 DEF Alive
<1>3. ASSUME NEW a, NEW h \in Hashes, Owns(a, h), Tracks(h), h[1] # x, Alive(a) \subseteq Alive(a)'
      PROVE  Tracks(h)'
  <2>1. h[1] \in Txs /\ h[1] \in Alive(a)
    BY <1>3 DEF Alive, Owns, Tracks, Pooled, Minted, Hashes
  <2>2. state'[h[1]] = state[h[1]]
    BY <1>1, <1>3, <2>1 DEF Alive
  <2> QED BY <1>3, <2>1, <2>2 DEF Tracks, Pooled, Minted, SameVersion
<1> QED BY <1>2, <1>3

\* A fee bump: one transaction in a version that is known, or an incident.
LEMMA BumpExplained ==
  ASSUME Typed, Typed', InFlightHeld, Owned, Explained, NEW t \in Threads, BumpSend(t)
  PROVE  Explained'
<1> DEFINE x == seen[t][1]
<1>1. /\ x \in Txs /\ at[t] \in Agents /\ of[x] = at[t] /\ state[x] \in {"pool", "unknown"}
      /\ top' = [top EXCEPT ![x] = @ + 1] /\ top[x] \in Nat
      /\ Enters(x, slot[x]) /\ UNCHANGED <<row, of, won, raced>>
      /\ seen[t] \in Hashes /\ pc[t] = "bumping"
  BY AgentsAssumption DEF BumpSend, Typed, Roles, TypedChain, Hashes, Owned, Owns
<1>2. state'[x] = "pool" /\ \A y \in Txs : state'[y] = "unsent" => top'[y] = 1
  BY <1>1, Pooling DEF Explained, Typed, TypedChain
<1>3. /\ \A a : Alive(a)' \subseteq Alive(a) \cup {x}
      /\ \A a : \A h \in Hashes : Owns(a, h) /\ Tracks(h) /\ h[1] # x /\ Alive(a) \subseteq Alive(a)' => Tracks(h)'
  BY <1>1, EnterExplained DEF Typed, TypedChain
<1>4. \A u \in Threads \ {t} : /\ pc'[u] = pc[u] /\ at'[u] = at[u]
                                /\ seen'[u] = seen[u] /\ mine'[u] = mine[u]
  BY DEF BumpSend, Onward, Leave, Idle, Typed, TypedThreads
<1>5. at'[t] \in {at[t], None}
  BY DEF BumpSend, Onward, Leave, Idle, Typed, TypedThreads
<1>6. \A a \in Agents : Excused(a)' >= Excused(a) /\ Excused(a) \in Nat
  BY <1>1 DEF BumpSend, Slip, Excused, Typed, TypedHistory
<1>7. ASSUME NEW a \in Agents, a # at[t] PROVE Accounted(a)'
  <2>1. Alive(a)' \subseteq Alive(a)
    BY <1>1, <1>3, <1>7 DEF Alive
  <2>2. CASE Alive(a)' = Alive(a)
    <3>1. ASSUME NEW h \in Hashes, Owns(a, h), Tracks(h) PROVE Tracks(h)'
      <4>1. h[1] # x
        BY <1>1, <1>7, <3>1 DEF Owns
      <4> QED BY <1>3, <2>2, <3>1, <4>1
    <3>2. Known(a) => Known(a)'
      BY <1>1, <1>4, <1>5, <1>7, <3>1, OthersKnown DEF row
    <3> QED BY <1>6, <2>1, <3>2, Shrunk DEF Explained
  <2>3. CASE Alive(a)' # Alive(a)
    BY <1>6, <2>1, <2>3, Shrunk DEF Explained
  <2> QED BY <2>2, <2>3
<1>8. ASSUME NEW a \in Agents, a = at[t] PROVE Accounted(a)'
  <2>1. Working(t, a) /\ \A u \in Threads : Working(u, a) => u = t
    BY <1>1, <1>8 DEF InFlightHeld, Working
  <2>2. Known(a) => x \in Alive(a)
    BY <1>1, <1>8, <2>1 DEF Known, Tracks, Pooled, Minted, Alive
  <2>3. CASE Onward(t, "bumped", <<x, top[x] + 1>>)
    <3>1. pc' = [pc EXCEPT ![t] = "bumped"] /\ UNCHANGED at
      BY <2>3 DEF Onward
    <3>2. \A u \in Threads : Working(u, a)' => Working(u, a)
      BY <1>8, <2>1, <3>1 DEF Working, Typed, TypedThreads
    <3>3. Working(t, a)' /\ pc'[t] = "bumped"
      BY <1>8, <3>1 DEF Working, Typed, TypedThreads
    <3>4. ASSUME NEW h, h = <<x, top[x] + 1>> PROVE mine'[t] = h /\ Tracks(h)'
      <4>1. mine'[t] = h
        BY <2>3, <3>4 DEF Onward, Typed, TypedThreads
      <4>2. h \in Hashes
        BY <3>3, <4>1 DEF Typed, Roles
      <4>3. h[1] = x /\ h[2] = top'[h[1]] /\ state'[h[1]] = "pool" /\ h # None
        BY <1>1, <1>2, <3>4, <4>2, AgentsAssumption DEF Typed, TypedChain
      <4> QED BY <4>1, <4>3 DEF Tracks, Pooled, SameVersion
    <3>5. Tracks(mine[t])'
      BY <3>4
    <3>6. Known(a)'
      <4> HIDE DEF x
      <4> QED BY <2>1, <3>2, <3>3, <3>5 DEF Known
    <3>7. CASE Known(a)
      <4>1. Alive(a)' \subseteq Alive(a)
        BY <1>3, <2>2, <3>7
      <4> QED BY <1>6, <3>6, <4>1, Shrunk DEF Explained
    <3>8. CASE ~Known(a)
      BY <1>3, <1>6, <3>6, <3>8, Grown DEF Explained
    <3> QED BY <3>7, <3>8
  <2>4. CASE Fault /\ Slip(at[t]) /\ Leave(t)
    <3>1. Excused(a)' > Excused(a)
      BY <1>1, <1>8, <2>4 DEF Slip, Excused, Typed, TypedHistory
    <3>2. CASE Known(a)
      <4>1. Alive(a)' \subseteq Alive(a)
        BY <1>3, <2>2, <3>2
      <4> QED BY <1>6, <3>1, <4>1, Shrunk DEF Explained
    <3>3. CASE ~Known(a)
      BY <1>3, <1>6, <3>1, <3>3, Grown DEF Explained
    <3> QED BY <3>2, <3>3
  <2> QED BY <2>3, <2>4 DEF BumpSend
<1> QED BY <1>2, <1>7, <1>8 DEF Explained

\* A thread that sends: it starts from what nobody knows of, so what comes alive is
\* the first that is known, or an incident.
LEMMA SendExplained ==
  ASSUME Typed, Typed', InFlightHeld, Owned, Explained, NEW t \in Threads, Send(t)
  PROVE  Explained'
<1>1. pc[t] \in {"send", "signed"} /\ UNCHANGED row
  BY DEF Send, Unfunded, Sign, Broadcast, BroadcastFails
<1>2. \A a \in Agents : a = at[t] => ~Known(a)
  BY <1>1 DEF Known, Working
<1>3. hash' = hash
  BY <1>1 DEF row
<1>4. ASSUME UNCHANGED <<chain, slips, raced>>,
             \A u \in Threads \ {t} : /\ pc'[u] = pc[u] /\ at'[u] = at[u]
                                      /\ seen'[u] = seen[u] /\ mine'[u] = mine[u],
             at'[t] \in {at[t], None}
      PROVE  Explained'
  <2>1. ASSUME NEW a \in Agents PROVE Excused(a)' >= Excused(a) /\ (Known(a) => Known(a)')
    <3>1. CASE a = at[t]
      BY <1>2, <1>4, <3>1 DEF Excused, Typed, TypedHistory
    <3>2. CASE a # at[t]
      BY <1>3, <1>4, <3>2, OthersKnown, SameTracked DEF Excused, Typed, TypedHistory
    <3> QED BY <3>1, <3>2
  <2> QED BY <1>4, <2>1, Still
<1>5. CASE Unfunded(t)
  BY <1>4, <1>5 DEF Unfunded, Leave, Idle, Typed, TypedThreads, history, marks
<1>6. CASE Sign(t)
  BY <1>4, <1>6 DEF Sign, Typed, TypedThreads, marks
<1>7. CASE BroadcastFails(t)
  BY <1>4, <1>7 DEF BroadcastFails, Fail, Idle, Typed, TypedThreads, history, marks
<1>8. CASE Broadcast(t)
  <2>1. PICK x \in Txs :
          /\ Post(x, t)
          /\ \/ at[t] # None /\ Onward(t, "await", <<x, 1>>) /\ UNCHANGED <<memory, slips, faults>>
             \/ at[t] = None /\ Leave(t) /\ UNCHANGED <<slips, faults>>
             \/ Fault /\ Slip(at[t]) /\ Fail(t)
    BY <1>8 DEF Broadcast
  <2>2. /\ state[x] = "unsent" /\ Enters(x, nonce[t]) /\ state'[x] = "pool"
        /\ of' = [of EXCEPT ![x] = at[t]] /\ UNCHANGED <<top, won, raced>>
    BY <2>1, Pooling DEF Post, Typed
  <2>3. top[x] = 1 /\ \A y \in Txs : state'[y] = "unsent" => top'[y] = 1
    BY <2>2, Pooling DEF Explained, Typed, TypedChain
  <2>4. /\ \A a : Alive(a)' \subseteq Alive(a) \cup {x}
        /\ \A a : \A h \in Hashes : Owns(a, h) /\ Tracks(h) /\ h[1] # x /\ Alive(a) \subseteq Alive(a)' => Tracks(h)'
    BY <2>2, EnterExplained DEF Typed, TypedChain
  <2>5. \A u \in Threads \ {t} : /\ pc'[u] = pc[u] /\ at'[u] = at[u]
                                  /\ seen'[u] = seen[u] /\ mine'[u] = mine[u]
    BY <2>1 DEF Onward, Leave, Fail, Idle, Typed, TypedThreads
  <2>6. at'[t] \in {at[t], None}
    BY <2>1 DEF Onward, Leave, Fail, Idle, Typed, TypedThreads
  <2>7. ASSUME NEW a \in Agents, a # at[t] PROVE Accounted(a)'
    <3>1. Alive(a)' \subseteq Alive(a)
      BY <2>2, <2>4, <2>7 DEF Alive, Typed, TypedChain
    <3>2. Excused(a)' >= Excused(a)
      BY <2>1, <2>2, <2>7 DEF Slip, Excused, Typed, TypedHistory
    <3>3. CASE Alive(a)' = Alive(a)
      <4>1. ASSUME NEW h \in Hashes, Owns(a, h), Tracks(h) PROVE Tracks(h)'
        <5>1. h[1] # x
          BY <2>2, <4>1 DEF Owns
        <5> QED BY <2>4, <3>3, <4>1, <5>1
      <4>2. Known(a) => Known(a)'
        BY <1>3, <2>5, <2>6, <2>7, <4>1, OthersKnown
      <4> QED BY <3>1, <3>2, <4>2, Shrunk DEF Explained
    <3>4. CASE Alive(a)' # Alive(a)
      BY <3>1, <3>2, <3>4, Shrunk DEF Explained
    <3> QED BY <3>3, <3>4
  <2>8. ASSUME NEW a \in Agents, a = at[t] PROVE Accounted(a)'
    <3>1. Alive(a)' \subseteq Alive(a) \cup {x}
      BY <2>4
    <3>2. ~Known(a) /\ Accounted(a) /\ Excused(a) \in Nat
      BY <1>2, <2>8 DEF Explained, Excused, Typed, TypedHistory
    <3>3. CASE Onward(t, "await", <<x, 1>>) /\ UNCHANGED <<memory, slips, faults>>
      <4>1. pc' = [pc EXCEPT ![t] = "await"] /\ UNCHANGED at /\ Excused(a)' = Excused(a)
        BY <2>2, <3>3 DEF Onward, Excused
      <4>2. \A u \in Threads : Working(u, a)' => Working(u, a)
        BY <1>1, <2>8, <4>1 DEF Working, Typed, TypedThreads
      <4>3. \A u \in Threads : Working(u, a)' => u = t
        BY <1>1, <2>8, <4>2 DEF InFlightHeld, Working
      <4>4. Working(t, a)' /\ pc'[t] = "await"
        BY <2>8, <4>1 DEF Working, Typed, TypedThreads
      <4>5. ASSUME NEW h, h = <<x, 1>> PROVE mine'[t] = h /\ Tracks(h)'
        <5>1. mine'[t] = h
          BY <3>3, <4>5 DEF Onward, Typed, TypedThreads
        <5>2. h # None
          BY <4>4, <5>1, AgentsAssumption DEF Typed, Roles
        <5> QED BY <2>2, <2>3, <4>5, <5>1, <5>2 DEF Tracks, Pooled, SameVersion, Typed, TypedChain
      <4>6. Tracks(mine[t])'
        BY <4>5
      <4>7. Known(a)'
        BY <4>3, <4>4, <4>6 DEF Known
      <4> QED BY <3>1, <3>2, <4>1, <4>7, Grown
    <3>4. CASE Fault /\ Slip(at[t]) /\ Fail(t)
      <4>1. Excused(a)' = Excused(a) + 1
        BY <2>2, <2>8, <3>4 DEF Slip, Excused, Typed, TypedHistory
      <4> QED BY <3>1, <3>2, <4>1, Grown
    <3> QED BY <2>1, <2>8, <3>3, <3>4, AgentsAssumption
  <2> QED BY <2>3, <2>7, <2>8 DEF Explained
<1> QED BY <1>5, <1>6, <1>7, <1>8 DEF Send

\* A thread that replaces a fee, or finds that it cannot.
LEMMA ReplaceExplained ==
  ASSUME Typed, Typed', InFlightHeld, Owned, Explained, NEW t \in Threads, Replace(t)
  PROVE  Explained'
<1>1. CASE BumpSend(t)
  BY <1>1, BumpExplained
<1> USE AgentsAssumption DEF Typed, TypedThreads, TypedRow, TypedHistory, Roles, InFlightHeld, Known, Working,
                             Persist, Leave, Idle, Excused, threads, history, marks
<1>2. ASSUME UNCHANGED <<chain, slips, raced>>, \A a \in Agents : Known(a) => Known(a)'
      PROVE  Explained'
  <2>1. \A a \in Agents : Excused(a)' >= Excused(a)
    BY <1>2
  <2> HIDE DEF Known, Typed, Excused
  <2> QED BY <1>2, <2>1, Still
<1>3. CASE BumpLanded(t)
  BY <1>2, <1>3, SameTracked DEF BumpLanded
<1>4. CASE BumpRefused(t)
  BY <1>2, <1>4, SameTracked DEF BumpRefused, row
<1>5. CASE BumpRecorded(t)
  BY <1>2, <1>5, SameTracked DEF BumpRecorded
<1>6. CASE BumpLook(t)
  BY <1>2, <1>6, SameTracked DEF BumpLook, Goto, row
<1> QED BY <1>1, <1>3, <1>4, <1>5, <1>6 DEF Replace

\* A block: what was expected of a live transaction, or an incident.
LEMMA MineExplained ==
  ASSUME Typed, Typed', Owned, Explained, NEW x \in Txs, Mine(x)
  PROVE  Explained'
<1>1. PICK v \in 1..top[x], end \in {"mined", "reverted"} :
        LET asExpected == state[x] = "pool" /\ v = top[x] IN
        /\ won' = [won EXCEPT ![x] = v]
        /\ state' = [y \in Txs |-> IF y = x THEN end
                                   ELSE IF state[y] = "pool" /\ slot[y] = base THEN "unknown"
                                   ELSE state[y]]
        /\ IF asExpected THEN UNCHANGED slips ELSE Slip(of[x])
        /\ IF asExpected /\ end = "mined" THEN UNCHANGED faults ELSE Fault
  BY DEF Mine
<1>2. state[x] \in {"pool", "unknown"} /\ UNCHANGED <<row, threads, of, slot, top, raced>>
  BY DEF Mine
<1>3. /\ state'[x] \in {"mined", "reverted"} /\ won'[x] = v
      /\ \A y \in Txs \ {x} : /\ won'[y] = won[y]
                              /\ state'[y] = state[y] \/ (state[y] = "pool" /\ state'[y] = "unknown")
  BY <1>1 DEF Typed, TypedChain
<1>4. \A y \in Txs : state'[y] = "unsent" => top'[y] = 1
  BY <1>2, <1>3 DEF Explained
<1>5. \A a \in Agents : Excused(a)' >= Excused(a) /\ Excused(a) \in Nat
  BY <1>1, <1>2 DEF Slip, Excused, Typed, TypedHistory
\* What is tracked is lost only with its transaction.
<1>6. ASSUME NEW h \in Hashes, Tracks(h), h[1] # x, state'[h[1]] = state[h[1]] PROVE Tracks(h)'
  BY <1>2, <1>3, <1>6 DEF Tracks, Pooled, Minted, SameVersion, Hashes
<1>7. ASSUME NEW a \in Agents, a # of[x] PROVE Accounted(a)'
  <2>1. Alive(a)' \subseteq Alive(a)
    BY <1>2, <1>3, <1>7 DEF Alive
  <2>2. CASE Alive(a)' = Alive(a)
    <3>1. ASSUME NEW h \in Hashes, Owns(a, h), Tracks(h) PROVE Tracks(h)'
      <4>1. h[1] \in Alive(a) /\ h[1] # x
        BY <1>7, <3>1 DEF Alive, Owns, Tracks, Pooled, Minted, Hashes
      <4>2. state'[h[1]] = state[h[1]]
        BY <1>3, <2>2, <4>1 DEF Alive
      <4> QED BY <1>6, <3>1, <4>1, <4>2
    <3>2. Known(a) => Known(a)'
      BY <1>2, <3>1, StillKnown
    <3> QED BY <1>5, <2>1, <3>2, Shrunk DEF Explained
  <2>3. CASE Alive(a)' # Alive(a)
    BY <1>5, <2>1, <2>3, Shrunk DEF Explained
  <2> QED BY <2>2, <2>3
<1>8. ASSUME NEW a \in Agents, a = of[x] PROVE Accounted(a)'
  <2>1. Alive(a)' \subseteq Alive(a) \cup {x}
    BY <1>2, <1>3, <1>8 DEF Alive
  <2>2. CASE state[x] = "pool" /\ v = top[x]
    <3>1. x \in Alive(a)
      BY <1>8, <2>2 DEF Alive
    <3>2. Alive(a)' \subseteq Alive(a)
      BY <2>1, <3>1
    <3>3. CASE Alive(a)' = Alive(a)
      <4>1. state'[x] = "mined"
        BY <1>3, <3>1, <3>3 DEF Alive
      <4>2. ASSUME NEW h \in Hashes, Owns(a, h), Tracks(h) PROVE Tracks(h)'
        <5>1. CASE h[1] = x
          BY <1>2, <1>3, <2>2, <4>1, <4>2, <5>1 DEF Tracks, Pooled, Minted, SameVersion
        <5>2. CASE h[1] # x
          <6>1. h[1] \in Alive(a)
            BY <4>2 DEF Alive, Owns, Tracks, Pooled, Minted, Hashes
          <6>2. state'[h[1]] = state[h[1]]
            BY <1>3, <3>3, <5>2, <6>1 DEF Alive
          <6> QED BY <1>6, <4>2, <5>2, <6>2
        <5> QED BY <5>1, <5>2
      <4>3. Known(a) => Known(a)'
        BY <1>2, <4>2, StillKnown
      <4> QED BY <1>5, <3>2, <4>3, Shrunk DEF Explained
    <3>4. CASE Alive(a)' # Alive(a)
      BY <1>5, <3>2, <3>4, Shrunk DEF Explained
    <3> QED BY <3>3, <3>4
  <2>3. CASE ~(state[x] = "pool" /\ v = top[x])
    <3>1. Excused(a)' > Excused(a)
      BY <1>1, <1>2, <1>8, <2>3 DEF Slip, Excused, Typed, TypedHistory
    <3>2. CASE \E y \in Alive(a) : y \notin Alive(a)'
      BY <1>5, <2>1, <3>1, <3>2, Grown DEF Explained
    <3>3. CASE Alive(a) \subseteq Alive(a)' /\ state[x] = "pool"
      <4>1. Alive(a)' \subseteq Alive(a)
        BY <1>8, <2>1, <3>3 DEF Alive
      <4> QED BY <1>5, <3>1, <4>1, Shrunk DEF Explained
    <3>4. CASE Alive(a) \subseteq Alive(a)' /\ state[x] = "unknown"
      <4>1. ASSUME NEW h \in Hashes, Owns(a, h), Tracks(h) PROVE Tracks(h)'
        <5>1. h[1] \in Alive(a) /\ h[1] # x
          BY <3>4, <4>1 DEF Alive, Owns, Tracks, Pooled, Minted, Hashes
        <5>2. state'[h[1]] = state[h[1]]
          BY <1>3, <3>4, <5>1 DEF Alive
        <5> QED BY <1>6, <4>1, <5>1, <5>2
      <4>2. Known(a) => Known(a)'
        BY <1>2, <4>1, StillKnown
      <4> QED BY <1>5, <2>1, <3>1, <4>2, Grown DEF Explained
    <3> QED BY <1>2, <3>2, <3>3, <3>4
  <2> QED BY <2>2, <2>3
<1> QED BY <1>4, <1>7, <1>8 DEF Explained

\* A transaction the node drops is one less that is alive.
LEMMA DropExplained ==
  ASSUME Typed, Typed', Owned, Explained, NEW x \in Txs, Drop(x)
  PROVE  Explained'
<1>1. /\ state[x] = "pool" /\ state' = [state EXCEPT ![x] = "unknown"]
      /\ UNCHANGED <<row, threads, of, top, won, slips, raced>>
  BY DEF Drop, marks
<1>2. ASSUME NEW a \in Agents PROVE Accounted(a)'
  <2>1. Alive(a)' \subseteq Alive(a) /\ Excused(a)' >= Excused(a)
    BY <1>1 DEF Alive, Excused, Typed, TypedChain, TypedHistory
  <2>2. CASE a = of[x]
    <3>1. Alive(a)' # Alive(a)
      BY <1>1, <2>2 DEF Alive, Typed, TypedChain
    <3> QED BY <2>1, <3>1, Shrunk DEF Explained
  <2>3. CASE a # of[x]
    <3>1. \A h \in Hashes : Owns(a, h) /\ Tracks(h) => Tracks(h)'
      BY <1>1, <2>3 DEF Owns, Tracks, Pooled, Minted, SameVersion, Hashes, Typed, TypedChain
    <3>2. Known(a) => Known(a)'
      BY <1>1, <3>1, StillKnown
    <3> QED BY <2>1, <3>2, Shrunk DEF Explained
  <2> QED BY <2>2, <2>3
<1> QED BY <1>1, <1>2 DEF Explained, Typed, TypedChain

\* A restart: a thread that knew of a mint the row does not is an incident.
LEMMA CrashExplained ==
  ASSUME Typed, Typed', Explained, Crash
  PROVE  Explained'
<1>1. UNCHANGED <<chain, hash, raced>> /\ \A t \in Threads, a \in Agents : ~Working(t, a)'
  BY DEF Crash, row, Working
<1>2. ASSUME NEW a \in Agents PROVE Excused(a)' >= Excused(a) /\ ((Known(a) => Known(a)') \/ Excused(a)' > Excused(a))
  <2>1. slips'[a] = slips[a] + IF \E t \in Threads : at[t] = a /\ Unrecorded(t) THEN 1 ELSE 0
    BY DEF Crash
  <2>2. CASE \E t \in Threads : at[t] = a /\ Unrecorded(t)
    BY <2>1, <2>2, <1>1 DEF Excused, Typed, TypedHistory
  <2>3. CASE \A t \in Threads : ~(at[t] = a /\ Unrecorded(t))
    <3>1. Excused(a)' = Excused(a) /\ Excused(a) \in Nat
      BY <1>1, <2>1, <2>3 DEF Excused, Typed, TypedHistory
    <3>2. ASSUME Known(a) PROVE Tracks(hash[a])
      BY <2>3, <3>2 DEF Known, Working, Unrecorded, Typed, TypedThreads, Steps
    <3>3. Known(a) => Known(a)'
      BY <1>1, <3>2, SameTracked DEF Known
    <3> QED BY <3>1, <3>3
  <2> QED BY <2>2, <2>3
<1> QED BY <1>1, <1>2, Still

\* Every step keeps every agent accounted for.
LEMMA ExplainedStep ==
  ASSUME Typed, Typed', InFlightHeld, Owned, Explained, [Next]_vars
  PROVE  Explained'
<1>1. ASSUME NEW t \in Threads, Work(t) PROVE Explained'
  BY <1>1, ThreadsExplained, RepliesExplained, ReplaceExplained, SendExplained DEF Work
<1>2. ASSUME NEW x \in Txs, Mine(x) \/ Drop(x) PROVE Explained'
  BY <1>2, MineExplained, DropExplained
<1>3. ASSUME UNCHANGED <<hash, threads, chain, slips, raced>> PROVE Explained'
  <2>1. \A a \in Agents : Excused(a)' >= Excused(a) /\ (Known(a) => Known(a)')
    BY <1>3, SameTracked DEF Known, Working, Excused, threads, Typed, TypedHistory
  <2> QED BY <1>3, <2>1, Still
<1>4. ASSUME NEW a \in Agents, Age(a) \/ Cool(a) \/ Delete(a) PROVE Explained'
  BY <1>3, <1>4 DEF Age, Cool, Delete, row, history, marks
<1>5. CASE Reset
  BY <1>3, <1>5 DEF Reset, row, history, marks
<1>6. CASE Crash
  BY <1>6, CrashExplained
<1>7. CASE UNCHANGED vars
  BY <1>3, <1>7 DEF vars, row, history, marks
<1> QED BY <1>1, <1>2, <1>4, <1>5, <1>6, <1>7, ThreadsExplained DEF Next

\* An agent has at most one mint more than incidents that may cost one and entries
\* on a row that had moved: no timeout, fee bump, late hash or retry mints it again,
\* and a restart, a lost reply or a stale entry at most once each.
THEOREM MintsExplained == Spec => []MintsAreExplained
<1>1. Init => Explained
  <2>1. ASSUME Init, NEW a \in Agents PROVE Alive(a) = {} /\ Excused(a) = 0
    BY <2>1 DEF Init, Alive, Excused
  <2>2. Cardinality({}) = 0
    BY FS_EmptySet
  <2>3. ASSUME Init, NEW a \in Agents PROVE Accounted(a)
    <3>1. Cardinality(Alive(a)) = 0
      BY <2>1, <2>2, <2>3
    <3> QED BY <2>1, <2>3, <3>1 DEF Accounted
  <2> QED BY <2>3 DEF Init, Explained
<1>2. Invariant /\ Invariant' /\ Explained /\ [Next]_vars => Explained'
  BY ExplainedStep DEF Invariant
<1>3. Invariant /\ Explained => MintsAreExplained
  <2>1. ASSUME Invariant, Explained, NEW a \in Agents PROVE Cardinality(Mints(a)) <= 1 + slips[a] + raced[a]
    <3>1. Mints(a) \subseteq Alive(a)
      BY DEF Mints, Sent, Alive
    <3>2. Cardinality(Mints(a)) <= Cardinality(Alive(a)) /\ Cardinality(Mints(a)) \in Nat
      BY <2>1, <3>1, AliveCounted, FS_Subset, FS_CardinalityType DEF Invariant
    <3> QED BY <2>1, <3>2, AliveCounted DEF Invariant, Explained, Accounted, Excused, Typed, TypedHistory
  <2> QED BY <2>1 DEF MintsAreExplained
<1> QED BY AgentsInvariant, <1>1, <1>2, <1>3, PTL DEF Spec
===============================================================================
