------------------------------- MODULE PaidOrder -------------------------------
(***************************************************************************)
(* What the CELO lane promises about orders and on-chain transfers.        *)
(*                                                                         *)
(*   open --> void                  nobody paid in time                    *)
(*   open --> paid --> delivered    by one transfer, kept for good         *)
(*                                                                         *)
(* One transfer pays for at most one order, an order keeps the transfer it *)
(* was paid with, and nothing is delivered that was not paid.              *)
(***************************************************************************)
CONSTANTS Orders, Transfers, None

VARIABLES state,     \* [Orders -> {"open", "void", "paid", "delivered"}]
          payment    \* the transfer an order was paid with, or None

vars == <<state, payment>>

Init == /\ state = [o \in Orders |-> "open"]
        /\ payment = [o \in Orders |-> None]

Void(o) == /\ state[o] = "open"
           /\ state' = [state EXCEPT ![o] = "void"]
           /\ UNCHANGED payment

Pay(o, x) == /\ state[o] = "open"
             /\ \A p \in Orders : payment[p] # x
             /\ state' = [state EXCEPT ![o] = "paid"]
             /\ payment' = [payment EXCEPT ![o] = x]

Deliver(o) == /\ state[o] = "paid"
              /\ state' = [state EXCEPT ![o] = "delivered"]
              /\ UNCHANGED payment

Next == \E o \in Orders : Void(o) \/ Deliver(o) \/ \E x \in Transfers : Pay(o, x)

Spec == Init /\ [][Next]_vars
===============================================================================
