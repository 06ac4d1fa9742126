------------------------------- MODULE PaidSale -------------------------------
(***************************************************************************)
(* What the x402 seller promises about one signed authorization, whatever  *)
(* happens between the HTTP request, the settler and the chain.            *)
(*                                                                         *)
(*   open --> void                 the seller gave the sale up; the buyer  *)
(*                                 was told that nothing is charged        *)
(*   open --> charged --> served   the transfer landed, then (never        *)
(*                                 before) the content went out            *)
(*                                                                         *)
(* A void sale is never charged, a charged one never becomes void, and the *)
(* agent's owner is paid at most once, out of a sale that was charged.     *)
(*                                                                         *)
(* One exception is granted: a sale that lapsed, one whose day ran out     *)
(* before its transfer was decided, may be wronged, given up and charged   *)
(* all the same. Also a wronged sale is charged once and served only then. *)
(***************************************************************************)
CONSTANT Auths    \* the signed authorizations, one (payer, nonce) pair each

VARIABLES sale, ownerPaid, lapsed

vars == <<sale, ownerPaid, lapsed>>

Init == /\ sale = [a \in Auths |-> "open"]
        /\ ownerPaid = [a \in Auths |-> FALSE]
        /\ lapsed = [a \in Auths |-> FALSE]

Move(a, from, to) == /\ sale[a] = from
                     /\ sale' = [sale EXCEPT ![a] = to]
                     /\ UNCHANGED <<ownerPaid, lapsed>>

GiveUp(a) == Move(a, "open", "void")

Charge(a) == Move(a, "open", "charged")

Serve(a) == Move(a, "charged", "served") \/ Move(a, "wronged", "served")

Lapse(a) == /\ sale[a] # "void"
            /\ ~lapsed[a]
            /\ lapsed' = [lapsed EXCEPT ![a] = TRUE]
            /\ UNCHANGED <<sale, ownerPaid>>

Wrong(a) == /\ lapsed[a]
            /\ Move(a, "void", "wronged") \/ Move(a, "charged", "wronged")

\* It is booked after all.
Right(a) == Move(a, "wronged", "charged")

PayOwner(a) == /\ sale[a] \in {"charged", "served", "wronged"}
               /\ ~ownerPaid[a]
               /\ ownerPaid' = [ownerPaid EXCEPT ![a] = TRUE]
               /\ UNCHANGED <<sale, lapsed>>

Next == \E a \in Auths : \/ GiveUp(a) \/ Charge(a) \/ Serve(a) \/ PayOwner(a)
                         \/ Lapse(a) \/ Wrong(a) \/ Right(a)

Spec == Init /\ [][Next]_vars
===============================================================================
