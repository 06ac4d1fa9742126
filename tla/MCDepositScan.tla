----------------------------- MODULE MCDepositScan -----------------------------
(* Two users' transactions and a sale that looks like one of them. *)
EXTENDS DepositScan

CONSTANTS ann, bob, treasury, usdc, usdt, junk

Sent(sender, token, amount) == [sender |-> sender, token |-> token, amount |-> amount]

MCPrice    == Sent(ann, usdc, 2)
MCPayloads == {<<Sent(ann, usdc, 2)>>,                         \* a top-up of the price
               <<Sent(ann, usdc, 1), Sent(ann, usdc, 1)>>,     \* in two transfers
               <<Sent(bob, usdc, 1), Sent(ann, usdt, 1)>>,     \* two tokens
               <<Sent(treasury, usdc, 1), Sent(bob, usdc, 1)>>,
               <<Sent(bob, junk, 1), Sent(bob, usdt, 0)>>}
===============================================================================
