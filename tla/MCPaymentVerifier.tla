-------------------------- MODULE MCPaymentVerifier --------------------------
(***************************************************************************)
(* Instances of PaymentVerifier for TLC.  MCTx: a transfer that pays the   *)
(* small amount, one that pays the large one, one of the wrong asset.      *)
(* MCTxKinds: one good transfer and, for each check of verify_payment, a   *)
(* transaction that fails only that check.                                 *)
(***************************************************************************)
EXTENDS PaymentVerifier, TLC

MCPayment(asset, amount) ==
  [axfer |-> TRUE, asset |-> asset, receiver |-> "backend", amount |-> amount,
   sender |-> "payer", note |-> "memo"]

MCTx == ("small" :> MCPayment("usdc", 1)) @@ ("large" :> MCPayment("usdc", 2))
          @@ ("wrongAsset" :> MCPayment("other", 2))

\* What main.py asks: the onboarding fee or the subscription, no binding.
MCCalls == [txid : Txids, amount : {1, 2}, sender : {None}, note : {None}]

\* The optional arguments as well: both, or neither.
MCBoundCalls ==
  {[txid |-> x, amount |-> 1, sender |-> b[1], note |-> b[2]] :
     x \in Txids, b \in {<<"payer", "memo">>, <<None, None>>}}

MCTxKinds ==
  LET good == MCPayment("usdc", 1) IN
  ("good" :> good)
    @@ ("notAxfer" :> [good EXCEPT !.axfer = FALSE])
    @@ ("wrongAsset" :> [good EXCEPT !.asset = "other"])
    @@ ("wrongReceiver" :> [good EXCEPT !.receiver = "payer"])
    @@ ("tooLittle" :> [good EXCEPT !.amount = 0])
    @@ ("otherSender" :> [good EXCEPT !.sender = "stranger"])
    @@ ("otherNote" :> [good EXCEPT !.note = "blank"])
=============================================================================
