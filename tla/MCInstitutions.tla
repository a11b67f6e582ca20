---------------------------- MODULE MCInstitutions ----------------------------
(***************************************************************************)
(* Instances of Institutions for TLC: a fee of 1 for onboarding, 2 for the *)
(* subscription, and transfers that pay one or both.                       *)
(***************************************************************************)
EXTENDS Institutions, TLC

MCPayment(amount) ==
  [axfer |-> TRUE, asset |-> "usdc", receiver |-> "backend", amount |-> amount,
   sender |-> "payer", note |-> "memo"]

MCTx == [x \in Txids |-> MCPayment(IF x = "small" THEN 1 ELSE 2)]

MCCalls == [txid : Txids, amount : {OnboardingFee, SubscriptionCost},
            sender : {None}, note : {None}]

MCSymmetry == Permutations(InstIds) \cup Permutations(RequestIds) \cup Permutations(Tasks)
=============================================================================
