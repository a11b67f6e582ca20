\* One handler at a time, every kind of transaction, one restart.
SPECIFICATION VerifierFairSpec
CONSTANTS
  Tasks = {t1}
  t1 = t1
  Txids = {"good", "notAxfer", "wrongAsset", "wrongReceiver", "tooLittle", "otherSender", "otherNote"}
  Tx <- MCTxKinds
  Ttl = 0
  MaxTime = 1
  Retries = 2
  Calls <- MCBoundCalls
  Accounts = {"backend", "payer", "stranger"}
  Notes = {"memo", "blank"}
  MaxRestarts = 1
  UsdcAsset = "usdc"
  Receiver = "backend"
  Assets = {"usdc", "other"}
  None = None
INVARIANTS VerifierTypeOK AcceptedIsPaidAndSpent NoPaymentBurnt
PROPERTIES EveryCallReturns
