\* Two handlers, two institutions, two payments, a quota of two, one restart.
SPECIFICATION InstSpec
CONSTANTS
  Tasks = {t1, t2}
  t1 = t1  t2 = t2
  Txids = {"small", "large"}
  Tx <- MCTx
  Calls <- MCCalls
  UsdcAsset = "usdc"
  Receiver = "backend"
  Assets = {"usdc"}
  Accounts = {"backend", "payer"}
  Notes = {"memo"}
  None = None
  Ttl = 0
  MaxTime = 1
  Retries = 2
  MaxRestarts = 1
  InstIds = {i1, i2}
  i1 = i1  i2 = i2
  RequestIds = {r1, r2, r3}
  r1 = r1  r2 = r2  r3 = r3
  OnboardingFee = 1
  SubscriptionCost = 2
  Quota = 2
SYMMETRY MCSymmetry
INVARIANTS InstTypeOK QuotaBacked EveryPaymentAccounted StoresAgree CreditBound
