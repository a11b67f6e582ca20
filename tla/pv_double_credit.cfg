\* Two handlers with the same transaction, no restart.
SPECIFICATION VerifierSpec
CONSTANTS
  Tasks = {t1, t2}
  t1 = t1  t2 = t2
  Txids = {"small", "large", "wrongAsset"}
  Tx <- MCTx
  Ttl = 1
  MaxTime = 2
  Retries = 2
  Calls <- MCCalls
  Accounts = {"backend", "payer"}
  Notes = {"memo"}
  MaxRestarts = 0
  UsdcAsset = "usdc"
  Receiver = "backend"
  Assets = {"usdc", "other"}
  None = None
INVARIANTS AcceptedOnce
