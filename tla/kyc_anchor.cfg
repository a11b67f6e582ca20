\* Two users, three calls, an upload, both SDKs, late confirmations and restarts.
SPECIFICATION FairSpec
CONSTANTS
  Users = {u1, u2}
  u1 = u1
  u2 = u2
  Incomes <- MCIncomes
  Documents <- MCDocuments
  SimulatedIncomes = {1}
  AadhaarIncome = 3
  UploadIds = {f1}
  f1 = f1
  MaxAnchors = 3
  None = None
INVARIANTS TypeOK RealIsConfirmed OnlyGivenUpComeLate TempFilesAccounted
PROPERTIES CallEnds
