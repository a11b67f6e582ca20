\* Two programs, two calls in the pool, one read; one round.
SPECIFICATION ClientSpec
CONSTANTS
  Accounts = {"a", "b"}
  Profiles = {"p"}
  MaxUint64 = 2
  Creator = "b"
  TraitIds = {"t1", "t2"}
  Commitments = {"c1", "c2"}
  ProofIds = {"p1"}
  ProofHashes = {"h"}
  Thresholds = {1}
  Verifiers = {"none", "v"}
  NoVerifier = "none"
  MaxRound = 1
  Sends <- MCSends
  MaxPending = 2
  None = None
INVARIANTS AnswersStayTrue ReadsFitTogether
