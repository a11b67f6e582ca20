\* Two calls, two requests each, two attempts to pay each on one of two terms, three rounds.
SPECIFICATION FairSpec
CONSTANTS
  None = None
  UsdcTerms = {quoted, raised}
  AlgoTerms = {gift}
  quoted = quoted  raised = raised  gift = gift
  SendAttempts = 2
  Lifetime = 1
  MaxRound = 3
  RequestAttempts = 2
  MaxCalls = 2
INVARIANTS ChargesBounded ProofsAreOwnPayments
PROPERTIES CallReturns
CHECK_DEADLOCK FALSE
