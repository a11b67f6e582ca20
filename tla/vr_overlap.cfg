\* Two handlers approving two requests with every kind of prover.
SPECIFICATION FairSpec
CONSTANTS
  u1 = u1  r1 = r1  r2 = r2  h1 = h1  h2 = h2
  None = None
  Users = {u1}
  RequestIds = {r1, r2}
  Handlers = {h1, h2}
  Incomes <- MCIncomes
  SimulatedIncomes = {2}
  Thresholds <- MCThresholds
  Secrets <- MCSecrets
  Width = 3
  Prime = 17
  Provers = {"binary", "http", "missing"}
  ProverFails = TRUE
INVARIANTS TypeOK ResultBacked ApprovalStillGrounded AnswersTheQuestion
PROPERTIES ResultsFinal LifecycleSpec ApprovalEnds
