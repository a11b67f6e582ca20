\* An HTTP prover that always succeeds, two requests.
SPECIFICATION Spec
CONSTANTS
  u1 = u1  r1 = r1  r2 = r2  h1 = h1
  None = None
  Users = {u1}
  RequestIds = {r1, r2}
  Handlers = {h1}
  Incomes = {1}
  SimulatedIncomes = {2}
  Thresholds = {2}
  Secrets = {4}
  Width = 3
  Prime = 17
  Provers = {"http"}
  ProverFails = FALSE
INVARIANTS ZkpGenerated
