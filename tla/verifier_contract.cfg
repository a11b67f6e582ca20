\* Two accounts, three proofs, two public inputs, five ids of which two can be confirmed.
SPECIFICATION Spec
CONSTANTS
  Accounts = {a1, a2}
  a1 = a1  a2 = a2
  Proofs <- MCProofs
  Inputs <- MCInputs
  Batches <- MCBatches
  PairSizes = {95, 96}
  Thresholds = {1, 2}
  Rounds = {1}
  IdSize = 3
  MaxUint64 = 3
  None = None
INVARIANTS BoxesAgree CountCoversVerified
PROPERTIES AnswersStand
SYMMETRY MCSymmetry
