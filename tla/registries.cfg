\* Two accounts, two traits, two proofs, two rounds.
SPECIFICATION Spec
CONSTANTS
  Accounts = {"a", "b"}
  Profiles = {"p"}
  MaxUint64 = 2
  Creator = "a"
  TraitIds = {t1, t2}
  t1 = t1  t2 = t2
  Commitments = {c1, c2}
  c1 = c1  c2 = c2
  ProofIds = {p1, p2}
  p1 = p1  p2 = p2
  ProofHashes = {"h"}
  Thresholds = {1, 2}
  Verifiers = {NoVerifier, v}
  NoVerifier = NoVerifier  v = v
  MaxRound = 1
SYMMETRY MCSymmetry
INVARIANTS TypeOK AnchorCountExact VerifiedHasAnchor
PROPERTIES AnchorsImmutable OnlyActiveWrite
