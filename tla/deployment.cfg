\* Two versions of one registry, one listing order, at most three applications.
SPECIFICATION Spec
CONSTANTS
  Versions = {v1, v2}
  v1 = v1  v2 = v2
  Editable = {"identity_registry"}
  Orders <- MCOrders
  Named = {"identity_registry", "truth_registry"}
  MaxApps = 3
  None = None
INVARIANTS ArtifactsPaired LinkedToNewest NoRedundantApp FundedOnce
SYMMETRY MCSymmetry
