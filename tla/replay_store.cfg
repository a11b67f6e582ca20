\* The class with every method it offers, cleanup_expired included.
SPECIFICATION StoreSpec
CONSTANTS
  Txids = {"x", "y", "z"}
  Ttl = 1
  MaxTime = 4
INVARIANTS StoreAgrees
PROPERTIES DroppedOnlyWhenAged
CHECK_DEADLOCK TRUE
