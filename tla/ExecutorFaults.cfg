SPECIFICATION Spec
CONSTANTS
  j1 = j1
  j2 = j2
  k1 = k1
  Jobs = {j1}
  Executors = {e1, e2}
  Keys = {k1}
  NoKey = NoKey
  Free = Free
  NoJob = NoJob
  Key <- BothKeys
  Rank <- RankOf
  ScanLimit = 2
  MaxAttempts = 2
  Faults = {"crash", "orphan", "stop", "db", "spawn", "lock"}
  MaxFaults = 2
  Cancellable = {j1}
SYMMETRY Symmetry
INVARIANTS NoLeakedLock OwnerIsCurrent NotifiedOnce
PROPERTIES EndedIsFrozen
