SPECIFICATION Spec
CONSTANTS
  j1 = j1
  j2 = j2
  k1 = k1
  Jobs = {j1, j2}
  Executors = {e1, e2}
  Keys = {k1}
  NoKey = NoKey
  Free = Free
  NoJob = NoJob
  Key <- BothKeys
  Rank <- RankOf
  ScanLimit = 2
  MaxAttempts = 2
  Faults = {"late", "crash"}
  MaxFaults = 1
  Cancellable = {}
SYMMETRY Symmetry
INVARIANTS KeyExclusive OneRunPerKey RunIdFree ResultAgrees DataBeforeEnd
