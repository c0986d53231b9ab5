CONSTANTS
  ac1 = ac1  ac2 = ac2  cell = cell
  NModels = 2
  MaxRetries = 1
  MaxTurns = 3
  MaxCost = 3
  MaxUses = 2
  MaxRejections = 1
  MaxRuns = 2
  Prices <- twoPrices
  ACs <- acPair
  Cells <- oneCell
  Manifests <- threeWorkers
  Scenes <- scenesOfAll
SPECIFICATION Spec
INVARIANTS NothingSpentUnseen NarrowedByAnswerOnly FloorKept CompletedCovers
PROPERTY BudgetKept
CHECK_DEADLOCK FALSE
