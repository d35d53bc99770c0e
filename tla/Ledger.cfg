CONSTANTS
  Cycles <- MCCycles
  Messages <- MCMessages
  Swaps <- MCSwaps
  MaxTime = 2
  OpensAt <- MCOpensAt
  MaxVersions = 3
SPECIFICATION MCSpec
INVARIANTS TypeOK BalancesRebuild CarryoverExact EntriesMatchFacts EditsWaitForAnOpening
PROPERTIES SettlementExtinguishes ClosedIsBurnt
CHECK_DEADLOCK FALSE
