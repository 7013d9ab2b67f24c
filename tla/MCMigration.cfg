CONSTANT MaxCrashes = 4
SPECIFICATION FairSpec
INVARIANT MigrationInv
PROPERTY ComesUp
CHECK_DEADLOCK FALSE
