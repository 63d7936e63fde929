CONSTANTS
  MaxEntries = 5
  MaxInterrupts = 3
SPECIFICATION Spec
INVARIANTS TypeOK LoadsInOrder LossBounded CacheCoversFile
PROPERTY ImplementsLedgerFile
