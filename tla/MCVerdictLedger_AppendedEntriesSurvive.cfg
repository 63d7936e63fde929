CONSTANTS
  MaxEntries = 3
  MaxInterrupts = 1
SPECIFICATION Spec
INVARIANT AppendedEntriesSurvive
