SPECIFICATION Spec
CONSTANTS
  a = a
  b = b
  c = c
  s = s
  t = t
  Testcases <- MCTestcases
  Entries <- MCEntries
  MaxValue = 3
  Covers <- MCCovers
  Flaky <- MCFlaky
  stage_max = 3
  CAL_STAGE_MAX = 3
CHECK_DEADLOCK FALSE
INVARIANTS
  TypeOK
  CoveredInSync
  OnlyFlakyDisabled
  ReportedIsSound
