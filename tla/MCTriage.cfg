SPECIFICATION Spec
CONSTANTS
  Nil = Nil
  NoMark = NoMark
  r1 = r1
  r2 = r2
  r3 = r3
  m1 = m1
  m2 = m2
  Runs <- ThreeRuns
  Mails <- TwoMails
  MaxClock = 3
  Lookback = 1
  Overlapping = FALSE
SYMMETRY Alike
INVARIANTS
  TriageTypeOK
  FetchedMailKept
  FailedRunNeverAdvances
  RunAdvancesOnce
  FreshOkIsFinished
  CrashOnlyLags
CHECK_DEADLOCK FALSE
