SPECIFICATION FairSpec
CONSTANTS
  Nil = Nil
  a = a
  b = b
  c = c
  s = s
  t = t
  here = here
  there = there
  Callers = {a, b, c}
  Setups = {s, t}
  Guarded = {a, b}
  Hosts = {here, there}
  HostOf <- MCHostOf
  FileHost = here
  MaxFaults = 1
INVARIANTS
  SavedChangesStay
  RevisionNamesVersion
  GuardedOnce
  GuardHolds
PROPERTIES
  ChangesSettle
CHECK_DEADLOCK FALSE
