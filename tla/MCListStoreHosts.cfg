SPECIFICATION Spec
CONSTANTS
  Nil = Nil
  a = a
  b = b
  c = c
  s = s
  t = t
  here = here
  there = there
  Callers = {a, b}
  Setups = {s}
  Guarded = {a, b}
  Hosts = {here, there}
  HostOf <- MCHostOf
  FileHost = here
  MaxFaults = 0
PROPERTIES
  SavedFirstRejects
CHECK_DEADLOCK FALSE
