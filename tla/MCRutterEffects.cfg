SPECIFICATION Spec
CONSTANTS
  Nil = Nil
  Undeclared = Undeclared
  ok = ok
  again = again
  p1 = p1
  p2 = p2
  Evolutions <- Program
  Outcomes = {ok, again}
  Hooks = {}
  Kind <- MCKind
  Results <- MCResults
  Route <- MCRoute
  ChildStart <- MCChildStart
  HookOrder <- MCHookOrder
  HookOn <- MCHookOn
  HookStart <- MCHookStart
  Declines = {}
  AllowMultiple = {}
  MayFail = {"once", "retry"}
  MaxDepth = 2
  MaxId = 5
  Procs = {p1, p2}
  Start = "ask"
INVARIANTS
  TypeOK
  NonRepeatSafeRunsOnce
  ResultWasYielded
  AnswerFitsMessage
PROPERTIES
  HistoryGrows
  BlockedIsFinal
  NoRunAfterResult
  ImplementsLedger
CHECK_DEADLOCK FALSE
