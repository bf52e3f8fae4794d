SPECIFICATION FairSpec
CONSTANTS
  Nil = Nil
  Undeclared = Undeclared
  ok = ok
  again = again
  lost = lost
  review = review
  skip = skip
  audit = audit
  notify = notify
  deep = deep
  tail = tail
  p1 = p1
  p2 = p2
  Evolutions <- Program
  Outcomes = {ok, again, lost}
  Hooks = {review, skip, audit, notify, deep, tail}
  Kind <- MCKind
  Results <- MCResults
  Route <- MCRoute
  ChildStart <- MCChildStart
  HookOrder <- MCHookOrder
  HookOn <- MCHookOn
  HookStart <- MCHookStart
  Declines <- MCDeclines
  AllowMultiple = {"ask", "call", "retry", "once", "done"}
  MayFail = {"call", "check", "done", review, notify}
  MaxDepth = 3
  MaxId = 25
  Procs = {p1, p2}
  Start = "ask"
INVARIANTS
  Publishable
  HooksRunBeforeTarget
  ReleasedAtRest
PROPERTIES
  AutomaticWorkSettles
  AnsweredEnds
CHECK_DEADLOCK FALSE
