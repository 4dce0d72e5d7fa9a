SPECIFICATION Spec
INVARIANTS TypeOK ExecutedAtMostOnce SuccessWasExecuted
PROPERTIES NeverRevived ImplementsDispatch
SYMMETRY PollSymmetry
CONSTANTS
  r1 = r1  r2 = r2  h1 = h1  p1 = p1  p2 = p2
  NoRun = NoRun
  NoPoll = NoPoll
  Runs = {r1, r2}
  Hosts = {h1}
  HostOf <- OneHostOf
  ReadOnly = {r2}
  Polls = {p1, p2}
  PollHost <- OnePollHost
  BatchRuns = {}
  Cancels = {}
  ReadLimit = 1
  MaxRestarts = 1
  MaxCrashes = 0
CHECK_DEADLOCK FALSE
