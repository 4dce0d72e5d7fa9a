SPECIFICATION FairSpec
INVARIANTS MutationsExclusive HeldMutationNeverWaits
PROPERTIES RunningSettles QueueDrains
CONSTANTS
  r1 = r1  r2 = r2  h1 = h1  p1 = p1  p2 = p2
  NoRun = NoRun
  NoPoll = NoPoll
  Runs = {r1, r2}
  Hosts = {h1}
  HostOf <- OneHostOf
  ReadOnly = {}
  Polls = {p1}
  PollHost <- OnePollHost
  BatchRuns = {}
  Cancels = {}
  ReadLimit = 1
  MaxRestarts = 0
  MaxCrashes = 1
CHECK_DEADLOCK FALSE
