SPECIFICATION ChainsSpec
INVARIANT NoStacking
PROPERTIES KeepsRunning NotForgotten
CONSTANTS
  often = often  rarely = rarely
  Horizon = 2
  Crons = {often, rarely}
  Occ <- TwoCrons
  Admins = {"a1"}
  Edits = {often, "backup", "enable", "disable"}
  MaxEdits = 3
  Faulty = {"read", "create", "enqueue", "write", "next", "catch"}
  MaxFailures = 1
  Handlers = {"h1", "h2"}
  MaxAttempts = 1
  MaxFaults = 1
CHECK_DEADLOCK FALSE
