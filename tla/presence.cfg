SPECIFICATION MCSpec
INVARIANTS SessionsMatch
PROPERTIES GoneSettles ShownSettles
CONSTANTS
  Ids = {1, 2, 3}
  NoRow = NoRow
  MaxOpen = 1
  MaxBacklog = 2
  MaxActive = 2
  Servers = {s1, s2}
  First = s1
  OpenPages = {"hosts", "schedules", "triggers", "server", "players", "mods"}
  MaxAsks = 2
  MaxChanges = 2
  Blank = Blank
