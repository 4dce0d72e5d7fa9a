SPECIFICATION MilestonesSpec
INVARIANT FirstJoinRewarded
CONSTANTS
  TriggerIds = {1}
  Movers = {"m1"}
  Targets = {1}
  MaxPlayed = 1
  MaxSwitches = 1
  Unset = Unset
  Gone = Gone
CHECK_DEADLOCK FALSE
