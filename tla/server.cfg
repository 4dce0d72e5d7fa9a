SPECIFICATION Spec
CONSTANTS
    NoJob = NoJob
    Requests = {r1, r2}
    OpTypes = {"SERVER_STOP", "SERVER_KILL", "SERVER_WIPE_SAVE", "SERVER_UPDATE", "ENTER_MAINTENANCE", "LEAVE_MAINTENANCE"}
    MaxOps = 1
    MaxQueue = 2
    StabilityRestart = TRUE
    MaxFaults = 1
INVARIANTS StopHolds MaintenanceQuiet
PROPERTY KeepAlive
CHECK_DEADLOCK FALSE
