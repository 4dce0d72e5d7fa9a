SPECIFICATION FilesSpec
CONSTANTS
    Parts = {1, 2}
    Retention = 1
    MaxVersion = 2
    NoDir = NoDir
    NoTask = NoTask
    Bad = Bad
    Empty = Empty
    NoJar = NoJar
    Names = {"m1", "m2"}
    Zips <- SomeZips
    PackDefaults <- SomePack
    Edits <- SomeEdits
    FirstConfig <- First
    FirstJar = "m2"
    MaxJobs = 3
    UploadIds = {1, 2}
    Dirs = {"a"}
    Syncs = {1}
    Clerks = {1}
    MaxRows = 2
    MaxChanges = 3
    Nothing = Nothing
INVARIANTS WorldKept JarsKept SettingsCarried ArchiveWhileNeeded OperatorKept
CHECK_DEADLOCK FALSE
