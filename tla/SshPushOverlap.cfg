SPECIFICATION Spec
CONSTANTS
    MaxId = 4
    Rows = {"alice", "bob"}
    NoRow = "no row"
    Clients = {c1, c2}
    Operations <- ScenarioListOps
    Stored <- MCStored
    Blob <- NoBlob
    NoFile = NoFile
    MaxOps = 2
    MaxFailures = 0
    MaxCrashes = 0
PROPERTY InstallsOwnTable
CHECK_DEADLOCK FALSE
