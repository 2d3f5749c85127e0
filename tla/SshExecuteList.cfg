SPECIFICATION Spec
CONSTANTS
    MaxId = 2
    Rows = {"alice", "bob"}
    NoRow = "no row"
    Clients = {c1}
    Operations <- ExecuteListOps
    Stored <- MCStored
    Blob <- OneBlob
    NoFile = NoFile
    MaxOps = 4
    MaxFailures = 0
    MaxCrashes = 2
PROPERTY ImplementsAtomicList
CHECK_DEADLOCK FALSE
