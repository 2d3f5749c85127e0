SPECIFICATION Spec
CONSTANTS
    MaxId = 6
    Rows = {"alice", "bob"}
    NoRow = "no row"
    Clients = {c1, c2}
    Operations <- ScenarioListOps
    Stored <- MCStored
    Blob <- OneBlob
    NoFile = NoFile
    MaxOps = 3
    MaxFailures = 1
    MaxCrashes = 1
INVARIANT PushInvariant
PROPERTIES ExclusiveCommitIsSerial AddKeepsEveryEntry WedgedForever
SYMMETRY ClientSymmetry
CHECK_DEADLOCK FALSE
