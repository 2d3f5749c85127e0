SPECIFICATION Spec
CONSTANTS
    MaxId = 5
    Rows = {"alice", "bob"}
    NoRow = "no row"
    Processes = {p1, p2}
    Operations <- ScenarioListOps
    Query = Query
    Stored <- MCStored
    None = None
    MaxRequests = 3
PROPERTY UndisturbedUpdateIsSerial
SYMMETRY ProcessSymmetry
CHECK_DEADLOCK FALSE
