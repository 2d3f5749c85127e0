SPECIFICATION Spec
CONSTANTS
    Processes = {p1, p2}
    Files <- MCFiles
    Archives = {"networks"}
    Loads <- MCLoads
    Region = "Europe"
    Interconnects = {"Europe", "Nordic"}
    ZonesOf <- MCZonesOf
    Kinds = {"demand", "wind"}
    None = None
    MaxGrids = 3
    MaxFaults = 2
INVARIANT LoadedAloneIsComplete
INVARIANT UploadedIdsAreCanonical
PROPERTY MissingFileIsPermanent
 
CHECK_DEADLOCK FALSE
