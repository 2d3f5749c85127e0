SPECIFICATION Spec
CONSTANTS
    Objects = {"first", "second"}
    ProcessOf <- MCProcessOf
    Models = {"usa_tamu", "hifld", "europe_tub"}
    PypsaModels = {"europe_tub"}
    Supported = {"usa_tamu", "europe_tub"}
    RegionOf <- MCRegionOf
    PossibleOf <- MCPossibleOf
    Requests <- MCRequests
    Names = {"n1", "n2"}
    Kinds = {"demand"}
    Versions = {"v1"}
    Release = "v0.6.1"
    Times <- MCTimes
    MaxTs = 3
    Day = 4
    None = None
    Unset = Unset
    MaxErrors = 1
INVARIANT ListedIsRunnable
INVARIANT ListsAtMostOnce
INVARIANT DuplicateNameIsStale
INVARIANT ExecuteIsListed
CHECK_DEADLOCK FALSE
