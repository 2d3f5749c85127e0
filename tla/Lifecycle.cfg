SPECIFICATION Spec
CONSTANTS
    o1 = o1
    o2 = o2
    p1 = p1
    p2 = p2
    Objects = {o1, o2}
    Processes = {p1, p2}
    ProcessOf <- TwoProcesses
    Tables = {t1}
    Empty = Empty
    None = None
    MaxId = 1
    MaxJobs = 1
    MaxMade = 2
    MaxErrors = 1
    MaxRestarts = 1
INVARIANTS TypeOK  PreparedHasInputs LeftoversAreLate
PROPERTY HalfPreparedIsPermanent
CHECK_DEADLOCK FALSE
