SPECIFICATION Spec
CONSTANTS
    o1 = o1
    o2 = o2
    p1 = p1
    p2 = p2
    Objects = {o1}
    Processes = {p1}
    ProcessOf <- OneProcess
    Tables = {t1, t2}
    Empty = Empty
    None = None
    MaxId = 1
    MaxJobs = 1
    MaxMade = 2
    MaxErrors = 0
    MaxRestarts = 0
INVARIANT ObjectHasItsTable
CHECK_DEADLOCK FALSE
