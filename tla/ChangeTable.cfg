SPECIFICATION Spec
CONSTANTS
    Zones <- GridZones
    Interconnect <- GridInterconnect
    Types <- GridTypes
    Bus <- GridBus
    Branch <- GridBranch
    Dcline <- GridDcline
    Plant <- GridPlant
    Storage <- GridStorage
    NewBuses <- SomeBuses
    NewLines <- SomeLines
    NewPlants <- SomePlants
    Scalings = {0}
    Clearable = {"all", "branch", "bus", "dcline", "plant", "storage"}
    MaxCalls = 4
INVARIANTS
    TypeOK
    NothingDangles
    ComplaintsAreExplained
    FailsInFourWays
PROPERTIES
    IdsKeepTheirMeaning
    
CHECK_DEADLOCK FALSE
