SPECIFICATION Spec
CONSTANTS
    Bus <- MCBus
    State <- MCState
    Branch <- MCBranch
    Plant <- MCPlant
    Fuzz <- MCFuzz
    Increment <- MCIncrement
    BranchCalls <- MCBranchCalls
    PlantCalls <- MCPlantCalls
    NewBranches <- MCNewBranches
    Removals = {3, 7}
    MeshCalls <- MCMeshCalls
    Congestions <- MCCongestions
    None = None
    MaxCalls = 5
    MaxNew = 1
    MaxRefs = 2
 
INVARIANT OneIncrementPerGeneration
INVARIANT UpgradeAccountsAgree
 
CHECK_DEADLOCK FALSE
