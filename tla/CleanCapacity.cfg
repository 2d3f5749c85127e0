SPECIFICATION Spec
CONSTANTS
    Plant <- MCPlant
    Zones = {1, 2, 3, 4}
    References <- MCReferences
    Curtailed <- MCCurtailed
    Demand <- MCDemand
    Lengths = {2}
    Questions <- MCQuestions
    None = None
    MaxRounds = 1
INVARIANT ScenarioInfoAgrees
INVARIANT ShortfallIsMet
 
CHECK_DEADLOCK FALSE
