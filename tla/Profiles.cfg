SPECIFICATION Spec
CONSTANTS
    Zones = {1, 2, 3}
    Resources = {"wind", "wind_offshore", "coal"}
    Thermal = {"coal"}
    Group <- MCGroup
    Plant <- MCPlant
    NewPlants <- MCNewPlants
    ScaleCalls <- MCScaleCalls
    Share <- MCShare
    Areas <- MCAreas
    Segments = {2}
    None = None
    Hours = 3
    Interval = 2
    BaseDemand <- MCBaseDemand
    Normal <- MCNormal
    Infeasibilities <- MCInfeasibilities
    CurtailmentCalls <- MCCurtailmentCalls
    MaxCalls = 3
    DemandCalls <- MCDemandCalls
    EndUses = {"heating"}
    Techs = {"pump", "boiler"}
    ElecCalls <- MCElecCalls
    Versions <- MCVersions
    FlexCalls <- MCFlexCalls
INVARIANT SlopesAreKept
INVARIANT ProfilesMatchPlants
INVARIANT PlantsCanRun
INVARIANT SupplyCurveCostsTheRange
INVARIANT KsTestIsGreatestDifference
INVARIANT ReportedShareIsTaken
INVARIANT CurtailedIsSurplus
INVARIANT DemandEntriesAreSound
CHECK_DEADLOCK FALSE
