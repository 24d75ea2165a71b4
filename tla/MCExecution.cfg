SPECIFICATION FairSpec
CONSTANTS
    e1 = e1
    e2 = e2
    Experiments = {e1, e2}
    Requests <- MCRequests
    Molecules <- MCMolecules
    Points <- MCPoints
    MaxIterations = 2
    Threads = 1
    MaxFailures = 1
    MaxProbes = 1
    Calibration = Calibration
    Nobody = Nobody
    Nothing = Nothing
    None = None
INVARIANTS
    SearchAmplifies
    SearchSucceeds
    PhaseIsRead
    EnergyIsExpectation
    ExecutorAccounted
PROPERTIES
    EveryTaskEnds
CHECK_DEADLOCK FALSE
