SPECIFICATION Spec
CONSTANTS
    e1 = e1
    e2 = e2
    Experiments = {e1, e2}
    Requests <- MCRequests
    Molecules <- MCMolecules
    Points <- MCPoints
    MaxIterations = 2
    Threads = 1
    MaxFailures = 0
    MaxProbes = 0
    Calibration = Calibration
    Nobody = Nobody
    Nothing = Nothing
    None = None
INVARIANTS
    TextTellsOutcome
CHECK_DEADLOCK FALSE
