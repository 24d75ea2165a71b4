SPECIFICATION Spec
CONSTANTS
    e1 = e1
    e2 = e2
    Experiments = {e1, e2}
    Energies = {0, 1}
    b1 = b1
    Backends = {b1}
    Rates = {0, 7}
    WindowSize = 2
    MaxPublished = 4
    MaxWindows = 2
    MaxFaults = 1
    NoOffset = NoOffset
    Nothing = Nothing
SYMMETRY ExperimentSymmetry
INVARIANTS
    SnapshotsAreSound
    RowsAccounted
    WindowIsRecent
CHECK_DEADLOCK FALSE
