SPECIFICATION Spec
CONSTANTS
    p1 = p1
    NoRun = NoRun
    Pipelines = {p1}
    Runs = {r1, r2}
    PipelineOf <- RunsOfP1
    Workers = {w1, w2}
    Dispositions = {"incremental", "overwrite"}
    MaxRows = 2
    MaxFaults = 1
SYMMETRY Symmetry
INVARIANTS TypeOK CursorCovered QueuedRunAccountedFor
CHECK_DEADLOCK FALSE
