SPECIFICATION FairSpec
CONSTANTS
    p1 = p1
    NoRun = NoRun
    Pipelines = {p1}
    Runs = {r1}
    PipelineOf <- RunsOfP1
    Workers = {w1}
    Dispositions = {"incremental"}
    MaxRows = 1
    MaxFaults = 0
PROPERTY QueuedRunIsExecuted
CHECK_DEADLOCK FALSE
