SPECIFICATION FairSpec
CONSTANTS
    p1 = p1
    NoRun = NoRun
    Pipelines = {p1}
    Runs = {r1}
    PipelineOf <- RunsOfP1
    Workers = {w1, w2}
    Dispositions = {"incremental"}
    MaxRows = 2
    MaxFaults = 1
PROPERTY ReadRunIsSettled
CHECK_DEADLOCK FALSE
