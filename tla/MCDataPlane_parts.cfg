SPECIFICATION Spec
CONSTANTS
    None = None
    Empty = Empty
    Nothing = Nothing
    NoObject = NoObject
    Parts = {"data", "mail", "gate", "catalog"}
    MaxQueryRows = 2
    MaxUpload = 1
    Datasets = {"d1", "d2"}
    Ready = {"d1"}
    Requests <- MCRequests
    Files <- MCFiles
    TagSets <- MCTagSets
    Messages = {m1, m2}
    MaxClock = 1
    Seconds = {0}
    MaxRetries = 3
    MaxFaults = 2
    ReportRows <- MCReportRows
    DagsterRuns = {a, b}
    Seeds = {"good", "twice", "negative"}
    Assets <- MCAssets
    Registries <- MCRegistries
    CatalogRuns = {x, y}
    PipelineRows <- MCPipelineRows
    ModelRows <- MCModelRows
SYMMETRY Symmetry
INVARIANTS TypeOK IngestedIsWhole MailsAreExplained ServedWentThroughTheGate LineageIsWhole
CHECK_DEADLOCK FALSE
