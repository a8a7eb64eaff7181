SPECIFICATION Spec
CONSTANTS
    None = None
    DefaultModel = "model"
    DefaultTokens = 100
    Templates = {"nl_to_sql", "nl_to_chart", "insights", "suggestions"}
    ProviderFaults = {"authentication", "rate_limit", "connection", "validation"}
    Measures <- MCMeasures
    Dimensions <- MCDimensions
    CubeFaults = {403, 500, None}
    CubeRows = {0, 2, 4}
    MaxQueryRows = 3
    MaxFilterValues = 2
    TenantDb = "t1"
    GovernedTables = {"sales"}
    MaxPromptRows = 2
    SqlTexts <- MCSqlTexts
    ChartTexts <- MCChartTexts
    SuggestionTexts <- MCSuggestionTexts
    Summaries <- MCSummaries
    ResultSets <- MCResultSets
    SemanticRequests <- MCSemanticRequests
    ValuesRequests <- MCValuesRequests
    DatasetColumns <- MCDatasetColumns
    Strangers = {"d3"}
    ToolReplies <- MCToolReplies
    MaxTurns = 3
    MaxToolRows = 2
INVARIANT
    ChartHasItsData
