CONSTANTS
    Routes = {"clusters", "preview"}

    Filters = {"write"}
    All = All
    PageSize = 1
    MaxRows = 2
    MaxLogRequests = 2
    Unasked = Unasked

    RuleNames = {"a", "b"}
    New = New
    NoForm = NoForm
    MaxAlertRequests = 2

    Ids = {"a", "b"}
    MaxTokens = 2
    MaxTokenRequests = 2
    NoToken = NoToken

    ClusterNames = {"a"}
    NoCluster = NoCluster
    MaxPolls = 2
    MaxClusterWrites = 1

    ReportTypes = {"vulnerabilityreport", "sbomreport"}
    FilterClusters = {"a"}
    Namespaces = {"x"}
    NamespacesOf <- MCNamespacesOf
    UrlFilters <- MCUrlFilters
    Unfiltered = Unfiltered
    NoAnswer = NoAnswer
    MaxReportRequests = 2

    Texts = {"x", "y"}
    Suggested <- MCSuggested
    Blank = Blank
    Invalid = Invalid
    MaxSearchRequests = 2

    Views = {"1d", "7d"}
    RefreshInterval = 3
    NoTrend = NoTrend
    MaxTrendRequests = 2

    Matchers = {"x", "y", "z"}
    NotReady = NotReady
    MaxPreviews = 3

SPECIFICATION AppSpec

INVARIANT
    EvaluationEnds

PROPERTIES
    ClustersSettle
    PreviewIsViewing
