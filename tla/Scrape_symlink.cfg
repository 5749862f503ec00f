SPECIFICATION SpecAlgorithms
CONSTANTS
    local = local
    tmdb = tmdb
    bangumi = bangumi
    Local = local
    NetworkNeeded = {tmdb, bangumi}
    Unknown = Unknown
    NoAnswer = NoAnswer
    Norm <- MCNorm
    NoRuntime = NoRuntime
    Requests <- MCRequests
    Providers <- MCProviders
    Supports <- MCSupports
    Answers <- MCAnswers
    Documents <- MCDocuments
    Exact = Exact
    NoPlan = NoPlan
    MaxCandidates = 3
    MaxWarnings = 2
    Named <- MCNamed
    Leading <- MCLeading
    SeasonOf <- MCSeasonOf
    NoExtension = NoExtension
    Refused = Refused
    FolderSeason <- MCFolderSeason
    FolderDisc <- MCFolderDisc
    NoDocument = NoDocument
    Nowhere = Nowhere
    Barred = Barred
    GroupSamples <- MCGroupSamples
    MergeSamples <- MCMergeSamples
    PlanSamples <- MCPlanSamples
    Titles <- MCTitles
    Templates <- MCTemplates
    Creators <- MCCreators
    ScanSamples <- MCScanSamples
    TreeSamples <- MCTreeSamples
    Names <- MCNames
    RelativePaths <- MCRelativePaths
    Outputs <- MCOutputs
    Sources <- MCSources
    Targets <- MCTargets
    Changes <- MCChanges
    Fresh <- MCFresh
    Items <- MCItems
INVARIANT
    SymlinkJobsArePlanned
CHECK_DEADLOCK FALSE
