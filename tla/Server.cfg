SPECIFICATION MCSpec
CONSTANTS
    EventJobs = {job1, job2}
    Readers = {reader1}
    HistoryCap = 2
    RingCap = 2
    MaxEvents = 4
    MaxStates = 3
    MaxOwed = 1
    MaxEpochs = 2
    NoCursor = NoCursor
    NoReader = NoReader
    movie = movie
    remake = remake
    video = video
    info = info
    poster = poster
    Targets = {movie, remake}
    Paths = {video, info, poster}
    Outputs <- MCOutputs
    MaxRuns = 3
    MaxAsked = 1
    MaxIncidents = 2
    NoRun = NoRun
    NoReport = NoReport
    Absent = Absent
    Owned = Owned
    Requests = {client1, client2}
    Values = {1, 2}
    Unusable = {0}
    Typed = {typed}
    EnvSecrets = {secret}
    MaxPuts = 2
    MaxRestarts = 1
    None = None
    NoWriter = NoWriter
    MaxVersion = 2
    MaxReopen = 1
    NoSnapshot = NoSnapshot
    People = {alice, bob}
    Tabs = {tab1, tab2}
    MaxTokens = 2
    Lifetime = 1
    MaxTime = 1
    NoPerson = NoPerson
    NoToken = NoToken
SYMMETRY Symmetry
INVARIANTS
    Gapless
    StatesInOrder
    NeverFirstAgain
    SecretsStayOut
    FileIsCurrent
    FreshSnapshot
    OneAdministrator
    IssuedCsrfHolds
PROPERTIES
    OwnedFilesSurvive
CHECK_DEADLOCK FALSE
