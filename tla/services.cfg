SPECIFICATION Spec
CONSTANTS
    \* ForecastHistory
    Series = {s1, s2}
    Horizon = 1
    SaveInterval = 2
    MaxLag = 0
    Retention = 2
    WindowSize = 2
    RestoreLimit = 2
    MinSamples = 2
    MaxDelay = 1
    MaxLeadTime = 1
    MaxNow = 2
    MaxReadings = 4
    \* AgvGuard
    Vehicles = {v1, v2}
    Distances = {10, 25, 40, 100}
    StopDistance = 15
    SlowDistance = 30
    ClearDistance = 60
    MaxPoints = 2
    MaxControlQueue = 2
    MaxStamp = 2
    MaxDistances = 4
    \* PredictionTable
    Sensors = {t1}
    MinPoints = 3
    MaxSamples = 4
    MinSpan = 1
    PredictionTTL = 1
    MaxLate = 1
    MaxAhead = 1
    MaxClock = 4
    \* AnomalyCorrelation
    Streams <- MCStreams
    CorrelationWindow = 1
    MinSources = 2
    Baseline = 1
    MaxHistory = 2
    MaxSecond = 2
    MaxAnomalies = 4
    \* DeviceHealth
    StatusWords = {0, 3, 65539}
    ErrorWords = {0, 3, 5}
    SensorWords = {0, 1, 2, 3}
    FreshSeconds = 2
    MaxLateness = 2
    MaxLead = 1
    MaxHealthClock = 4
    \* RuntimeState
    Workers = {w1, w2}
    MaxItems = 2
    MaxPushes = 5
    MaxRestarts = 1
    \* DeviceKeys
    Owners = {d1, d2}
    ScopeSets = {{"ingest", "control"}, {"admin"}}
    MaxKeys = 3
    MaxUsed = 1
    \* CommandNonces
    Nonces = {n1, n2, n3}
    MaxSkew = 1
    NonceCache = 2
    Ahead = 2
    MaxReceiverClock = 6
    \* OntologyMigration
    Iris <- MCIris
    Names = {"co", "gas"}
    LocalName <- MCLocalName
    Alike <- MCAlike
    Definitions <- MCDefinitions
    FirstOntology <- MCFirst
    MaxVersionsPlanned = 2
    MaxStored = 1
    \* OpcuaFeed
    Nodes = {1, 2}
    FeedQueue = 2
    MaxVersions = 3
    MaxFeedFaults = 2
    \* FactoryFederation
    Sites = {fa, fb}
    Terms = {"co", "coLevel"}
    Alignments <- MCAlignments
    WordIn <- MCContains
    Limits = {1}
    Ranks = {1, 2}
    MaxRows = 2
    MaxMoves = 2
    \* MetaModel
    Uris <- MCUris
    NameOf <- MCNameOf
    Defined <- MCDefined
    BuiltInLimit <- MCLimit
    BuiltInThreshold <- MCThreshold
    BuiltInWarn <- MCWarn
    HistoryKept = 1
    MaxLoads = 3
    \* PrivacyExchange
    Peers = {p1, p2, p3}
    Metrics = {"co", "smoke"}
    Counts = {19, 20}
    MinCount = 20
    Epsilons = {1, 2}
    Budget = 3
    Means = {0, 1, 4}
    MaxPublishes = 3
    \* DecisionLedger
    Rules = {"fire", "gas", "co"}
    MaxRecords = 2
    MaxDecisions = 4
    MaxOccurrences = 3
    \* Admission
    Clients = {k1, k2}
    Burst = 2
    Cost = 2
    Rate = 1
    MaxMoment = 4
    MaxArrivals = 4
    MaxInFlight = 2
    \* PollChannel
    Components = {"page", "header", "chart"}
    IntervalOf <- MCInterval
    MaxVersion = 2
    MaxTicks = 5
INVARIANTS
    PredictionsAreCurrent
    HealthIsTold
    ListsAgree
    CommandsAcceptedOnce
    HistoryFollows
    FeedKeepsUp
    StatisticsStayPrivate
    LedgerCounts
    RequestsAdmittedFairly
PROPERTIES
    ForecastsSettledOnce
    VehicleObeysDistance
    AlertsCorrelated
    KeysKeepRights
    SitesAnswerAsAsked
    MetaModelTells
    ChannelServesPage
CHECK_DEADLOCK FALSE
