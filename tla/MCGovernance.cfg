CONSTANTS
    aws = aws
    okta = okta
    splunk = splunk
    h1 = h1
    h2 = h2
    h3 = h3
    t1 = t1
    t2 = t2
    ann = ann
    bob = bob
    s1 = s1
    s2 = s2
    Requests <- MCRequests
    Providers <- MCProviders
    Siems <- MCSiems
    OauthProviders <- MCOauth
    AwsProvider = aws
    Limit = 2
    Logins <- MCLogins
    Threshold = 3
    MaxGuesses = 7
    MaxDeaths = 1
    MaxTokens = 2
    Tasks <- MCTasks
    MaxKeys = 2
    MaxSyncs = 1
    Users <- MCUsers
    MaxVersions = 2
    Last = 2
    PeoplePage = 1
    MaxRows = 2
    MaxGiven = 1
    MaxSaid = 2
    MaxCopies = 3
    Orders <- MCOrders
    MaxProbes = 2
    Catalogs <- MCCatalogs
    EventCounts <- MCCounts
    Fixed = 15
    RedMin = 3
    PageSize = 2
    MaxPolls = 2
    MaxRuns = 2
    Servers <- MCServers
    SchemaColumns <- MCColumns
    Ensured <- MCEnsured
    Migrated <- MCMigrated
    MaxStarts = 3
SPECIFICATION GovernanceSpec
INVARIANTS
    GovernanceTypeOK
    ConnectionKept
    SignInKept
    TicketsAccounted
    SignOffKept
    
    SourcesTrue
CHECK_DEADLOCK FALSE
SYMMETRY MCSymmetry
