CONSTANTS
    founder = founder
    ann = ann
    bob = bob
    h1 = h1
    h2 = h2
    trial = trial
    growth = growth
    splunk = "Splunk"
    socket1 = socket1
    acme = acme
    globex = globex
    People <- MCPeople
    Founder = founder
    Handlers <- MCHandlers
    Plans <- MCPlans
    Trial = trial
    Seats <- MCSeats
    Events <- MCEvents
    Kind <- MCKind
    PlanOf <- MCPlanOf
    MaxFailures = 1
    Boot = boot
    Tick = tick
    Requests <- MCRequests
    Sockets <- MCSockets
    SiemTypes <- MCSiemTypes
    MaxUploads = 2
    MaxSources = 1
    MaxFaults = 1
    Tenants <- MCTenants
    MaxEntries = 4
    MaxLosses = 2
SPECIFICATION PlatformSpec
INVARIANTS
    PlatformTypeOK
    SeatsBounded
    EventsTakeEffect
    ShownTrue
PROPERTY Settles
