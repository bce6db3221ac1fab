CONSTANTS
    acme = acme
    s1 = s1
    s2 = s2
    startup = startup
    r1 = r1
    reader1 = reader1
    Tenants <- MCTenants
    Schedules <- MCSchedules
    Runs <- MCRuns
    Startup = startup
    Readers <- MCReaders
    ScheduleTenant <- MCScheduleTenant
    MaxRestarts = 1
SPECIFICATION Spec
CHECK_DEADLOCK FALSE
INVARIANT GeneratedVerifies
