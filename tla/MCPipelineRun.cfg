CONSTANTS
    acme = acme
    zen = zen
    mttd = mttd
    cve = cve
    c1 = c1
    c2 = c2
    boot = boot
    tick = tick
    Tenants <- MCTenants
    Metrics <- MCCveOnly
    CveMetric = cve
    Cves <- MCCves
    Catalogs <- MCCatalogs
    Runners <- MCRunners
    Scheduled <- MCScheduled
    MaxRuns = 2
SPECIFICATION Spec
INVARIANTS
    TypeOK
    RiskOpenedOnce
    MissedAlertExplained
    PagedIsRecorded
PROPERTIES
    RunEnds
