CONSTANTS
    acme = acme
    demo = demo
    w1 = w1
    w2 = w2
    l1 = l1
    l2 = l2
    Tenants <- MCTenants
    DemoTenants <- MCDemoTenants
    Writers <- MCWriters
    Listers <- MCListers
    SeedLinks <- MCSeedLinks
    CheckLimit = 2
    ListLimit = 2
    MaxStamp = 4
SPECIFICATION Spec
SYMMETRY MCSymmetry
INVARIANTS
    TypeOK
    LinksResolve
    SerialChainLinear
    BrokenMeansOverlap
PROPERTIES
    ProductionAppendOnly
