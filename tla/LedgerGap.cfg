CONSTANTS
    Tenants = {acme, globex}
    MaxEntries = 4
    MaxLosses = 1
SPECIFICATION LedgerSpec
INVARIANT GapMeansDeletion
CHECK_DEADLOCK FALSE
