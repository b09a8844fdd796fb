SPECIFICATION Spec
CONSTANTS
    t1 = t1
    t2 = t2
    i1 = i1
    s1 = s1
    s2 = s2
    Texts = {t1, t2}
    Includes = {i1}
    Prefs = {0, 10, 20}
    Spellings = {s1, s2}
    Providers = {"cloudflare", "route53", "gcdns", "godaddy", "namecheap"}
    NoVal = NoVal
    Records <- MCRecords
    MaxRecords = 2
    Zones <- MCZones
    Faults = {"get", "delete", "read", "write", "lost"}
INVARIANTS
    ResultsSafe
    AppliedExact
    DryRunPredicts
PROPERTIES
    AllOrNothing
    ConflictScopeByID
