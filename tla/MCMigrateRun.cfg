SPECIFICATION FairSpec
CONSTANTS
    a = a
    b = b
    v1 = v1
    v2 = v2
    Texts = {v1, v2}
    lc = lc
    Includes = {}
    Prefs = {0, 10}
    Spellings = {lc}
    Providers = {"cloudflare", "route53", "gcdns", "godaddy", "namecheap"}
    NoVal = NoVal
    Names = {a, b}
    Sources <- MCSources
    Starts <- MCStarts
    MaxRecords = 3
    MaxRuns = 2
    Faults = {"source", "ensure", "set", "lost", "cancel"}
INVARIANTS
    ReportExact
    MatchedIsServed
    OneZone
PROPERTIES
    DryRunSpares
    Terminates
CHECK_DEADLOCK FALSE
