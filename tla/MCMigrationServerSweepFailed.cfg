SPECIFICATION FairSpec
CONSTANTS
    Ids = {1, 2}
    Reqs = {r1}
    MaxRecords = 1
    MaxVersion = 4
    Backend = "json"
    Faults = {"provider"}
    NoRow = NoRow
PROPERTY
    ExpiredRowsSwept
