SPECIFICATION Spec
CONSTANTS
    n1 = n1
    n2 = n2
    n3 = n3
    n4 = n4
    Names = {n1, n2, n3, n4}
    Labels <- MCLabels
    Zones <- MCZones
    Apex = n4
    Odd = {n3}
    Long = {n2}
    Servers = 2
    MaxDepth = 1
    MaxFaults = 2
    Outside = Outside
INVARIANTS
    ScrapeSafe
    NothingLost
    RoundTrip
PROPERTIES
    Terminates
