SPECIFICATION SPFSpec
CONSTANTS
    d1 = d1
    d2 = d2
    d3 = d3
    ses = ses
    None = None
    Broken = Broken
    Domains <- MCDomains
    SES = ses
    Prefixes <- MCPrefixes
    Infra <- MCInfra
    Nets <- MCNets
    Currents <- MCCurrents
    Wishes <- MCWishes
    Limit = 2
    MaxDepth = 2
    MaxFaults = 1
INVARIANTS
    MergeSafe
    LimitExact
    SESExact
