\* Two pushes that overlap at the apex, with every provider and fault.
SPECIFICATION Spec
CONSTANTS
    r1 = r1
    r2 = r2
    i1 = i1
    i2 = i2
    Reqs = {r1, r2}
    Asks <- MCAsks
    Texts = {t1}
    Includes = {i1, i2}
    Prefs = {0, 10}
    Spellings = {s1, s2}
    Providers = {"cloudflare", "route53", "gcdns", "godaddy", "namecheap"}
    Faults = {"get", "read", "write", "lost"}
    NoVal = NoVal
SYMMETRY Symmetry
INVARIANTS
    PushSafe
PROPERTIES
    Idempotent
    SiblingsKept
    NeverEmptied
