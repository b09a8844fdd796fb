SPECIFICATION Spec
CONSTANTS
    Ids = {1}
    Reqs = {r1, r2, r3}
    MaxRecords = 2
    MaxVersion = 5
    Backend = "sqlite"
    Faults = {"crash", "cancel", "provider", "store"}
    NoRow = NoRow
SYMMETRY Symmetry
INVARIANTS
    ApplyAtMostOnce
    AppliedMeansPushed
PROPERTIES
    StatusOrder
    NoResurrection
