\* Two calls of ProcessRecords after one another, templates of up to three records.
SPECIFICATION Spec
CONSTANTS
    Texts <- MCTexts
    InitZones <- MCInitZones
    Plans <- MCPlans
    Backing <- MCBacking
    Free = Free
    Drawn <- MCDrawn
    Parts <- MCParts
    Heads <- MCHeads
    Tails <- MCTails
INVARIANTS
    ZoneSafe
    Installed
    Spared
    ServiceReplaced
PROPERTIES
    Idempotent
CHECK_DEADLOCK FALSE
