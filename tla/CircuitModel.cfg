\* Tables of up to three inputs, and graphs interned by hand.
SPECIFICATION GraphSpec
CONSTANTS
    Tables <- MCTables
    MaxTerms = 4
    MaxNodes = 5
    MaxArgs = 3
INVARIANTS InternIsTheOperation GraphIsReduced NothingIsRefused GraphIsTheTable
CHECK_DEADLOCK FALSE
