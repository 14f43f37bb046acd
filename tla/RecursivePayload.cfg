CONSTANTS
    ByteBits = 2
    FieldBytes = 1
    MaxFrameBytes = 2
    HashBudgets <- MCBudgets
    Inputs <- MCInputs
    Deflates <- MCDeflates
    Preflated <- MCPreflated
    Plans <- MCPlans
    Codecs <- MCCodecs
    Splits <- MCSplits
    MinBlockBytes = 2
    MinTransformBytes = 5
    MaxWidth = 2
    CandidateWidths <- MCWidths
    MaxSieveValue = 12
    ChunkSizes <- MCChunkSizes
    TensorNames <- MCTensorNames
    MinTensorBytes = 2
    MinSplitBytes = 5
    Circuits <- MCCircuits
    MaxWrites = 5
SPECIFICATION MCSpec
INVARIANTS DecoderAccepts DecodedIsTheInput RunEndsWhereItMust SizeIsPredicted ReferencesAgree
CHECK_DEADLOCK FALSE
