SPECIFICATION Spec
CONSTANTS
    OptionSpace <- MCOptions
    Profiles = {"fast", "deep"}
    StreamCodecs = {0, 5}
    AdaptiveCodecs <- MCAdaptive
    PackSizes = {13}
    MaxOutput = 5
    SharedMin = 3
    RecursiveMin = 2
    U32Max = 4
    MaxSize = 5
    MaxWrites = 1
    Nothing = Nothing
    WholeInput = WholeInput
    Starts <- MCStarts
INVARIANT RestartNeedsNoHistory
