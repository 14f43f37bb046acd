\* Two inputs written to one file while a reader comes and goes.
SPECIFICATION Spec
CONSTANTS
    OptionSpace <- MCFewOptions
    Profiles = {"balanced"}
    StreamCodecs = {0}
    AdaptiveCodecs = {}
    PackSizes = {13, 14}
    MaxOutput = 3
    SharedMin = 4
    RecursiveMin = 2
    U32Max = 4
    MaxSize = 3
    MaxWrites = 2
    Nothing = Nothing
    WholeInput = WholeInput
    Starts <- MCStarts
INVARIANT ReadFailsOnlyForKnownReasons
PROPERTY ImplementsArchive
