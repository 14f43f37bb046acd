\* One input of up to five bytes, every mode of the container.
SPECIFICATION Spec
CONSTANTS
    OptionSpace <- MCOptions
    Profiles = {"fast", "deep"}
    StreamCodecs = {5}
    AdaptiveCodecs <- MCAdaptive
    PackSizes = {13}
    MaxOutput = 4
    SharedMin = 3
    RecursiveMin = 2
    U32Max = 4
    MaxSize = 5
    MaxWrites = 1
    Nothing = Nothing
    WholeInput = WholeInput
    Starts <- MCStarts
INVARIANTS TypeOK ReaderGetsTheInput ReadFailsOnlyForKnownReasons NoReplayBeforeKeyPiece
PROPERTIES WriterReturns ImplementsArchive
