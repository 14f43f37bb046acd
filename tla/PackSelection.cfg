SPECIFICATION Spec
CONSTANTS
    Inputs <- MCInputs
    PlainSizes <- MCPlainSizes
    XzSizes <- MCXzSizes
    ModelSizes <- MCModelSizes
INVARIANTS TypeOK DecoderAcceptsHeader PackWithinEstimate NearlyNeverWorseThanRaw ProbeLoses StructuralTiersAreSafe
PROPERTIES WriteSucceeds
