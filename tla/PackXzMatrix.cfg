SPECIFICATION Spec
CONSTANTS
    Inputs <- MCInputs
    PlainSizes <- MCPlainSizes
    XzSizes <- MCXzSizes
    ModelSizes <- MCModelSizes
INVARIANT SkippingIsSafe
