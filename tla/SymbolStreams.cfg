\* Codes of up to four bits.
SPECIFICATION Spec
CONSTANTS
    Inputs <- MCInputs
    MaxCodeBits = 4
INVARIANTS TypeOK DecoderReturnsTheInput CodesAreOptimal CodesFillTheTree
PROPERTIES CallsReturn
CHECK_DEADLOCK FALSE
