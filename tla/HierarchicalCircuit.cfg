\* Leaves of up to three inputs, three probes; words of 6 bits: the code's factor,
\* increment and seed modulo 2^6 (the low bits of a state depend on low bits only).
SPECIFICATION Spec
CONSTANTS
    Functions <- MCFunctions
    LeafBudget = 3
    ProbeCount = 3
    MaxInputs = 6
    WordBits = 6
    ProbeFactor = 45
    ProbeIncrement = 15
    ProbeSeed = 62
INVARIANTS TypeOK CoverIsMinimum SearchKeepsAMinimum ExactButForDropped FailsOnlyForWantOfAVariable
PROPERTIES DecomposeReturns
CHECK_DEADLOCK FALSE
