\* Functions of no, two, three and four inputs.
SPECIFICATION Spec
CONSTANTS
    Calls <- MCCalls
    Formulas <- MCFormulas
INVARIANTS CoverIsTheFunction CoverIsIrredundant NeverWorseThanExact SearchKeepsAModel
PROPERTIES MinimizeReturns
CHECK_DEADLOCK FALSE
