SPECIFICATION Spec
CONSTANTS
    Vars <- MCVars
    Formulas <- MCFormulas
    Named <- MCNamed
    AssumptionSets <- MCAssumptions
    InitInterruptible = TRUE
    HandlersRace = FALSE
    MaxScopes = 1
    MaxCalls = 4
INVARIANT
    Solver2UpToDate
