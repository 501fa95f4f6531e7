SPECIFICATION FairSpec
CONSTANTS
    Vars <- MCVars
    Formulas <- MCFormulas
    Named <- MCNamed
    AssumptionSets <- MCAssumptions
    InitInterruptible = FALSE
    HandlersRace = FALSE
    MaxScopes = 1
    MaxCalls = 4
INVARIANTS
    TypeOK Solver2UpToDate HandlerAlive CancelCleared AuxTimeoutConfined
PROPERTIES
    TimeoutHonoured Implements
