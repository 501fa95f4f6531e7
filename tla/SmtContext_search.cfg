SPECIFICATION FairSpec
CONSTANTS
    Vars <- SearchVars
    Background <- SearchBackground
    Formulas <- SearchFormulas
    AssumptionSets <- SearchAssumptions
    MaxScopes = 1
    MaxCalls = 3
    MaxDeletions = 1
INVARIANTS
    BcpComplete TrailJustified
PROPERTIES
    CallsReturn
