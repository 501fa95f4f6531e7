SPECIFICATION FairSpec
CONSTANTS
    Vars <- ScopesVars
    Background <- ScopesBackground
    Formulas <- ScopesFormulas
    AssumptionSets <- ScopesAssumptions
    MaxScopes = 1
    MaxCalls = 6
    MaxDeletions = 1
INVARIANTS
    TypeOK DatabaseSound FormulasRepresented
PROPERTIES
    Implements
