SPECIFICATION FairSpec
CONSTANTS
    i1 = i1  i2 = i2
    background = background  shared = shared  s1 = s1  s2 = s2  constants = constants
    Impl = {i1, i2}
    Symbol = {background, shared, s1, s2, constants}
    Prelude = {background}
    Constants = {constants}
    SymbolsOf <- TwoSymbols
    ProverCCLimit = 2
    UseUnsatCore = TRUE
    MaxQueries = 6
    MaxDeaths = 3
    Limits = {"TimeOut", "OutOfMemory"}
    RestartProverPerVC = FALSE
INVARIANTS
    TypeOK NothingLeftBehind ValidIsSound DeclarationsKnown TwoLostPerDeath
PROPERTIES
    CallsReturn
CHECK_DEADLOCK FALSE
