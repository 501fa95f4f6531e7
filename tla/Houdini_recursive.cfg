SPECIFICATION FairSpec
CONSTANTS
  Main = Main  P = P  Q = Q  Extra = Extra
  cReqP = cReqP  cEnsP = cEnsP  cEnsQ = cEnsQ  cInvMain = cInvMain  cShared = cShared
  NoCand = NoCand  NoCore = NoCore
  Impl <- RecImpl  Proc <- RecProc  ProcOf <- RecProcOf  Calls <- RecCalls
  Cand <- RecCand  Annot <- RecAnnot
  InitialAssignment <- RecCand
  Oracles <- RecOracles
  AssumedInImpl <- InBodies
  VcgenFailures = {}
  UseCrossDependencies = TRUE
  UseUnsatCore = TRUE
  Inconclusive = {}
  Incomplete = FALSE
  CoreQueryMayFail = FALSE
INVARIANTS VerifiedUpToDate UnsatCoreSuffices LosesNoInductiveSet DecidesExistence
PROPERTIES Termination ImplementsFixpoint
CHECK_DEADLOCK FALSE
