SPECIFICATION FairSpec
CONSTANTS
  Main = Main  P = P  Q = Q  Extra = Extra
  cReqP = cReqP  cEnsP = cEnsP  cEnsQ = cEnsQ  cInvMain = cInvMain  cShared = cShared
  NoCand = NoCand  NoCore = NoCore
  Impl <- FailImpl  Proc <- FailImpl  ProcOf <- FailProcOf  Calls <- FailCalls
  Cand <- ChainCand  Annot <- ChainAnnot
  InitialAssignment <- ChainCand
  Oracles <- FailOracles
  AssumedInImpl <- InBodies
  VcgenFailures = {Extra}
  UseCrossDependencies = FALSE
  UseUnsatCore = FALSE
  Inconclusive = {"TimeOut", "Undetermined"}
  Incomplete = TRUE
  CoreQueryMayFail = FALSE
INVARIANTS TypeOK GivenUpForGood EveryImplementationReported
PROPERTIES Termination
CHECK_DEADLOCK FALSE
