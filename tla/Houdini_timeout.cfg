SPECIFICATION FairSpec
CONSTANTS
  Main = Main  P = P  Q = Q  Extra = Extra
  cReqP = cReqP  cEnsP = cEnsP  cEnsQ = cEnsQ  cInvMain = cInvMain  cShared = cShared
  NoCand = NoCand  NoCore = NoCore
  Impl <- ChainImpl  Proc <- ChainProc  ProcOf <- ChainProcOf  Calls <- ChainCalls
  Cand <- ChainCand  Annot <- ChainAnnot
  InitialAssignment <- ChainCand
  Oracles <- FewOracles
  AssumedInImpl <- InBodies
  VcgenFailures = {}
  UseCrossDependencies = FALSE
  UseUnsatCore = FALSE
  Inconclusive = {"TimeOut"}
  Incomplete = FALSE
  CoreQueryMayFail = FALSE
INVARIANT ReportedVerifiedIsValid
CHECK_DEADLOCK FALSE
