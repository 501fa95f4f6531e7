SPECIFICATION FairSpec
CONSTANTS
  Main = Main  P = P  R = R  h1 = h1  h2 = h2
  cReqP = cReqP  cEnsP = cEnsP  cInvMain = cInvMain  cInvR = cInvR
  NoCand = NoCand  NoCore = NoCore  NotRefuted = NotRefuted
  Instance = {h1, h2}
  Impl = {Main, P, R}  Proc = {Main, P, R}  ProcOf <- Itself  Calls <- MainCallsP
  Cand = {cReqP, cEnsP, cInvMain, cInvR}  Annot <- AnnotOf
  InitialAssignment = {cReqP, cEnsP, cInvMain, cInvR}
  Oracles <- CascadeOracles
  AssumedInImpl <- InBodies
  VcgenFailures = {P}
  UseCrossDependencies = FALSE
  UseUnsatCore = FALSE
  Inconclusive = {"TimeOut"}
  Incomplete = TRUE
  CoreQueryMayFail = FALSE
INVARIANT TypeOK
PROPERTIES EveryInstanceEnds
CHECK_DEADLOCK FALSE
