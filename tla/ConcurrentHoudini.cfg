SPECIFICATION Spec
CONSTANTS
  Main = Main  P = P  R = R  h1 = h1  h2 = h2
  cReqP = cReqP  cEnsP = cEnsP  cInvMain = cInvMain  cInvR = cInvR
  NoCand = NoCand  NoCore = NoCore  NotRefuted = NotRefuted
  Instance = {h1, h2}
  Impl = {Main, P}  Proc = {Main, P}  ProcOf <- Itself  Calls <- MainCallsP
  Cand = {cReqP, cEnsP, cInvMain}  Annot <- AnnotOf
  InitialAssignment = {cReqP, cEnsP, cInvMain}
  Oracles <- DuoOracles
  AssumedInImpl <- InBodies
  VcgenFailures = {}
  UseCrossDependencies = FALSE
  UseUnsatCore = TRUE
  Inconclusive = {}
  Incomplete = FALSE
  CoreQueryMayFail = FALSE
INVARIANTS InstanceUpToDate NoInstanceLosesInductiveSet InstancesAgree
PROPERTIES AssertSiteQueued
SYMMETRY Symmetry
CHECK_DEADLOCK FALSE
