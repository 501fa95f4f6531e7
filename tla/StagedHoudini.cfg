SPECIFICATION FairSpec
CONSTANTS
  Main = Main  P = P  k1 = k1  k2 = k2
  cReqP = cReqP  cEnsP = cEnsP  cInvMain = cInvMain  cInvP = cInvP
  NoCand = NoCand  None = None
  Impl = {Main, P}  Proc = {Main, P}  ProcOf <- Itself  Calls <- MainCallsP
  Cand = {cReqP, cEnsP, cInvMain, cInvP}  Annot <- AnnotOf
  Stage <- Stages  StageForCandidate <- StageOf  GetDependences <- Dependences
  Slot = {k1, k2}
  MayThrow <- Stages
  Oracles <- SafeOracles
INVARIANTS TypeOK StagedResultInductive StagedLosesNoInductiveSet
PROPERTY EndsUnlessInstancesLeak
CHECK_DEADLOCK FALSE
