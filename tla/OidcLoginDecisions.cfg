SPECIFICATION Spec
CONSTANTS
  gold = gold
  noacr = noacr
  dev = dev
  loa2 = loa2
  None = None
  Request = {r1}
  Group <- MCGroups
  Reserved <- MCReserved
  StepUpGroup = loa2
  Acr <- MCAcr
  NoAcr = noacr
  Config <- MCConfig
  MinStepUpTTL = 2
  Second = 2
  MaxDrift = 1
  MaxTime = 7
INVARIANTS TypeOK StepUpProven NotStaleTooSoon AdmittedByFinalGroups
CHECK_DEADLOCK FALSE
