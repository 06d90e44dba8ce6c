SPECIFICATION Spec
CONSTANTS
  p1 = p1
  p2 = p2
  None = None
  Replica = {p1, p2}
  Requested = 20
  ThresholdNum = 1
  ThresholdDen = 2
  MinSleep = 1
  RetryInterval = 1
  LeaseDuration = 1
  BackfillTime = 1
  SignerMax = 12
  Backdate = 1
  CALife = 13
  CAMin = 12
  MaxTrouble = 1
SYMMETRY ReplicaSymmetry
INVARIANTS
  TypeOK
  RenewedInTime
  AnnotationsDescribeCertificate
PROPERTY NeverRolledBack
