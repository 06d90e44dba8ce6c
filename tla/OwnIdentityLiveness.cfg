SPECIFICATION FairSpec
CONSTANTS
  p1 = p1
  None = None
  Replica = {p1}
  Requested = 20
  ThresholdNum = 1
  ThresholdDen = 2
  MinSleep = 2
  RetryInterval = 1
  LeaseDuration = 1
  BackfillTime = 0
  SignerMax = 2
  Backdate = 0
  CALife = 3
  CAMin = 2
  MaxTrouble = 0
PROPERTY RenewedForever
