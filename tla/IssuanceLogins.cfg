SPECIFICATION Spec
CONSTANTS
  alice = alice
  r1 = r1
  r2 = r2
  ca1 = ca1
  ca2 = ca2
  Req = {r1, r2}
  User = {alice}
  UserOf <- MCUserOf
  Ca = {ca1, ca2}
  None = None
  Garbled = Garbled
  Durations = {1, 3, 9}
  Second = 2
  MaxSeconds = 3
  MinSeconds = 1
  SignerMax = 3
  Patience = 1
  MaxTime = 2
  MaxRestarts = 1
SYMMETRY LoginSymmetry
INVARIANTS RefusedForCause CsrsCleanedUp CaOfCluster WithinAsked
PROPERTY Minted
CHECK_DEADLOCK FALSE
