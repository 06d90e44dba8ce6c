SPECIFICATION FairSpec
CONSTANTS
  p1 = p1
  p2 = p2
  kid1 = kid1
  kid2 = kid2
  key1 = key1
  key2 = key2
  Pod = {p1, p2}
  Kid = {kid1, kid2}
  Key = {key1, key2}
  NoKid = NoKid
  Unusable = Unusable
  First = {p1}
  FirstKey <- MCFirstKey
  Grace = 1
  MaxTime = 3
  MaxLife = 2
  TTL = 2
  MinRefresh = 1
  MaxTokens = 1
  MaxCrashes = 1
INVARIANTS TypeOK KeysOutliveTokens NeverInvalid RefusedOnlyMeanwhile
PROPERTY RolloutCompletes
CHECK_DEADLOCK FALSE
