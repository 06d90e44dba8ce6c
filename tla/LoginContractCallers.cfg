SPECIFICATION FairSpec
CONSTANTS
  Strategy <- AllStrategies
  MaxLacking = 1
  Busy = TRUE
INVARIANTS TypeOK GrantedDeserved RefusalStands
PROPERTY EntitledGetsIn
