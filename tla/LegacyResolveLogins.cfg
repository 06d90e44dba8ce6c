SPECIFICATION Spec
CONSTANTS
  e1 = e1
  e2 = e2
  r1 = r1
  r2 = r2
  r3 = r3
  Login = {r1, r2, r3}
  Endpoint = {e1, e2}
  OwnToken = {e2}
  Stages <- Edited
  Restaction = Restaction
  Shared = Shared
  None = None
  MaxEdits = 1
SYMMETRY Symmetry
INVARIANTS TypeOK AloneSucceeds NoStaleToken SomeoneSucceeds SuccessLeavesNoCopy
PROPERTY CleansUp
CHECK_DEADLOCK FALSE
