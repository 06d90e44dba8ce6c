SPECIFICATION Spec
CONSTANTS
  user = user
  oidc1 = oidc1
  oidc2 = oidc2
  ldap = ldap
  oauth1 = oauth1
  oauth2 = oauth2
  here = here
  Object = {user, oidc1, oidc2, ldap, oauth1, oauth2}
  Kind <- MCKind
  Rank <- MCRank
  Discovering = {oidc1, oidc2}
  SteppingUp = {oidc1}
  Unreadable = {oauth1}
  Basic = Basic
  Origin = {here}
  NoOrigin = NoOrigin
  Star = Star
INVARIANT OneEntryPerConfig
CHECK_DEADLOCK FALSE
