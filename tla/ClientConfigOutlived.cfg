SPECIFICATION Spec
CONSTANTS
  alice = alice
  bob = bob
  authn = authn
  a = a
  b = b
  z = z
  staff = staff
  loa = loa
  bad = bad
  r1 = r1
  r2 = r2
  r3 = r3
  w1 = w1
  w2 = w2
  User = {alice, bob, authn}
  Dns = {a, b, z}
  DnsName <- MCDnsName
  Group = {staff, loa, bad}
  Reserved = {loa}
  Multiline = {bad}
  StepUpGroup = loa
  Self = authn
  SelfGroups = {staff}
  Unreadable = Unreadable
  Issuance = {r1, r2, r3}
  Req = {r1, r2}
  Identity <- LoginIdentities
  Sweeper = {}
  Filler = {}
  Declarable = {}
  Leftover = {}
  CertDuration = 2
  StepUpTTL = 1
  DefaultJwtDuration = 3
  SignerMax = 2
  CANotAfter = 4
  Grace = 1
  MaxTime = 3
INVARIANT TokenNeverOutlivesSecret
CHECK_DEADLOCK FALSE
