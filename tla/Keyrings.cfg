CONSTANTS
  Procs     = {p1, p2}
  Keys      = {k1, k2, k3, k4, k5, k6}
  None      = None
  MaxAborts = 2
SPECIFICATION Spec
INVARIANT OwnSignaturesVerify
PROPERTIES
  RefinesKeyPair
  SettledKeyringIsSafe
  SigningRecovers
