SPECIFICATION Spec
CONSTANTS
  g1 = g1
  g2 = g2
  r1 = r1
  r2 = r2
  t1 = t1
  k1 = k1
  k2 = k2
  Guests = {g1, g2}
  Referents = {r1, r2}
  FollowsOf <- MCFollowsOf
  Durations = {1, 2}
  Keys = {k1, k2}
  Tokens = {t1, t2}
  KeyOf <- MCKeyOf
  EnvAllowed = {g1}
  EnvReferents = {}
  EnvDuration = 1
  EnvAdmins = {}
  EnvOperator = k1
  Patches <- MCPatches
  Unpatched = Unpatched
  Nobody = Nobody
  Handlers = {q1, q2}
  Peers = {p1, p2}
  Mesh = {p2}
INVARIANTS TypeOK RestartKeepsConfig DurationArmed RevokedStaysOut TestPeersTended
PROPERTIES SessionsLast
SYMMETRY MCSymmetry
CONSTRAINTS MCOnePart MCOneBody
