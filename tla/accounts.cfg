\* Requests of three people, two at a time.
SPECIFICATION Spec
CONSTANTS
  u1 = u1
  u2 = u2
  u3 = u3
  a1 = a1
  v1 = v1
  v2 = v2
  s1 = s1
  s2 = s2
  User = {u1, u2, u3}
  App = {a1}
  Invite = {v1, v2}
  Slot = {s1, s2}
  None = None
  Open = TRUE
  MaxRequests = 4
  MaxFailures = 1
SYMMETRY Symmetry
\* The run is over when all requests are.
CHECK_DEADLOCK FALSE
INVARIANTS
  TypeOK
  
  OnlyTheFirstUserIsRoot
  InvitesAdmitOnce
  OneInviteIsPending
