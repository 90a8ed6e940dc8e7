CONSTANTS
  Clients = {ca, cb}
  Sources = {s1}
  SourceOwner <- MCSourceOwner
  Requests = {1, 2}
  Shells = {q1, q2}
  ShellVersion <- MCShellVersion
  Silos = {x}
  AllocMayFail = TRUE
  CLIP = CLIP
  NONE = NONE
  ca = ca
  cb = cb
  s1 = s1
  s2 = s2
  q1 = q1
  q2 = q2
  PClients = {c1, c2}
  Silo <- MCPSilo
  PSources = {x1, x2}
  PSourceOwner <- MCPSourceOwner
  Seats = {ps1, ps2}
  c1 = c1
  c2 = c2
  x1 = x1
  x2 = x2
  DClients = {c1, c2}
  Owner = c1
  Offers = {o1, o2}
  Masks <- MCDMasks
  NoOne = NoOne
  Gone = Gone
  o1 = o1
  o2 = o2
  ABSENT = ABSENT
SPECIFICATION MCSpec
INVARIANTS
  PendingSound DescriptorSettledOnce AskedShellDecides NothingPastTheGate TransfersWhole
PROPERTIES
  EveryReceiveEnds
