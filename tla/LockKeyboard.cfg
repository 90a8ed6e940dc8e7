CONSTANTS
  l1 = l1
  l2 = l2
  t1 = t1
  t2 = t2
  t3 = t3
  app = app
  ls1 = ls1
  ls2 = ls2
  NONE = NONE
  UNREAD = UNREAD
  x1 = x1
  Strangers = {}
  Pids = {1}
  Lockers = {l1}
  LockSurfaces = {}
  Toplevels = {}
  Owner <- MCOwner
  Outputs = {1, 2}
  ShellVersion = 32
  AllocMayFail = FALSE
  Surfaces = {ps1, ps2, ps3}
  Pointers = {pt1, pt2, pt3}
  Relatives = {q1}
  OwnerOf <- MCPOwnerOf
  Places = {0, 1}
  MaxButtons = 2
  c1 = c1
  c2 = c2
  ps1 = ps1
  ps2 = ps2
  ps3 = ps3
  pt1 = pt1
  pt2 = pt2
  pt3 = pt3
  q1 = q1
  KSurfaces = {ks1, ks2}
  Boards = {td1, td2}
  KOwnerOf <- MCKOwnerOf
  Keys = {"ctrl", "caps"}
  Held = {"ctrl"}
  Locks = {"caps"}
  Maps = {m1, m2}
  ks1 = ks1
  ks2 = ks2
  m1 = m1
  m2 = m2
  TSurfaces = {ts1, ts2}
  Touches = {tt1}
  TOwnerOf <- MCTOwnerOf
  Devices = {td1, td2}
  Fingers = {fg1, fg2}
  Matrices = {"new"}
  Own = Own
  Identity = Identity
  ts1 = ts1
  ts2 = ts2
  tt1 = tt1
  Tablets = {td1, td2}
  Tools = {"pen", "brush"}
  Unique = {"pen"}
  TabletClients = {c1, c2}
  GSurfaces = {gs1, gs2}
  GOwnerOf <- MCGOwnerOf
  gs1 = gs1
  gs2 = gs2
  DDevices = {"kb", "combo", "screen"}
  Caps <- MCDCaps
  HeadOf <- MCDHeadOf
  Heads = {"h1", "h2"}
  DOutputs = {o1, o2}
  o1 = o1
  o2 = o2
  CPointers = {pt1, pt2}
  CSurfaces = {x1, x2}
  CDevices = {v1}
  NSeats = 2
  RToplevels = {td1, td2}
  LayerPopups = {rl1}
  Width = 3
  Height = 3
  Side = 2
  Reach = 2
  ABSENT = ABSENT
SPECIFICATION MCSpec
SYMMETRY Interchangeable
INVARIANTS
  LockerGrabOnlyWhileLocked InputDelivered
PROPERTIES
  CurtainHeldWhileLocked
