CONSTANTS
  l1 = l1
  l2 = l2
  t1 = t1
  t2 = t2
  t3 = t3
  app = app
  ls1 = ls1
  ls2 = ls2
  NONE = NONE
  UNREAD = UNREAD
  x1 = x1
  Strangers = {}
  Pids = {1}
  Lockers = {l1, l2}
  LockSurfaces = {ls1}
  Toplevels = {t1, t3}
  Owner <- MCOwner
  Outputs = {1}
  ShellVersion = 32
  AllocMayFail = TRUE
  CommitSurfaces = {f1, f2}
  Timed = {f1}
  MaxCommits = 3
  f1 = f1
  f2 = f2
  f3 = f3
  Buffers = {b1, b2}
  Releases = {bl1, bl2}
  b1 = b1
  b2 = b2
  bl1 = bl1
  bl2 = bl2
  VOutputs = {o1, o2}
  OutputAt <- MCVAt
  Places = {0, 1}
  Wide = 1
  o1 = o1
  o2 = o2
  Windows = {w1, w2}
  Back = Back
  Cells = {1, 2}
  Boxes = {{}, {1}, {1, 2}}
  MaxChanges = 3
  w1 = w1
  w2 = w2
  N = 2
  RSurfaces = {rs1, rs2}
  HomeOf <- MCRHomeOf
  rs1 = rs1
  rs2 = rs2
  Heads = {h1, h2}
  HOutputs = {o1, o2}
  Widths = {1, 2}
  h1 = h1
  h2 = h2
  Stack <- MCXStack
  Covers <- MCXCovers
  Uses <- MCXUses
  ShmBuffers = {b1, b2}
  Solids = {b3}
  Others = {b4}
  Targets = {xt1, xt2}
  NoBuffer = NoBuffer
  xs1 = xs1
  xs2 = xs2
  b3 = b3
  b4 = b4
  xt1 = xt1
  xt2 = xt2
  ABSENT = ABSENT
SPECIFICATION MCSpec
INVARIANTS
  LockSound DesktopComesBack ShellInformed SceneWhole
PROPERTIES
  KeepsLockPromise
