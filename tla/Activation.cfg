CONSTANTS
  Tokens = {1, 2}
  Toplevels = {t1, t2, t3}
  Surfaces = {f1, f2}
  SurfaceOf <- MCSurfaceOf
  Shells = {q1, q2}
  ShellVersion <- MCShellVersion
  AllocMayFail = TRUE
  NONE = NONE
  t1 = t1
  t2 = t2
  t3 = t3
  f1 = f1
  f2 = f2
  q1 = q1
  q2 = q2
  Outputs = {a, b}
  MaxRequests = 2
  a = a
  b = b
  Connectors = {w1, w2}
  MaxTasks = 3
  w1 = w1
  w2 = w2
  Conns = {a, b}
  Crtcs = {c1, c2}
  Planes = {p1, p2, p3}
  TypeOf <- MCOTypeOf
  NoOne = NoOne
  MaxEvents = 1
  c1 = c1
  c2 = c2
  p1 = p1
  p2 = p2
  p3 = p3
  Hardwares <- MCPHardwares
  Views <- MCPViews
  MaxViews = 3
  Cells = {1, 2}
  Buffers = {b1, b2}
  Mems = {m1, m2}
  Handles = {1, 2}
  b1 = b1
  b2 = b2
  m1 = m1
  m2 = m2
  Arrays <- MCYArrays
  MaxSteps = 2
  Params = {p1}
  DPlanes = {0, 1, 2}
  Mods = {0, 1}
  Feedbacks = {df1, df2}
  Patience = 2
  df1 = df1
  df2 = df2
  ABSENT = ABSENT
SPECIFICATION MCSpec
INVARIANTS
  TokensSound DisplayKept
PROPERTIES
  GatedByShell SingleUse NoActivationWhileLocked EveryActivationEnds
