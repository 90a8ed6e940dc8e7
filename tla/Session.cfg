CONSTANTS
  Outputs = {o1, o2}
  Remotes = {r1}
  Devices = {d1, d2}
  Configs = {p1}
  Rates = {q1, q2}
  HotkeyIds = {h1}
  Chords = {k1, k2}
  STOCK = STOCK
  NONE = NONE
  Sources = {cs1, cs2}
  Clients = {c1, c2}
  OwnerOf <- MCCOwnerOf
  Modes = {m1, m2}
  MaxVetoes = 2
  cs1 = cs1
  cs2 = cs2
  c1 = c1
  c2 = c2
  Inhibitors = {i1, i2}
  Surfaces = {w1}
  Notifications = {n1}
  IdleTimes = {0, 2}
  Timeouts = {1, 3}
  MaxOptions = 2
  Contexts = {x1}
  Conns = {c1, c2, c3}
  Helpers = {c1}
  Engines = {"tier2", "other"}
  Heads = {h1, h2, h3}
  Screens = {o1, o2}
  ScreenOf <- MCOScreenOf
  Settings = {cs1, cs2}
  h1 = h1
  h2 = h2
  h3 = h3
  o1 = o1
  o2 = o2
  ABSENT = ABSENT
SPECIFICATION Spec
INVARIANTS
  SessionKept
PROPERTIES
  StepsKept CaptureSettles
