CONSTANTS
  Outputs = {o1, o2}
  Remotes = {r1}
  Devices = {d1}
  Configs = {p1}
  Rates = {q1}
  HotkeyIds = {h1}
  Chords = {k1}
  STOCK = STOCK
  NONE = NONE
SPECIFICATION Spec
INVARIANT NeverLeftDark
