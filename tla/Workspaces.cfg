CONSTANTS
  Toplevels = {t1, t2}
  Managers = {m1, m2}
  MaxWorkspaces = 3
  FirstCount = 3
  MaxStaged = 2
  Nameable = {2}
  NONE = NONE
  Outputs = {t1, t2}
  Panels = {p1}
  Notifications = {n1}
  Launchers = {k1}
  Layers = {m1, m2}
  Wishes <- MCYWishes
  Default <- MCYDefault
  Windows = {w1, w2}
  Seats = {s1, s2}
  FirstSeat = s1
  Span = 6
  Half = 8
  ABSENT = ABSENT
SPECIFICATION MCSpec
SYMMETRY Interchangeable
INVARIANTS
  WorkspacesAgree DesktopArranged
PROPERTIES
  CommitKeepsDesktop
