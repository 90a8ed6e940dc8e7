SPECIFICATION RestartSpec
CONSTANTS
  l1 = l1
  l2 = l2
  t1 = t1
  t2 = t2
  t3 = t3
  app = app
  ls1 = ls1
  ls2 = ls2
  NONE = NONE
  UNREAD = UNREAD
  x1 = x1
  Strangers = {x1}
  Pids = {1, 2, 3}
  Lockers = {l1, l2}
  LockSurfaces = {}
  Toplevels = {}
  Owner <- MCOwner
  Outputs = {1}
  ShellVersion = 32
  AllocMayFail = FALSE
PROPERTIES InheritedLockIsTypable TakeoverOnlyOfDead
