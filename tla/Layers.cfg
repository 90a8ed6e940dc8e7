CONSTANTS
  Toplevels = {t1, t2}
  MaxWorkspaces = 2
  NONE = NONE
SPECIFICATION Spec
INVARIANTS
  LayersRight
PROPERTIES
  StackKept FocusSettles FocusRecovers
