CONSTANTS
  Toplevels = {t1}
  Outputs = {o1, o2}
  MaxStates = 2
  NONE = NONE
  MaxConfigures = 2
  Top = t
  Popups = {o1, o2}
  ConstrainedSurfaces = {o1, o2}
  Flags = {"configure", "clicked"}
  ABSENT = ABSENT
SPECIFICATION MCSpec
SYMMETRY Interchangeable
INVARIANTS
  GeometryKept ClientsFollow
