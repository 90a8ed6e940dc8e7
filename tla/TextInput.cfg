CONSTANTS
  Surfaces = {s1, s2, s3}
  TextInputs = {i1, i2}
  IMEs = {x1, x2}
  VKs = {v1}
  OwnerOf <- MCOwnerOf
  NONE = NONE
  SUPERSEDED = SUPERSEDED
  s1 = s1
  s2 = s2
  s3 = s3
  i1 = i1
  i2 = i2
  x1 = x1
  x2 = x2
  v1 = v1
  A = A
  B = B
SPECIFICATION Spec
SYMMETRY Interchangeable
INVARIANTS
  TextInputServed
PROPERTIES
  GrabEndsWithHolder
