CONSTANTS
  Streams = {s1, s2}
  Toplevels = {t1}
  Desktop = {o1, o2}
  Pipewire = {w1, w2}
  Pids = {p1, p2}
  FOREIGN = FOREIGN
  NONE = NONE
  Pubs = {s1, s2}
  Cap = 2
  Inner = {pt1}
  Pool = {po1}
  Conns = {s1, s2}
  RBuf = 4
  MaxPackets = 3
  Scopes = {ca, cb}
  OneShot = {cb}
  LStreams = {lw1}
  Rec = Rec
  Size = 3
  Lengths = {1, 2, 4}
  Stdio = 2
  Oldest = 7
  ca = ca
  cb = cb
  lw1 = lw1
  ABSENT = ABSENT
SPECIFICATION MCSpec
SYMMETRY Interchangeable
INVARIANTS
  StreamsEndClean WindowComesBack InputConfined RemoteWhole
