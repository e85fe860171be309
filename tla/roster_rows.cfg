\* Two nodes, one address both steward, a host, claims on it and their withdrawal, an
\* expulsion: the rows against the logs.
SPECIFICATION Spec
CONSTANTS
  Nodes = {1, 2}
  Addresses = {a1}
  Envelopes = {v1, v2}
  Hosts = {h1}
  Names = {m1}
  Exchanges = {x1}
  Dials <- DialOut
  Expellable = {1}
  BatchMax = 2
  RoundsMax = 2
  SeqMax <- FourAndTwo
  EpochMax <- Once
  LateMax = 0
SYMMETRY MCSymmetry
INVARIANT RowsAreBacked OwnRowsAreLogged SoleWriterIsMaterialized
