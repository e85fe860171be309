\* Two laptops and a backbone: relayed logs, a rebuilt store, an expulsion.
SPECIFICATION Spec
CONSTANTS
  Nodes = {1, 2, 3}
  Addresses = {a1}
  Envelopes = {v1}
  Hosts = {}
  Names = {m1}
  Exchanges = {x1}
  Dials <- Backbone
  Expellable = {3}
  BatchMax = 2
  RoundsMax = 2
  SeqMax <- FirstTwo
  EpochMax <- FirstTwo
  LateMax = 0
INVARIANT CaughtUpIsEqual RowsAreBacked
PROPERTY VectorsFallOnlyMidWrite ExpulsionsStay ImplementsSharedHistory
