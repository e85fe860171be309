\* One expulsion, and a relay that has not heard of it.
SPECIFICATION Spec
CONSTANTS
  Nodes = {1, 2, 3}
  Addresses = {a1}
  Envelopes = {v1}
  Hosts = {}
  Names = {m1}
  Exchanges = {x1}
  Dials <- Backbone
  Expellable = {3}
  BatchMax = 2
  RoundsMax = 3
  SeqMax <- FirstTwo
  EpochMax <- Once
  LateMax = 0
INVARIANT ExpelledIsPurged
