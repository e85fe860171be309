\* Two laptops and a backbone: everything written reaches everybody,
\* whatever is served late.
SPECIFICATION FairSpec
CONSTANTS
  Nodes = {1, 2, 3}
  Addresses = {a1}
  Envelopes = {v1}
  Hosts = {}
  Names = {m1}
  Exchanges = {x1}
  Dials <- Backbone
  Expellable = {}
  BatchMax = 1
  RoundsMax = 3
  SeqMax <- FirstTwo
  EpochMax <- Once
  LateMax = 1
INVARIANT HonestVectors
PROPERTY LogsConverge ExchangesEnd
