\* Three fibers over the compositions of MC_Reconciler, an allowance of two.
SPECIFICATION FairSpec
CONSTANTS
  Entries = {"a", "b", "c"}
  Plugins = {"provider", "patron", "client", "watcher", "fickle", "twofold", "broken"}
  Keys = {"greet", "count", "extra"}
  Required <- MCRequired
  Optional <- MCOptional
  Provided <- MCProvided
  Fickle = {"fickle"}
  Broken = {"broken"}
  Compositions <- MCCompositions
  ActivationsMax = 2
  None = None
INVARIANT BindingsBelong HandlesFresh RunsWhatItCan
PROPERTY TreeIsFile ConsumersFirst Settles
