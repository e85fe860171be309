\* Four calls, jobs of two, one job at a time, a queue of three, a leader of
\* three ticks.
SPECIFICATION FairSpec
CONSTANTS
  a1 = a1
  a2 = a2
  a3 = a3
  b1 = b1
  Calls = {a1, a2, a3, b1}
  Models = {"a", "b"}
  ModelOf <- MCModelOf
  BytesOf <- MCBytesOf
  RequestsMax = 2
  BytesMax = 4
  JobsMax = 1
  QueueMax = 3
  LeadTicksMax = 3
  None = None
INVARIANT NoCallIsLost ParkedIsLed AnswersAreOwn
PROPERTY EveryCallIsAnswered
CHECK_DEADLOCK FALSE
