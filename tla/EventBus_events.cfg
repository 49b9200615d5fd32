\* Two events, three subscribers, a queue of two, two calls per callback chain.
CONSTANTS
  e1 = e1
  e2 = e2
  NoEvent = NoEvent
  Events <- TwoEvents
  Params <- OneParam
  kMaxEventSubscribers = 3
  kEventQueueDepth = 2
  MaxCalls = 2
SPECIFICATION FairSpec
INVARIANTS TypeOK CountExact NobodyPassedOver RingConsistent
PROPERTIES ServedBeforeReturn ImplementsQueue DrainEnds
