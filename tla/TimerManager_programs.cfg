\* Two timers and a pool of two, under both kinds of program.
CONSTANTS
  t1 = t1
  t2 = t2
  nullptr = nullptr
  Timers <- TwoTimers
  kMaxTimers = 2
  Intervals = {3}
  TaktPeriod = 2
  WordSize = 6
  Usages <- Programs
  MaxAge = 2
SPECIFICATION FairSpec
INVARIANTS PoolConsistent NoDangling
PROPERTIES TickedOnce NeverEarly TimerFires
