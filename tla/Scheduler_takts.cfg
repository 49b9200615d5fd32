\* Three table entries, a static and a background module.
CONSTANTS
  m1 = m1
  m2 = m2
  Modules <- OneOfEach
  Background <- OnlyM2
  kMaxModules = 3
SPECIFICATION FairSpec
INVARIANTS TypeOK LoopSound
PROPERTIES OthersStayDown TickedOncePerTakt ReadyModuleTicks
