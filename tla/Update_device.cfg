\* A device through restarts, updates, power losses and recovery.
CONSTANTS
  Lost = Lost
  CountMod = 256
  MaxCuts = 2
SPECIFICATION Spec
INVARIANTS BootLoopBounded ServicesAgree
PROPERTIES AbortedNotInstalled BootLoopBroken
