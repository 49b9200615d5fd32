\* The ESP32 build, every use of the interface, chunks of any origin, power cuts and flash errors.
CONSTANTS
  i1 = i1
  i2 = i2
  Erased = Erased
  NoSlot = NoSlot
  Images <- TwoImages
  Targets <- Esp
  SlotOffset <- Adjacent
  SectorSize = 2
  SlotSize = 4
  TotalSize = 8
  Sizes = {2}
  Chunks <- Mixed
  Usage <- AnyUse
SPECIFICATION Spec
INVARIANT VerifiedIsDelivered
