\* Updates one after the other, and power cuts anywhere in them: chunks start on
\* sectors and stay within the image.  A size of 5 does not fit into a slot.
CONSTANTS
  i1 = i1
  i2 = i2
  Erased = Erased
  NoSlot = NoSlot
  Images <- TwoImages
  Targets <- Host
  SlotOffset <- Adjacent
  SectorSize = 2
  SlotSize = 6
  TotalSize = 12
  Sizes = {3, 5}
  Chunks <- MixedOrNot
  Usage <- Cuts
SPECIFICATION Spec
INVARIANTS TypeOK ActiveSlotIntact
PROPERTIES CompleteImageVerifies ImplementsStore
