\* An image delivered in chunks that do not fill a sector.
CONSTANTS
  i1 = i1
  i2 = i2
  Erased = Erased
  NoSlot = NoSlot
  Images <- OneImage
  Targets <- Host
  SlotOffset <- Adjacent
  SectorSize = 2
  SlotSize = 6
  TotalSize = 12
  Sizes = {4}
  Chunks <- OneOrThree
  Usage <- Unaligned
SPECIFICATION Spec
PROPERTY CompleteImageVerifies
