\* Two keys, one of which may be too long; one interrupted operation or bit flip
\* while the power is off, and two blobs refused.
CONSTANTS
  k1 = k1
  k2 = k2
  v1 = v1
  v2 = v2
  Absent = Absent
  Garbage = Garbage
  Keys <- TwoKeys
  Values <- TwoValues
  LongKeys <- OneMayBeLong
  FlipPhases <- InStorage
  MaxFaults = 1
  MaxRefused = 2
SPECIFICATION Spec
SYMMETRY ValueSymmetry
INVARIANTS TypeOK BackedUpSurvives DurableWrites
