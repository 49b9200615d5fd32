\* Programs that use two modules each, in any order.
CONSTANTS
  i1 = i1
  i2 = i2
  r1 = r1
  r2 = r2
  k1 = k1
  k2 = k2
  v1 = v1
  v2 = v2
  Nothing = Nothing
  Programs <- Pairs
  Instructions <- TwoInstructions
  kQueueSize = 3
  Registers <- TwoRegisters
  Keys <- TwoKeys
  Values <- TwoValues
  Configs <- SomeConfigs
  Fits <- FirstFits
  Cut = Cut
SPECIFICATION Spec
INVARIANTS  ScriptSound ConfigWhole
PROPERTY RequestsServed
