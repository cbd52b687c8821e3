SPECIFICATION Spec
CONSTANTS
  Keys = {k1, k2}
  Callers = {c1, c2}
  Buckets = {b1, b2, b3}
  Rate = 1
  Burst = 1
  Interval = 1
  MaxTime = 4
  NoBucket = NoBucket
  NoKey = NoKey
SYMMETRY Symmetry
INVARIANTS
  BucketBound
  IInv
  SerialKeyBound
PROPERTIES
  CleanupForgivesNothing
