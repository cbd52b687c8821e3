SPECIFICATION Spec
CONSTANTS
  Keys = {k1}
  Callers = {c1, c2}
  Buckets = {b1, b2, b3}
  Rate = 1
  Burst = 2
  Interval = 2
  MaxTime = 6
  NoBucket = NoBucket
  NoKey = NoKey
SYMMETRY Symmetry
INVARIANT KeyBound
