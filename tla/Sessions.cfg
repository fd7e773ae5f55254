SPECIFICATION Spec
CONSTANTS
  Processes = {p1, p2}
  Families = {f1, f2}
  Malformed = Malformed
  NoSid = NoSid
  Ttl = 2
  CacheMax = 1
  MaxTime = 3
  p1 = p1
  p2 = p2
  f1 = f1
  f2 = f2
INVARIANTS
  TypeOK
  RevocationBound
  RefusedOnlyIfRevoked
SYMMETRY MCSymmetry
