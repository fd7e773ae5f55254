SPECIFICATION Spec
CONSTANTS
  p1 = p1
  p2 = p2
  p3 = p3
  Procs <- MCProcs
  Features <- MCFeatures
  Overrides <- MCOverrides
  QuoteAbove = 1
  d1 = d1
  Devices = {d1}
  NameOf <- MCNames
  MaxClients = 4
  MaxRelease = 2
INVARIANTS
  SeatOvershootIsBounded
  QuoteOvershootIsBounded
  CapIsExact
  DuplicatesOnlyFromFirstProbes
SYMMETRY Sym
