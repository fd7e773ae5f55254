SPECIFICATION Spec
CONSTANTS
  Items = {i1, i2, i3, i4, i5, i6, i7}
  Company <- MCCompany
  MaxPathDepth = 3
  NoItem = NoItem
  i1 = i1
  i2 = i2
  i3 = i3
  i4 = i4
  i5 = i5
  i6 = i6
  i7 = i7
INVARIANTS
  WithinThePlant
  Forest
  PathReachesRoot
  PreCheckAgrees
SYMMETRY MCSymmetry
