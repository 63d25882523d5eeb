SPECIFICATION Spec
CONSTANTS
  Objects = {x, y, z}
  Root = x
  Temps = {t1, t2, t3, t4}
  MaxDepth = 5
  NoOne = NoOne
SYMMETRY Interchangeable
INVARIANTS SameGraph ConvertedAnew RaisesLikeDumps
