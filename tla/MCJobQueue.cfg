CONSTANTS
  JobIds = {j1, j2}
  Osts = {}
  MaxTime = 0
  UintMod = 2
  Null = Null
  MaxSize = 6
SPECIFICATION Spec
SYMMETRY JobSymmetry
PROPERTY KeepsEveryItem
